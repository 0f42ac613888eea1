------------------------------ MODULE AppRail ------------------------------
(***************************************************************************)
(* The chat-trigger rail of one app: the gateway files requests, the       *)
(* unprivileged hermes-app-broker.py admits them against its ledger and    *)
(* writes jobs, the root hermes-app-runner.py moves each job through       *)
(* running/ to done/ around one command, and the broker turns done files   *)
(* into results.  The directories and the ledger are the variables; broker *)
(* and runner die at any step boundary and are started again.              *)
(*                                                                         *)
(* One operation ("run") stands for both; what the manifest, the registry  *)
(* and the kill switch say can change between two requests, so each of     *)
(* their refusals is possible for every request.                           *)
(***************************************************************************)
EXTENDS Naturals, FiniteSets

CONSTANTS
    Rids,           \* request ids: the names of the files
    Clients,        \* client slugs
    PerClientDay,   \* the operation's quota per client and day
    PerBoxDay,      \* the operation's quota per day
    RefusalCap,     \* REFUSAL_CAP_PER_DAY
    RecoverEvery,   \* passes between two recover() runs
    MaxPerPass,     \* MAX_PER_PASS
    MaxDay,         \* bound: days the calendar advances
    MaxDeaths,      \* bound: deaths of the broker
    MaxKills,       \* bound: deaths of the runner
    Faults,         \* whether the broker's own system calls can fail
    Expiry,         \* whether results grow older than a week
    None            \* "nothing here"

ASSUME AppAssumption ==
    /\ {PerClientDay, PerBoxDay, RefusalCap, MaxDeaths, MaxKills} \subseteq Nat
    /\ {RecoverEvery, MaxPerPass, MaxDay} \subseteq Nat \ {0}
    /\ {Faults, Expiry} \subseteq BOOLEAN
    /\ IsFiniteSet(Rids)

VARIABLES
    requests,   \* spool/requests: the client asked for, "bad" or None
    results,    \* spool/results: the answer, or None
    jobs,       \* app-state/jobs
    running,    \* app-state/running
    done,       \* app-state/done: what became of the command, or None
    ledger,     \* app-state/state/ledger.jsonl, as LedgerIndex reads it
    idx,        \* the broker's LedgerIndex of this pass
    today,      \* the calendar
    pc,         \* where the broker is in step()
    pass,       \* passes since the last recover()
    todo,       \* names of the listing the broker is working through
    task,       \* which function has the id in hand
    cur,        \* the id in hand
    looked,     \* directories recover() has found it missing from
    who,        \* the client of the request in hand
    verdict,    \* the answer about to be written
    rpc,        \* where the runner is in run_all()
    rcur,       \* the job it has in hand
    outcome,    \* what execute() returned
    starts,     \* how often the command was started for each id
    worked,     \* ids whose command did its work (was not told "busy")
    deaths,     \* deaths of the broker so far
    kills       \* deaths of the runner so far

spoolVars  == <<requests, results>>
trayVars   == <<jobs, running, done>>
handVars   == <<todo, task, cur, looked, who, verdict>>
brokerVars == <<idx, pc, pass, handVars, deaths>>
runnerVars == <<rpc, rcur, outcome, starts, worked, kills>>
vars == <<spoolVars, trayVars, ledger, today, brokerVars, runnerVars>>

(***************************************************************************)
(* Answers.  "ok" stands for every answer in which the command reports for *)
(* itself that it worked; "garbage" for output outside the contract.       *)
(***************************************************************************)
BadFile == "bad"
Refusals == {"bad_request", "disabled", "inactive_client", "quota"}
Failures == {"internal", "interrupted", "timeout"}
Answers == Refusals \cup Failures \cup {"ok", "busy"}

DoneKinds == {"ok", "busy", "garbage", "timeout", "interrupted"}

ASSUME NoneAssumption ==
    None \notin Rids \cup Clients \cup Answers \cup DoneKinds \cup {BadFile}

\* map_done: only contracted output passes, in this order.
MapDone(kind) == IF kind = "garbage" THEN "internal" ELSE kind

(***************************************************************************)
(* The ledger.  Its file is append-only and only the broker appends; a     *)
(* torn last line is ignored and terminated.  What matters of it is what   *)
(* LedgerIndex keeps.                                                      *)
(***************************************************************************)
Hold == [rid: Rids, day: 1 .. MaxDay, client: Clients]

Ledgers == [seen: SUBSET Rids, open: SUBSET Rids, held: SUBSET Hold,
            refused: [1 .. MaxDay -> Nat]]

EmptyLedger == [seen |-> {}, open |-> {}, held |-> {},
                refused |-> [d \in 1 .. MaxDay |-> 0]]

\* Mutant: a release does not give the quota back, a result does.
ApplyReleasesOnResult(l, event, r, client, day) ==
    CASE event = "reserved" -> [l EXCEPT !.seen = @ \cup {r}, !.open = @ \cup {r},
             !.held = @ \cup {[rid |-> r, day |-> day, client |-> client]}]
      [] event \in {"released", "resulted"} -> [l EXCEPT !.seen = @ \cup {r},
             !.open = @ \ {r}, !.held = {h \in @ : h.rid # r}]
      [] event = "refused" -> [l EXCEPT !.seen = @ \cup {r}, !.refused[day] = @ + 1]

\* LedgerIndex.apply, for an event appended on that day.
Apply(l, event, r, client, day) ==
    CASE event = "reserved" -> [l EXCEPT !.seen = @ \cup {r}, !.open = @ \cup {r},
             !.held = @ \cup {[rid |-> r, day |-> day, client |-> client]}]
      [] event = "released" -> [l EXCEPT !.seen = @ \cup {r}, !.open = @ \ {r},
             !.held = {h \in @ : h.rid # r}]
      [] event = "resulted" -> [l EXCEPT !.seen = @ \cup {r}, !.open = @ \ {r}]
      [] event = "refused" -> [l EXCEPT !.seen = @ \cup {r}, !.refused[day] = @ + 1]

\* LedgerIndex.count(day, op, client) and count(day, op).
CountClient(l, day, c) == Cardinality({h \in l.held : h.day = day /\ h.client = c})
CountBox(l, day) == Cardinality({h \in l.held : h.day = day})

OverQuota(l, day, c) ==
    CountClient(l, day, c) >= PerClientDay \/ CountBox(l, day) >= PerBoxDay

BrokerStates == {"sleep", "recover", "look", "drain", "reserve", "job", "answer",
                 "record", "close", "unlink", "collect", "undone"}
RunnerStates == {"off", "leftovers", "clear", "queue", "taken", "working", "busy",
                 "finished", "reported"}
Tasks == {"recover", "refuse", "admit", "collect"}

TypeOK ==
    /\ requests \in [Rids -> Clients \cup {BadFile, None}]
    /\ results \in [Rids -> Answers \cup {None}]
    /\ jobs \subseteq Rids /\ running \subseteq Rids
    /\ done \in [Rids -> DoneKinds \cup {None}]
    /\ {ledger, idx} \subseteq Ledgers
    /\ ledger.open \subseteq ledger.seen /\ idx.open \subseteq idx.seen
    /\ today \in 1 .. MaxDay
    /\ pc \in BrokerStates /\ pass \in 0 .. RecoverEvery - 1
    /\ todo \subseteq Rids /\ task \in Tasks \cup {None}
    /\ cur \in Rids \cup {None} /\ looked \in 0 .. 2
    /\ who \in Clients \cup {None} /\ verdict \in Answers \cup {None}
    /\ rpc \in RunnerStates /\ rcur \in Rids \cup {None}
    /\ outcome \in DoneKinds \cup {None}
    /\ starts \in [Rids -> Nat] /\ worked \subseteq Rids
    /\ deaths \in 0 .. MaxDeaths /\ kills \in 0 .. MaxKills

Init ==
    /\ requests = [r \in Rids |-> None] /\ results = [r \in Rids |-> None]
    /\ jobs = {} /\ running = {} /\ done = [r \in Rids |-> None]
    /\ ledger = EmptyLedger /\ idx = EmptyLedger
    /\ today = 1
    /\ pc = "sleep" /\ pass = 0
    /\ todo = {} /\ task = None /\ cur = None /\ looked = 0
    /\ who = None /\ verdict = None
    /\ rpc = "off" /\ rcur = None /\ outcome = None
    /\ starts = [r \in Rids |-> 0] /\ worked = {}
    /\ deaths = 0 /\ kills = 0

-----------------------------------------------------------------------------
(***************************************************************************)
(* The gateway owns requests/: it can replace, reuse, spoil and withdraw    *)
(* whatever it filed, at any time.                                         *)
(***************************************************************************)
Submit(r, content) ==
    /\ requests' = [requests EXCEPT ![r] = content]
    /\ UNCHANGED <<results, trayVars, ledger, today, brokerVars, runnerVars>>

NewDay ==
    /\ today < MaxDay
    /\ today' = today + 1
    /\ UNCHANGED <<spoolVars, trayVars, ledger, brokerVars, runnerVars>>

-----------------------------------------------------------------------------
(***************************************************************************)
(* hermes-app-broker.py: step() over and over.                             *)
(***************************************************************************)
\* What `_append` records: the file, and the index of the pass with it.
Append(event) ==
    /\ ledger' = Apply(ledger, event, cur, who, today)
    /\ idx' = Apply(idx, event, cur, who, today)

\* An append that raises: before its line reached the file, or after (fsync).
AppendRaises(event) ==
    /\ Faults
    /\ ledger' \in {ledger, Apply(ledger, event, cur, who, today)}
    /\ UNCHANGED idx

\* Back to the loop over a listing, with nothing in hand.
Return(dest) ==
    /\ pc' = dest
    /\ cur' = None /\ task' = None /\ who' = None /\ verdict' = None /\ looked' = 0

\* Mutant: nothing looks for reservations that lost their job.
WakeWithoutRecover ==
    /\ pc = "sleep"
    /\ idx' = ledger
    /\ todo' = {}
    /\ Return("recover")
    /\ UNCHANGED <<spoolVars, trayVars, ledger, today, pass, deaths, runnerVars>>

\* A pass begins; every RecoverEvery-th, and the first, with recover().
Wake ==
    /\ pc = "sleep"
    /\ idx' = ledger
    /\ todo' = IF pass = 0 THEN ledger.open ELSE {}
    /\ Return("recover")
    /\ UNCHANGED <<spoolVars, trayVars, ledger, today, pass, deaths, runnerVars>>

TakeOpen(r) ==
    /\ pc = "recover"
    /\ r \in todo
    /\ todo' = todo \ {r}
    /\ pc' = "look" /\ cur' = r /\ task' = "recover"
    /\ UNCHANGED <<spoolVars, trayVars, ledger, today, idx, pass, looked, who, verdict,
                   deaths, runnerVars>>

\* Mutant: the trays are looked through against the direction jobs move in.
LookBackwards == <<"done", "running", "jobs">>

\* Three exists() calls, one after the other, while the runner moves on.
LookOrder == <<"jobs", "running", "done">>

InTray(tray) == CASE tray = "jobs" -> jobs
                  [] tray = "running" -> running
                  [] tray = "done" -> {r \in Rids : done[r] # None}

Look ==
    /\ pc = "look"
    /\ \/ /\ cur \in InTray(LookOrder[looked + 1])
          /\ Return("recover")
       \/ /\ cur \notin InTray(LookOrder[looked + 1])
          /\ looked < 2
          /\ looked' = looked + 1
          /\ UNCHANGED <<pc, cur, task, who, verdict>>
       \/ /\ cur \notin InTray(LookOrder[looked + 1])
          /\ looked = 2
          /\ pc' = "answer" /\ verdict' = "interrupted" /\ looked' = 0
          /\ UNCHANGED <<cur, task, who>>
    /\ UNCHANGED <<spoolVars, trayVars, ledger, today, idx, pass, todo, deaths,
                   runnerVars>>

\* listdir and one read of the ledger; the oldest MaxPerPass entries.
ListRequests ==
    LET present == {r \in Rids : requests[r] # None} IN
    /\ pc = "recover"
    /\ todo = {}
    /\ \E listed \in SUBSET present :
          /\ Cardinality(listed) <= MaxPerPass
          /\ listed = present \/ Cardinality(listed) = MaxPerPass
          /\ todo' = listed
    /\ idx' = ledger
    /\ Return("drain")
    /\ UNCHANGED <<spoolVars, trayVars, ledger, today, pass, deaths, runnerVars>>

\* A request is taken up: what becomes of it is decided from its file, the
\* index, the results and, in Admit, the clock.
Take(r, dest) ==
    /\ pc = "drain"
    /\ r \in todo
    /\ todo' = todo \ {r}
    /\ cur' = r
    /\ pc' = dest
    /\ UNCHANGED <<spoolVars, trayVars, ledger, today, idx, pass, looked, deaths,
                   runnerVars>>

Capped == idx.refused[today] >= RefusalCap

\* Older than an hour, or no regular file: removed unread.
DropUnread(r) ==
    /\ Take(r, "unlink")
    /\ UNCHANGED <<task, who, verdict>>

\* An id the ledger knows: the first result stands.
DropDuplicate(r) ==
    /\ r \in idx.seen
    /\ Take(r, "unlink")
    /\ UNCHANGED <<task, who, verdict>>

\* A result without a ledger line: recorded (under the cap), never re-decided.
KeepOrphan(r) ==
    /\ r \notin idx.seen
    /\ results[r] # None
    /\ Take(r, IF Capped THEN "unlink" ELSE "record")
    /\ task' = "refuse" /\ verdict' = results[r]
    /\ UNCHANGED who

\* A file that vanished since the listing reads as malformed, too.
Reasons(r) ==
    IF requests[r] \notin Clients THEN {"bad_request"}
    ELSE {"disabled", "inactive_client"}
         \cup IF OverQuota(idx, today, requests[r]) THEN {"quota"} ELSE {}

Refuse(r, reason) ==
    /\ r \notin idx.seen
    /\ results[r] = None
    /\ reason \in Reasons(r)
    /\ Take(r, IF Capped THEN "unlink" ELSE "answer")
    /\ task' = "refuse" /\ verdict' = reason
    /\ UNCHANGED who

\* Mutant: an id is known by its result, while that lasts.
AdmitExpired(r) ==
    /\ results[r] = None
    /\ requests[r] \in Clients
    /\ ~OverQuota(idx, today, requests[r])
    /\ Take(r, "reserve")
    /\ task' = "admit" /\ who' = requests[r]
    /\ UNCHANGED verdict

\* A request within both quotas, its id unknown to ledger and results.
Admit(r) ==
    /\ r \notin idx.seen
    /\ results[r] = None
    /\ requests[r] \in Clients
    /\ ~OverQuota(idx, today, requests[r])
    /\ Take(r, "reserve")
    /\ task' = "admit" /\ who' = requests[r]
    /\ UNCHANGED verdict

\* The quota is reserved before the job exists.
Reserve ==
    /\ pc = "reserve"
    /\ Append("reserved")
    /\ pc' = "job"
    /\ UNCHANGED <<spoolVars, trayVars, today, pass, handVars, deaths, runnerVars>>

\* Left for the next pass, which may find the id in the ledger.
ReserveRaises ==
    /\ pc = "reserve"
    /\ AppendRaises("reserved")
    /\ Return("drain")
    /\ UNCHANGED <<spoolVars, trayVars, today, pass, todo, deaths, runnerVars>>

WriteJob ==
    /\ pc = "job"
    /\ jobs' = jobs \cup {cur}
    /\ pc' = "unlink"
    /\ UNCHANGED <<spoolVars, running, done, ledger, today, idx, pass, handVars,
                   deaths, runnerVars>>

\* No job: the reservation is closed with a result of its own.
WriteJobRaises ==
    /\ Faults
    /\ pc = "job"
    /\ pc' = "answer" /\ verdict' = "internal"
    /\ UNCHANGED <<spoolVars, trayVars, ledger, today, idx, pass, todo, task, cur,
                   looked, who, deaths, runnerVars>>

\* Where an id goes when it has been dealt with, and when that raised.
After == CASE task = "recover" -> "recover"
           [] task \in {"refuse", "admit"} -> "unlink"
           [] task = "collect" -> "undone"

OnError == CASE task = "recover" -> "recover"
             [] task = "refuse" -> "drain"
             [] task = "admit" -> "unlink"
             [] task = "collect" -> "collect"

\* _result, always before the ledger is told.
WriteResult ==
    /\ pc = "answer"
    /\ results' = [results EXCEPT ![cur] = verdict]
    /\ pc' = "record"
    /\ UNCHANGED <<requests, trayVars, ledger, today, idx, pass, handVars, deaths,
                   runnerVars>>

\* A raise loses what is in hand, except where an unlink is still to come.
Raise(dest) ==
    IF dest = "unlink" THEN pc' = dest /\ UNCHANGED <<cur, task, who, verdict, looked>>
                       ELSE Return(dest)

WriteResultRaises ==
    /\ Faults
    /\ pc = "answer"
    /\ Raise(OnError)
    /\ UNCHANGED <<spoolVars, trayVars, ledger, today, idx, pass, todo, deaths,
                   runnerVars>>

Event == CASE task = "refuse" -> "refused"
           [] task = "collect" /\ verdict = "busy" -> "released"
           [] OTHER -> "resulted"

Finished == IF After = "recover" THEN Return("recover")
            ELSE pc' = After /\ UNCHANGED <<cur, task, who, verdict, looked>>

\* The ledger line that goes with the result; `released` is followed by
\* `resulted`, in Close.
Record ==
    /\ pc = "record"
    /\ Append(Event)
    /\ \/ /\ Event = "released"
          /\ pc' = "close"
          /\ UNCHANGED <<cur, task, who, verdict, looked>>
       \/ /\ Event # "released"
          /\ Finished
    /\ UNCHANGED <<spoolVars, trayVars, today, pass, todo, deaths, runnerVars>>

RecordRaises ==
    /\ pc = "record"
    /\ AppendRaises(Event)
    /\ Raise(OnError)
    /\ UNCHANGED <<spoolVars, trayVars, today, pass, todo, deaths, runnerVars>>

Close ==
    /\ pc = "close"
    /\ Append("resulted")
    /\ Finished
    /\ UNCHANGED <<spoolVars, trayVars, today, pass, todo, deaths, runnerVars>>

CloseRaises ==
    /\ pc = "close"
    /\ AppendRaises("resulted")
    /\ Raise(OnError)
    /\ UNCHANGED <<spoolVars, trayVars, today, pass, todo, deaths, runnerVars>>

\* _unlink(requests/...): whatever has that name now; a failure is noted only.
Unlink ==
    /\ pc = "unlink"
    /\ \/ requests' = [requests EXCEPT ![cur] = None]
       \/ Faults /\ UNCHANGED requests
    /\ Return("drain")
    /\ UNCHANGED <<results, trayVars, ledger, today, idx, pass, todo, deaths,
                   runnerVars>>

ListDone ==
    /\ pc = "drain"
    /\ todo = {}
    /\ todo' = {r \in Rids : done[r] # None}
    /\ idx' = ledger
    /\ Return("collect")
    /\ UNCHANGED <<spoolVars, trayVars, ledger, today, pass, deaths, runnerVars>>

\* Mutant: a done file is believed whatever the ledger says.
CollectAny(r) ==
    /\ pc = "collect"
    /\ r \in todo
    /\ todo' = todo \ {r}
    /\ cur' = r
    /\ task' = "collect" /\ verdict' = MapDone(done[r]) /\ pc' = "answer"
    /\ UNCHANGED <<spoolVars, trayVars, ledger, today, idx, pass, looked, who, deaths,
                   runnerVars>>

\* A done file counts only for an id reserved and not yet resulted.
Collect(r) ==
    /\ pc = "collect"
    /\ r \in todo
    /\ todo' = todo \ {r}
    /\ cur' = r
    /\ \/ /\ r \in idx.open
          /\ task' = "collect" /\ verdict' = MapDone(done[r]) /\ pc' = "answer"
       \/ /\ r \notin idx.open
          /\ pc' = "undone"
          /\ UNCHANGED <<task, verdict>>
    /\ UNCHANGED <<spoolVars, trayVars, ledger, today, idx, pass, looked, who, deaths,
                   runnerVars>>

RemoveDone ==
    /\ pc = "undone"
    /\ \/ done' = [done EXCEPT ![cur] = None]
       \/ Faults /\ UNCHANGED done
    /\ Return("collect")
    /\ UNCHANGED <<spoolVars, jobs, running, ledger, today, idx, pass, todo, deaths,
                   runnerVars>>

\* expire_results: results older than a week go, at the end of a pass.
ExpireResult(r) ==
    /\ Expiry
    /\ pc = "collect"
    /\ todo = {}
    /\ results[r] # None
    /\ results' = [results EXCEPT ![r] = None]
    /\ UNCHANGED <<requests, trayVars, ledger, today, brokerVars, runnerVars>>

EndPass ==
    /\ pc = "collect"
    /\ todo = {}
    /\ pass' = (pass + 1) % RecoverEvery
    /\ idx' = ledger
    /\ Return("sleep")
    /\ UNCHANGED <<spoolVars, trayVars, ledger, today, todo, deaths, runnerVars>>

\* The broker dies, or an exception escapes step(); systemd starts it again.
Die ==
    /\ deaths < MaxDeaths
    /\ deaths' = deaths + 1
    /\ pass' = 0 /\ todo' = {} /\ idx' = ledger
    /\ Return("sleep")
    /\ UNCHANGED <<spoolVars, trayVars, ledger, today, runnerVars>>

-----------------------------------------------------------------------------
(***************************************************************************)
(* hermes-app-runner.py, a oneshot started while jobs/ is not empty.       *)
(***************************************************************************)
\* hermes-app-runner@.path: DirectoryNotEmpty=jobs.
StartRunner ==
    /\ rpc = "off"
    /\ jobs # {}
    /\ rpc' = "leftovers"
    /\ UNCHANGED <<spoolVars, trayVars, ledger, today, brokerVars, rcur, outcome,
                   starts, worked, kills>>

\* Found in running/ at the start: cut off earlier, reported, never re-run; a
\* done file that is there already is the real one.
ReportLeftover(r) ==
    /\ rpc = "leftovers"
    /\ r \in running
    /\ done' = [done EXCEPT ![r] = IF @ = None THEN "interrupted" ELSE @]
    /\ rcur' = r /\ rpc' = "clear"
    /\ UNCHANGED <<spoolVars, jobs, running, ledger, today, brokerVars, outcome,
                   starts, worked, kills>>

ClearLeftover ==
    /\ rpc = "clear"
    /\ running' = running \ {rcur}
    /\ rcur' = None /\ rpc' = "leftovers"
    /\ UNCHANGED <<spoolVars, jobs, done, ledger, today, brokerVars, outcome, starts,
                   worked, kills>>

BeginQueue ==
    /\ rpc = "leftovers"
    /\ running = {}
    /\ rpc' = "queue"
    /\ UNCHANGED <<spoolVars, trayVars, ledger, today, brokerVars, rcur, outcome,
                   starts, worked, kills>>

\* rename(jobs/..., running/...), before anything is executed.
TakeJob(r) ==
    /\ rpc = "queue"
    /\ r \in jobs
    /\ jobs' = jobs \ {r}
    /\ running' = running \cup {r}
    /\ rcur' = r /\ rpc' = "taken"
    /\ UNCHANGED <<spoolVars, done, ledger, today, brokerVars, outcome, starts,
                   worked, kills>>

\* The command takes the box's lock, or finds it taken.
Begin ==
    /\ rpc = "taken"
    /\ starts' = [starts EXCEPT ![rcur] = @ + 1]
    /\ \/ rpc' = "working" /\ worked' = worked \cup {rcur}
       \/ rpc' = "busy" /\ UNCHANGED worked
    /\ UNCHANGED <<spoolVars, trayVars, ledger, today, brokerVars, rcur, outcome, kills>>

\* No such command, or no such operation any more: rc None.
CannotBegin ==
    /\ rpc = "taken"
    /\ rpc' = "finished" /\ outcome' = "garbage"
    /\ UNCHANGED <<spoolVars, trayVars, ledger, today, brokerVars, rcur, starts,
                   worked, kills>>

\* The command ends, or its time does and its process group is killed.
Finish ==
    /\ rpc \in {"working", "busy"}
    /\ outcome' \in {"garbage", "timeout", IF rpc = "busy" THEN "busy" ELSE "ok"}
    /\ rpc' = "finished"
    /\ UNCHANGED <<spoolVars, trayVars, ledger, today, brokerVars, rcur, starts,
                   worked, kills>>

\* The done file, before the job leaves running/.
Report ==
    /\ rpc = "finished"
    /\ done' = [done EXCEPT ![rcur] = outcome]
    /\ rpc' = "reported" /\ outcome' = None
    /\ UNCHANGED <<spoolVars, jobs, running, ledger, today, brokerVars, rcur, starts,
                   worked, kills>>

ClearJob ==
    /\ rpc = "reported"
    /\ running' = running \ {rcur}
    /\ rcur' = None /\ rpc' = "queue"
    /\ UNCHANGED <<spoolVars, jobs, done, ledger, today, brokerVars, outcome, starts,
                   worked, kills>>

StopRunner ==
    /\ rpc = "queue"
    /\ jobs = {}
    /\ rpc' = "off"
    /\ UNCHANGED <<spoolVars, trayVars, ledger, today, brokerVars, rcur, outcome,
                   starts, worked, kills>>

\* The unit is stopped, times out, fails on a write, or the box goes down;
\* the control group, and the command with it, is gone.
Kill ==
    /\ rpc # "off"
    /\ kills < MaxKills
    /\ kills' = kills + 1
    /\ rpc' = "off" /\ rcur' = None /\ outcome' = None
    /\ UNCHANGED <<spoolVars, trayVars, ledger, today, brokerVars, starts, worked>>

-----------------------------------------------------------------------------
Gateway == \E r \in Rids, content \in Clients \cup {BadFile, None} : Submit(r, content)

RecoverStep == Wake \/ Look \/ \E r \in Rids : TakeOpen(r)

DrainStep ==
    \/ ListRequests \/ Reserve \/ ReserveRaises \/ WriteJob \/ WriteJobRaises \/ Unlink
    \/ \E r \in Rids :
          \/ DropUnread(r) \/ DropDuplicate(r) \/ KeepOrphan(r) \/ Admit(r)
          \/ \E reason \in Refusals : Refuse(r, reason)

AnswerStep == \/ WriteResult \/ WriteResultRaises \/ Record \/ RecordRaises
              \/ Close \/ CloseRaises

CollectStep == \/ ListDone \/ RemoveDone \/ EndPass
               \/ \E r \in Rids : Collect(r) \/ ExpireResult(r)

BrokerStep == RecoverStep \/ DrainStep \/ AnswerStep \/ CollectStep

RunnerStep ==
    \/ StartRunner \/ ClearLeftover \/ BeginQueue \/ Begin \/ CannotBegin \/ Finish
    \/ Report \/ ClearJob \/ StopRunner
    \/ \E r \in Rids : ReportLeftover(r) \/ TakeJob(r)

Next == Gateway \/ NewDay \/ BrokerStep \/ Die \/ RunnerStep \/ Kill

Spec == Init /\ [][Next]_vars

\* The broker's unit restarts it and its loop never ends; the path unit starts
\* the runner while there are jobs, and every command has a timeout.
FairSpec == Spec /\ WF_vars(BrokerStep) /\ WF_vars(RunnerStep)

-----------------------------------------------------------------------------
(***************************************************************************)
(* Safety.                                                                 *)
(***************************************************************************)
\* Nothing re-runs on its own, or on a replayed request: one id, one start.
AtMostOneStart == \A r \in Rids : starts[r] <= 1

\* Nothing happens for an id after its answer: no job is left in the queue
\* and the runner is not about to start or still inside its command.
AnsweredIsOver ==
    \A r \in Rids : results[r] # None =>
        /\ r \notin jobs
        /\ rcur = r => rpc \in {"clear", "reported"}

\* Every run that did any work stays on the bill of the day it was admitted
\* on, whatever its answer was, and no bill exceeds its quota.
WorkIsCharged ==
    LET charged == {h \in ledger.held : h.rid \in worked} IN
    /\ \A r \in worked : \E h \in charged : h.rid = r
    /\ \A d \in 1 .. MaxDay :
          /\ Cardinality({h \in charged : h.day = d}) <= PerBoxDay
          /\ \A c \in Clients :
                Cardinality({h \in charged : h.day = d /\ h.client = c}) <= PerClientDay

\* The result comes first: an id the ledger holds closed has been answered.
ClosedIsAnswered == ~Expiry => ledger.seen \ ledger.open \subseteq {r \in Rids : results[r] # None}

\* What the ledger says is so: work is on a bill that is within its quota, what
\* is closed has been answered, and every variable has its type.
LedgerInv == TypeOK /\ WorkIsCharged /\ ClosedIsAnswered

(***************************************************************************)
(* Liveness.                                                               *)
(***************************************************************************)
\* What is reserved gets its answer, whatever the gateway does meanwhile.
ReservedIsAnswered == \A r \in Rids : r \in ledger.open ~> results[r] # None

(***************************************************************************)
(* The promise to whoever asked: the stage of an id is read off the        *)
(* runner's starts and the ledger, its answer is the file in results/.     *)
(***************************************************************************)
Stage(r) ==
    CASE starts[r] > 1 -> "twice"
      [] starts[r] = 1 /\ r \in worked -> "worked"
      [] starts[r] = 1 /\ r \notin worked -> "turned away"
      [] starts[r] = 0 /\ (\E h \in ledger.held : h.rid = r) -> "booked"
      [] OTHER -> "new"

Promise == INSTANCE JobPromise WITH
               stage  <- [r \in Rids |-> Stage(r)],
               answer <- results

\* The rail implements the promise, over crashes of broker and runner at any
\* step, failing writes and a gateway that rewrites its requests.
KeepsPromise == Promise!PromiseSpec
=============================================================================
