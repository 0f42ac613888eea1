---------------------------- MODULE MutationRail ----------------------------
(***************************************************************************)
(* The governed mutation rail of infra/hermes-agent for one client: the    *)
(* gateway files requests in a spool, hermes-broker.py drains it, reserves *)
(* the operator's approval, starts run-ads-mutate.sh and answers in the    *)
(* spool; apply-changeset.py verifies the approval again and changes the   *)
(* account.  Every file the parts share is a variable; every place where a *)
(* process can be interrupted between two effects is a step boundary.      *)
(*                                                                         *)
(* apply-changeset.py's guards other than the approval (kill switch, caps, *)
(* allow list, package pin, credentials) appear here as the possibility to *)
(* refuse before the first live call.                                      *)
(***************************************************************************)
EXTENDS Naturals, FiniteSets

CONSTANTS
    Rids,           \* request ids: the names of the spool files
    Cids,           \* change-set ids
    Versions,       \* contents (digests) a change-set can be approved with
    Brokers,        \* hermes-broker processes (the unit, an operator's --once)
    Actions,        \* number of actions in a change-set
    MaxPending,     \* quota max_pending_requests
    DailyQuota,     \* quota accepted_requests_per_client_day
    MaxSpoolFiles,  \* MAX_SPOOL_FILES
    BrokerRuns,     \* bound: identities of the runs brokers start
    HandRuns,       \* bound: identities of the runs the operator starts by hand
    MaxTickets,     \* bound: approvals the operator writes
    MaxDay,         \* bound: days the calendar advances
    MaxCrashes,     \* bound: broker deaths
    Faults,         \* whether the broker's own system calls can fail
    BypassClient,   \* whether the gateway writes requests/ without hermes-syscall.py
    None            \* "nothing here": no file, no request, no broker

Runs == BrokerRuns \cup HandRuns

ASSUME RailAssumption ==
    /\ Actions \in Nat \ {0}
    /\ {MaxPending, DailyQuota, MaxSpoolFiles} \subseteq Nat
    /\ {MaxTickets, MaxDay, MaxCrashes} \subseteq Nat
    /\ MaxDay > 0
    /\ {Faults, BypassClient} \subseteq BOOLEAN
    /\ IsFiniteSet(Rids)
    /\ BrokerRuns \cap HandRuns = {}
    /\ None \notin Rids \cup Cids \cup Versions \cup Brokers \cup Runs

VARIABLES
    requests,   \* spool/requests: change-set asked for, "bad" or None
    filed,      \* ids the gateway has used
    results,    \* spool/results: classification of the result, or None
    seen,       \* governance/seen: day on which the id was burned, 0 if not
    snapshot,   \* governance/approvals/<cid>.json: approved bytes, or None
    approval,   \* governance/approvals/<cid>.approval.json, or None
    tickets,    \* approvals written so far
    approving,  \* the approve-changeset.py between its two writes, or None
    today,      \* the calendar
    run,        \* executor runs, with what they did to the account
    lock,       \* control/.locks/<slug>.lock: the broker holding it, or None
    pc,         \* where each broker is in drain()
    now,        \* the day each broker took at the start of its drain
    names,      \* names _scan returned that are still to be parsed
    parsed,     \* parsed requests still to be processed
    rejected,   \* rejected names still to be answered
    pending,    \* parsed requests counted once per drain
    cur,        \* the id in hand
    child,      \* the executor run the broker waits for
    verdict,    \* the classification it is about to write
    crashes     \* broker deaths so far

spoolVars   == <<requests, filed, results>>
storeVars   == <<seen, snapshot, approval, tickets, approving>>
batchVars   == <<now, names, parsed, rejected, pending>>
handVars    == <<cur, child, verdict>>
brokerVars  == <<lock, pc, batchVars, handVars, crashes>>
vars == <<spoolVars, storeVars, today, run, brokerVars>>

(***************************************************************************)
(* Classifications.  exit_code of a result and the exit status the gateway *)
(* client derives from it are functions of the classification.  The exit   *)
(* status 9 stands for any that CLASSIFICATION_BY_RC lacks.                *)
(***************************************************************************)
\* Mutant: an exit nobody attested is read as a usage error (before F14).
ClassOfUnattested(rc) ==
    CASE rc = 0 -> "accepted_applied"
      [] rc = 2 -> "refused_preflight"
      [] rc = 3 -> "failed_after_mutation"
      [] rc = 9 -> "failed_unknown_exit"
      [] OTHER  -> "refused_usage"

ClassOf(rc) ==
    CASE rc = 0 -> "accepted_applied"
      [] rc = 1 -> "refused_usage"
      [] rc = 2 -> "refused_preflight"
      [] rc = 3 -> "failed_after_mutation"
      [] rc = 4 -> "failed_unverified_exit"
      [] OTHER  -> "failed_unknown_exit"

\* What the broker decides without an executor.
Refusals == {"refused_request", "refused_replay", "refused_quota",
             "refused_approval"}

\* What it reports of an executor that changed nothing...
Denials == {"refused_usage", "refused_preflight"}

\* ...and of one that did, or may have.
MayHaveModified == {"accepted_applied", "failed_after_mutation",
                    "failed_unverified_exit", "failed_unknown_exit"}

Classes == Refusals \cup Denials \cup MayHaveModified

ASSUME NoneAssumption == None \notin Classes

\* Exit status of `hermes-syscall result`: 4 pending, 2 refused, 3 failed.
FetchExit(class) ==
    CASE class = None -> 4
      [] class = "accepted_applied" -> 0
      [] class \in {"failed_after_mutation", "failed_unverified_exit"} -> 3
      [] OTHER -> 2

-----------------------------------------------------------------------------
(***************************************************************************)
(* The stores.                                                             *)
(***************************************************************************)
BadFile == "bad"

Approval == [ticket: 1 .. MaxTickets, ver: Versions, for: Rids \cup {None},
             closed: BOOLEAN]

\* A fresh record carries no reservation, whatever the one it replaces held.
FreshApproval(t, v) == [ticket |-> t, ver |-> v, for |-> None, closed |-> FALSE]

Reservable(a) == a # None /\ a.for = None

\* Mutant: any run is taken for the one the approval was reserved for.
AcceptsAnyRun(a, digest, r) ==
    /\ a # None
    /\ ~a.closed
    /\ a.ver = digest

\* changeset_lib.verify_approval for a run started with --request r (or None).
Accepts(a, digest, r) ==
    /\ a # None
    /\ a.for # None => ~a.closed /\ r # None /\ a.for = r
    /\ a.ver = digest

RunStates == {"free", "started", "loaded", "ready", "landed", "done"}

RunRecord == [pc: RunStates,
              rid: Rids \cup {None}, cid: Cids \cup {None},
              ver: Versions \cup {None},   \* the bytes read 1 parsed
              ticket: 0 .. MaxTickets,     \* the approval verified, 0 if none
              held: BOOLEAN,               \* it was reserved when verified
              landed: 0 .. Actions, logged: 0 .. Actions,
              unread: BOOLEAN,             \* it changed the account in a call
                                           \* whose output it could not read
              exit: 0 .. 4]                \* final=4 until attested

FreeRun == [pc |-> "free", rid |-> None, cid |-> None, ver |-> None,
            ticket |-> 0, held |-> FALSE,
            landed |-> 0, logged |-> 0, unread |-> FALSE, exit |-> 4]

StartedRun(r, c) == [FreeRun EXCEPT !.pc = "started", !.rid = r, !.cid = c]

BrokerStates == {"idle", "parse", "loop", "locked", "unseen", "accepted",
                 "burned", "reserved", "waiting", "finish", "publish",
                 "answer", "except", "rejecting", "discard"}

\* Where the broker is inside `with _ClientLock(slug)`.
Locked == {"locked", "unseen", "accepted", "burned", "reserved", "waiting",
           "finish", "publish", "answer"}

TypeOK ==
    /\ requests \in [Rids -> Cids \cup {BadFile, None}]
    /\ filed \subseteq Rids
    /\ results \in [Rids -> Classes \cup {None}]
    /\ seen \in [Rids -> 0 .. MaxDay]
    /\ snapshot \in [Cids -> Versions \cup {None}]
    /\ approval \in [Cids -> Approval \cup {None}]
    /\ tickets \in 0 .. MaxTickets
    /\ approving \in [cid: Cids, ver: Versions] \cup {None}
    /\ today \in 1 .. MaxDay
    /\ run \in [Runs -> RunRecord]
    /\ lock \in Brokers \cup {None}
    /\ pc \in [Brokers -> BrokerStates]
    /\ now \in [Brokers -> 1 .. MaxDay]
    /\ names \in [Brokers -> SUBSET Rids]
    /\ parsed \in [Brokers -> [Rids -> Cids \cup {None}]]
    /\ rejected \in [Brokers -> SUBSET Rids]
    /\ pending \in [Brokers -> Nat]
    /\ cur \in [Brokers -> Rids \cup {None}]
    /\ child \in [Brokers -> Runs \cup {None}]
    /\ verdict \in [Brokers -> Classes \cup {None}]
    /\ crashes \in 0 .. MaxCrashes

NothingParsed == [r \in Rids |-> None]

Init ==
    /\ requests = [r \in Rids |-> None]
    /\ filed = {}
    /\ results = [r \in Rids |-> None]
    /\ seen = [r \in Rids |-> 0]
    /\ snapshot = [c \in Cids |-> None]
    /\ approval = [c \in Cids |-> None]
    /\ tickets = 0
    /\ approving = None
    /\ today = 1
    /\ run = [x \in Runs |-> FreeRun]
    /\ lock = None
    /\ pc = [b \in Brokers |-> "idle"]
    /\ now = [b \in Brokers |-> 1]
    /\ names = [b \in Brokers |-> {}]
    /\ parsed = [b \in Brokers |-> NothingParsed]
    /\ rejected = [b \in Brokers |-> {}]
    /\ pending = [b \in Brokers |-> 0]
    /\ cur = [b \in Brokers |-> None]
    /\ child = [b \in Brokers |-> None]
    /\ verdict = [b \in Brokers |-> None]
    /\ crashes = 0

-----------------------------------------------------------------------------
(***************************************************************************)
(* The gateway and hermes-syscall.py.                                      *)
(***************************************************************************)
\* submit(): a complete file appears under its name in one os.replace.  A
\* fresh uuid4 per call, unless the gateway bypasses the client and reuses one.
Submit(r, c) ==
    /\ requests[r] = None
    /\ BypassClient \/ r \notin filed
    /\ requests' = [requests EXCEPT ![r] = c]
    /\ filed' = filed \cup {r}
    /\ UNCHANGED <<results, storeVars, today, run, brokerVars>>

\* Anything under a request name that load_request refuses: an open schema, a
\* directory, a fifo, torn JSON.
Malformed(r) ==
    /\ BypassClient
    /\ requests' = [requests EXCEPT ![r] = BadFile]
    /\ UNCHANGED <<filed, results, storeVars, today, run, brokerVars>>

\* The gateway owns the entries it created in the sticky requests/.
Withdraw(r) ==
    /\ BypassClient
    /\ requests[r] # None
    /\ requests' = [requests EXCEPT ![r] = None]
    /\ UNCHANGED <<filed, results, storeVars, today, run, brokerVars>>

-----------------------------------------------------------------------------
(***************************************************************************)
(* The operator.  approve-changeset.py replaces the snapshot and then the  *)
(* approval record: two atomic writes, not one.                            *)
(***************************************************************************)
WriteSnapshot(c, v) ==
    /\ approving = None
    /\ tickets < MaxTickets
    /\ snapshot' = [snapshot EXCEPT ![c] = v]
    /\ approving' = [cid |-> c, ver |-> v]
    /\ UNCHANGED <<spoolVars, seen, approval, tickets, today, run, brokerVars>>

WriteApproval ==
    /\ approving # None
    /\ tickets' = tickets + 1
    /\ approval' = [approval EXCEPT ![approving.cid] =
                        FreshApproval(tickets + 1, approving.ver)]
    /\ approving' = None
    /\ UNCHANGED <<spoolVars, seen, snapshot, today, run, brokerVars>>

\* run-ads-mutate.sh --changeset c, by hand: without --request, or with the
\* id of a reservation a crashed run left behind.
StartByHand(x, c, r) ==
    /\ run[x].pc = "free"
    /\ r # None => approval[c] # None /\ approval[c].for = r
    /\ run' = [run EXCEPT ![x] = StartedRun(r, c)]
    /\ UNCHANGED <<spoolVars, storeVars, today, brokerVars>>

NewDay ==
    /\ today < MaxDay
    /\ today' = today + 1
    /\ UNCHANGED <<spoolVars, storeVars, run, brokerVars>>

-----------------------------------------------------------------------------
(***************************************************************************)
(* An executor run: run-ads-mutate.sh and apply-changeset.py.  Nothing in  *)
(* it waits for the broker, so it outlives the broker and its timeout.     *)
(***************************************************************************)
\* The wrapper passes 0..3 through only when the executor attested them.
Exit(x, rc) ==
    \E final \in {rc, 4} :
        run' = [run EXCEPT ![x].pc = "done", ![x].exit = final]

\* Refusals of the wrapper itself, before Compose is called: exit 1.
RefuseUsage(x) ==
    /\ run[x].pc = "started"
    /\ run' = [run EXCEPT ![x].pc = "done", ![x].exit = 1]
    /\ UNCHANGED <<spoolVars, storeVars, today, brokerVars>>

\* Guard 3, first read: the bytes that will be executed.
LoadSnapshot(x) ==
    /\ run[x].pc = "started"
    /\ snapshot[run[x].cid] # None
    /\ run' = [run EXCEPT ![x].pc = "loaded", ![x].ver = snapshot[run[x].cid]]
    /\ UNCHANGED <<spoolVars, storeVars, today, brokerVars>>

\* Guard 5: file_digest reads the snapshot again, then verify_approval.
VerifyApproval(x) ==
    LET a == approval[run[x].cid] IN
    /\ run[x].pc = "loaded"
    /\ Accepts(a, snapshot[run[x].cid], run[x].rid)
    /\ run' = [run EXCEPT ![x].pc = "ready", ![x].ticket = a.ticket,
                          ![x].held = (a.for # None)]
    /\ UNCHANGED <<spoolVars, storeVars, today, brokerVars>>

\* Any guard, or validate_only, refuses: nothing has been sent.
RefusePreflight(x) ==
    /\ run[x].pc \in {"started", "loaded", "ready"}
    /\ run[x].landed = 0
    /\ Exit(x, 2)
    /\ UNCHANGED <<spoolVars, storeVars, today, brokerVars>>

\* One live call of the mutator succeeds.
Land(x) ==
    /\ run[x].pc = "ready"
    /\ run' = [run EXCEPT ![x].pc = "landed", ![x].landed = @ + 1]
    /\ UNCHANGED <<spoolVars, storeVars, today, brokerVars>>

\* Mutant: a failing first call is reported as a refusal.
MutatorRefuses(x) ==
    /\ run[x].pc = "ready"
    /\ \E n \in {run[x].landed, run[x].landed + 1}, final \in {2, 4} :
          run' = [run EXCEPT ![x].pc = "done", ![x].landed = n, ![x].exit = final]
    /\ UNCHANGED <<spoolVars, storeVars, today, brokerVars>>

\* The first live call changed the account, and _invoke raised all the same:
\* subprocess.run could not decode what the mutator printed (text=True), or
\* failed while it read it.  `landed` is not set yet, so apply() refuses.
InvokeRaises(x) ==
    /\ run[x].pc = "ready"
    /\ run[x].landed = 0
    /\ \E final \in {2, 4} :
          run' = [run EXCEPT ![x].pc = "done", ![x].landed = 1, ![x].unread = TRUE,
                             ![x].exit = final]
    /\ UNCHANGED <<spoolVars, storeVars, today, brokerVars>>

\* The mutator fails, or answers nonsense, after changing the account or not;
\* or, once `landed` is set, _invoke raises.
MutatorFails(x) ==
    /\ run[x].pc = "ready"
    /\ \E n \in {run[x].landed, run[x].landed + 1}, final \in {3, 4} :
          run' = [run EXCEPT ![x].pc = "done", ![x].landed = n, ![x].exit = final]
    /\ UNCHANGED <<spoolVars, storeVars, today, brokerVars>>

\* append_log, fsynced, before the next action begins.
AppendLog(x) ==
    LET n == run[x].logged + 1 IN
    /\ run[x].pc = "landed"
    /\ \/ /\ n < Actions
          /\ run' = [run EXCEPT ![x].pc = "ready", ![x].logged = n]
       \/ /\ n = Actions
          /\ \E final \in {0, 4} :
                run' = [run EXCEPT ![x].pc = "done", ![x].logged = n, ![x].exit = final]
    /\ UNCHANGED <<spoolVars, storeVars, today, brokerVars>>

\* append_log raises, before the line reached the file or after (fsync).
AppendLogFails(x) ==
    /\ run[x].pc = "landed"
    /\ \E n \in {run[x].logged, run[x].logged + 1}, final \in {3, 4} :
          run' = [run EXCEPT ![x].pc = "done", ![x].logged = n, ![x].exit = final]
    /\ UNCHANGED <<spoolVars, storeVars, today, brokerVars>>

\* The container is killed or crashes: no attested line, final=4.
Die(x) ==
    /\ run[x].pc \in {"started", "loaded", "ready", "landed"}
    /\ run' = [run EXCEPT ![x].pc = "done", ![x].exit = 4]
    /\ UNCHANGED <<spoolVars, storeVars, today, brokerVars>>

-----------------------------------------------------------------------------
(***************************************************************************)
(* hermes-broker.py: one drain() per turn of the loop idle -> ... -> idle. *)
(***************************************************************************)
Present == {r \in Rids : requests[r] # None}

\* More than MAX_SPOOL_FILES names: the whole drain is refused, nothing changes.
Scan(b) ==
    /\ pc[b] = "idle"
    /\ Present # {}
    /\ Cardinality(Present) <= MaxSpoolFiles
    /\ pc' = [pc EXCEPT ![b] = "parse"]
    /\ now' = [now EXCEPT ![b] = today]
    /\ names' = [names EXCEPT ![b] = Present]
    /\ UNCHANGED <<spoolVars, storeVars, today, run, lock, parsed, rejected,
                   pending, handVars, crashes>>

\* A drain that finds nothing, or too much, changes nothing.
IdleDrain(b) ==
    /\ pc[b] = "idle"
    /\ Present = {} \/ Cardinality(Present) > MaxSpoolFiles
    /\ UNCHANGED vars

\* load_request of one name: a file that changed or vanished since the scan is
\* read as it is now.
Parse(b, r) ==
    /\ pc[b] = "parse"
    /\ r \in names[b]
    /\ names' = [names EXCEPT ![b] = @ \ {r}]
    /\ IF requests[r] \in Cids
         THEN /\ parsed' = [parsed EXCEPT ![b][r] = requests[r]]
              /\ UNCHANGED rejected
         ELSE /\ rejected' = [rejected EXCEPT ![b] = @ \cup {r}]
              /\ UNCHANGED parsed
    /\ UNCHANGED <<spoolVars, storeVars, today, run, lock, pc, now, pending,
                   handVars, crashes>>

ParsedIds(b) == {r \in Rids : parsed[b][r] # None}

\* The per-client pending count, taken once for the whole drain.
CountPending(b) ==
    /\ pc[b] = "parse"
    /\ names[b] = {}
    /\ pc' = [pc EXCEPT ![b] = "loop"]
    /\ pending' = [pending EXCEPT ![b] = Cardinality(ParsedIds(b))]
    /\ UNCHANGED <<spoolVars, storeVars, today, run, lock, now, names, parsed,
                   rejected, handVars, crashes>>

\* Rejected names come first; they are answered outside the client lock.
TakeRejected(b, r) ==
    /\ pc[b] = "loop"
    /\ r \in rejected[b]
    /\ pc' = [pc EXCEPT ![b] = "except"]
    /\ cur' = [cur EXCEPT ![b] = r]
    /\ UNCHANGED <<spoolVars, storeVars, today, run, lock, batchVars, child,
                   verdict, crashes>>

\* Mutant: the client lock is not taken.
TakeUnlocked(b, r) ==
    /\ pc[b] = "loop"
    /\ rejected[b] = {}
    /\ r \in ParsedIds(b)
    /\ lock' = b
    /\ pc' = [pc EXCEPT ![b] = "locked"]
    /\ cur' = [cur EXCEPT ![b] = r]
    /\ UNCHANGED <<spoolVars, storeVars, today, run, batchVars, child, verdict,
                   crashes>>

\* `with _ClientLock(slug)`: flock blocks until the other drain lets go.
TakeRequest(b, r) ==
    /\ pc[b] = "loop"
    /\ rejected[b] = {}
    /\ r \in ParsedIds(b)
    /\ lock = None
    /\ lock' = b
    /\ pc' = [pc EXCEPT ![b] = "locked"]
    /\ cur' = [cur EXCEPT ![b] = r]
    /\ UNCHANGED <<spoolVars, storeVars, today, run, batchVars, child, verdict,
                   crashes>>

\* Leaving `with _ClientLock` for dest, by return or by exception.
Leave(b, dest) ==
    /\ pc' = [pc EXCEPT ![b] = dest]
    /\ lock' = None

\* A refusal decided by _process or by _execute; written by AnswerRefusal.
Decide(b, class) ==
    /\ pc' = [pc EXCEPT ![b] = "answer"]
    /\ verdict' = [verdict EXCEPT ![b] = class]

Burned(r) == seen[r] # 0

\* seen_contains: a replay keeps the result that is already there.
RefuseReplay(b) ==
    /\ pc[b] = "locked"
    /\ Burned(cur[b])
    /\ \/ /\ results[cur[b]] # None
          /\ Leave(b, "discard")
          /\ UNCHANGED verdict
       \/ /\ results[cur[b]] = None
          /\ Decide(b, "refused_replay")
          /\ UNCHANGED lock
    /\ UNCHANGED <<spoolVars, storeVars, today, run, batchVars, cur, child, crashes>>

NotSeen(b) ==
    /\ pc[b] = "locked"
    /\ ~Burned(cur[b])
    /\ pc' = [pc EXCEPT ![b] = "unseen"]
    /\ UNCHANGED <<spoolVars, storeVars, today, run, lock, batchVars, handVars, crashes>>

AcceptedOn(d) == {r \in Rids : seen[r] = d}

\* classify(): an over-limit client is refused wholesale.
WithinQuota(b) ==
    /\ pending[b] <= MaxPending
    /\ Cardinality(AcceptedOn(now[b])) < DailyQuota

RefuseQuota(b) ==
    /\ pc[b] = "unseen"
    /\ ~WithinQuota(b)
    /\ Decide(b, "refused_quota")
    /\ UNCHANGED <<spoolVars, storeVars, today, run, lock, batchVars, cur, child,
                   crashes>>

Accept(b) ==
    /\ pc[b] = "unseen"
    /\ WithinQuota(b)
    /\ pc' = [pc EXCEPT ![b] = "accepted"]
    /\ UNCHANGED <<spoolVars, storeVars, today, run, lock, batchVars, handVars, crashes>>

\* Unreadable registry, corrupt seen-set, append_seen failing before its
\* write: an exception before anything was recorded.
ProcessRaises(b) ==
    /\ Faults
    /\ pc[b] \in {"locked", "unseen", "accepted"}
    /\ Leave(b, "except")
    /\ UNCHANGED <<spoolVars, storeVars, today, run, batchVars, handVars, crashes>>

\* Mutant: the id is accepted without being recorded.
BurnForgotten(b) ==
    /\ pc[b] = "accepted"
    /\ pc' = [pc EXCEPT ![b] = "burned"]
    /\ UNCHANGED <<spoolVars, storeVars, today, run, lock, batchVars, handVars, crashes>>

\* append_seen, before anything is executed.
BurnId(b) ==
    /\ pc[b] = "accepted"
    /\ seen' = [seen EXCEPT ![cur[b]] = now[b]]
    /\ pc' = [pc EXCEPT ![b] = "burned"]
    /\ UNCHANGED <<spoolVars, snapshot, approval, tickets, approving, today, run,
                   lock, batchVars, handVars, crashes>>

\* append_seen raises after the line reached the file (fsync of the directory).
BurnRaises(b) ==
    /\ Faults
    /\ pc[b] = "accepted"
    /\ seen' = [seen EXCEPT ![cur[b]] = now[b]]
    /\ Leave(b, "except")
    /\ UNCHANGED <<spoolVars, snapshot, approval, tickets, approving, today, run,
                   batchVars, handVars, crashes>>

CurCid(b) == parsed[b][cur[b]]

\* Mutant: an approval that is reserved already is reserved again.
ReserveAgain(b) ==
    /\ pc[b] = "burned"
    /\ approval[CurCid(b)] # None
    /\ approval' = [approval EXCEPT ![CurCid(b)].for = cur[b]]
    /\ pc' = [pc EXCEPT ![b] = "reserved"]
    /\ UNCHANGED <<spoolVars, seen, snapshot, tickets, approving, today, run, lock,
                   batchVars, handVars, crashes>>

Reserve(b) ==
    /\ pc[b] = "burned"
    /\ Reservable(approval[CurCid(b)])
    /\ approval' = [approval EXCEPT ![CurCid(b)].for = cur[b]]
    /\ pc' = [pc EXCEPT ![b] = "reserved"]
    /\ UNCHANGED <<spoolVars, seen, snapshot, tickets, approving, today, run, lock,
                   batchVars, handVars, crashes>>

\* Mutant: the request is dropped without a result.
ReserveRaisesSilently(b) ==
    /\ pc[b] = "burned"
    /\ ~Reservable(approval[CurCid(b)])
    /\ Leave(b, "discard")
    /\ UNCHANGED <<spoolVars, storeVars, today, run, batchVars, handVars, crashes>>

\* No approval, or reserved already; or the store fails, possibly after
\* os.replace put the reservation in place.
ReserveRaises(b) ==
    /\ pc[b] = "burned"
    /\ \/ /\ ~Reservable(approval[CurCid(b)]) \/ Faults
          /\ UNCHANGED approval
       \/ /\ Reservable(approval[CurCid(b)])
          /\ Faults
          /\ approval' = [approval EXCEPT ![CurCid(b)].for = cur[b]]
    /\ Decide(b, "refused_approval")
    /\ UNCHANGED <<spoolVars, seen, snapshot, tickets, approving, today, run, lock,
                   batchVars, cur, child, crashes>>

\* subprocess.run(MUTATE_SH --client --changeset --request).
Launch(b, x) ==
    /\ pc[b] = "reserved"
    /\ run[x].pc = "free"
    /\ run' = [run EXCEPT ![x] = StartedRun(cur[b], CurCid(b))]
    /\ child' = [child EXCEPT ![b] = x]
    /\ pc' = [pc EXCEPT ![b] = "waiting"]
    /\ UNCHANGED <<spoolVars, storeVars, today, lock, batchVars, cur, verdict, crashes>>

\* The program cannot be started at all: OSError out of _execute.
LaunchRaises(b) ==
    /\ Faults
    /\ pc[b] = "reserved"
    /\ Leave(b, "except")
    /\ UNCHANGED <<spoolVars, storeVars, today, run, batchVars, handVars, crashes>>

Classify(b, class) ==
    /\ pc' = [pc EXCEPT ![b] = "finish"]
    /\ verdict' = [verdict EXCEPT ![b] = class]
    /\ UNCHANGED <<spoolVars, storeVars, today, run, lock, batchVars, cur, child,
                   crashes>>

CollectExit(b) ==
    /\ pc[b] = "waiting"
    /\ run[child[b]].pc = "done"
    /\ Classify(b, ClassOf(run[child[b]].exit))

\* RUNNER_TIMEOUT_SECONDS: the shell is killed, rc=3 is made up, and the
\* container it started runs on.
Timeout(b) ==
    /\ pc[b] = "waiting"
    /\ Classify(b, ClassOf(3))

\* The shell alone is killed by a signal: a negative status nobody maps.
ShellKilled(b) ==
    /\ Faults
    /\ pc[b] = "waiting"
    /\ Classify(b, ClassOf(9))

\* record_outcome closes whatever reservation the record holds now; without
\* one it raises, which is logged and swallowed.
RecordOutcome(b) ==
    LET c == CurCid(b) IN
    /\ pc[b] = "finish"
    /\ pc' = [pc EXCEPT ![b] = "publish"]
    /\ approval' = IF approval[c] # None /\ ~Reservable(approval[c])
                     THEN [approval EXCEPT ![c].closed = TRUE]
                     ELSE approval
    /\ UNCHANGED <<spoolVars, seen, snapshot, tickets, approving, today, run, lock,
                   batchVars, handVars, crashes>>

RecordOutcomeFails(b) ==
    /\ Faults
    /\ pc[b] = "finish"
    /\ pc' = [pc EXCEPT ![b] = "publish"]
    /\ UNCHANGED <<spoolVars, storeVars, today, run, lock, batchVars, handVars, crashes>>

SetResult(b, class) == results' = [results EXCEPT ![cur[b]] = class]

\* The last _write_result of _execute; its failure is swallowed and the
\* result stays missing.
PublishOutcome(b) ==
    /\ pc[b] = "publish"
    /\ \/ SetResult(b, verdict[b])
       \/ Faults /\ UNCHANGED results
    /\ Leave(b, "discard")
    /\ UNCHANGED <<requests, filed, storeVars, today, run, batchVars, handVars, crashes>>

AnswerRefusal(b) ==
    /\ pc[b] = "answer"
    /\ SetResult(b, verdict[b])
    /\ Leave(b, "discard")
    /\ UNCHANGED <<requests, filed, storeVars, today, run, batchVars, handVars, crashes>>

\* _write_result raises inside _process: drain's handler takes over.
AnswerRaises(b) ==
    /\ Faults
    /\ pc[b] = "answer"
    /\ Leave(b, "except")
    /\ UNCHANGED <<spoolVars, storeVars, today, run, batchVars, handVars, crashes>>

DropHand(b) ==
    /\ cur' = [cur EXCEPT ![b] = None]
    /\ child' = [child EXCEPT ![b] = None]
    /\ verdict' = [verdict EXCEPT ![b] = None]

\* Mutant: the handler does not look for a result before it writes one.
CheckNothing(b) ==
    /\ pc[b] = "except"
    /\ pc' = [pc EXCEPT ![b] = "rejecting"]
    /\ UNCHANGED <<spoolVars, storeVars, today, run, lock, batchVars, handVars, crashes>>

\* Mutant: a name that has its result already is skipped, not discarded.
SkipAnswered(b) ==
    /\ pc[b] = "except"
    /\ \/ /\ results[cur[b]] = None
          /\ pc' = [pc EXCEPT ![b] = "rejecting"]
          /\ UNCHANGED <<parsed, rejected, handVars>>
       \/ /\ results[cur[b]] # None
          /\ pc' = [pc EXCEPT ![b] = "loop"]
          /\ parsed' = [parsed EXCEPT ![b][cur[b]] = None]
          /\ rejected' = [rejected EXCEPT ![b] = @ \ {cur[b]}]
          /\ DropHand(b)
    /\ UNCHANGED <<spoolVars, storeVars, today, run, lock, now, names, pending,
                   crashes>>

\* drain's handler, and the rejected names: _has_result first...
CheckResult(b) ==
    /\ pc[b] = "except"
    /\ pc' = [pc EXCEPT ![b] = IF results[cur[b]] = None THEN "rejecting" ELSE "discard"]
    /\ UNCHANGED <<spoolVars, storeVars, today, run, lock, batchVars, handVars, crashes>>

\* ...then the write, outside the lock.
WriteRejection(b) ==
    /\ pc[b] = "rejecting"
    /\ SetResult(b, "refused_request")
    /\ pc' = [pc EXCEPT ![b] = "discard"]
    /\ UNCHANGED <<requests, filed, storeVars, today, run, lock, batchVars, handVars,
                   crashes>>

\* Mutant: a request refused before its id was burned is kept for another day.
DiscardBurned(b) ==
    /\ pc[b] = "discard"
    /\ requests' = IF Burned(cur[b]) THEN [requests EXCEPT ![cur[b]] = None] ELSE requests
    /\ pc' = [pc EXCEPT ![b] = "loop"]
    /\ parsed' = [parsed EXCEPT ![b][cur[b]] = None]
    /\ rejected' = [rejected EXCEPT ![b] = @ \ {cur[b]}]
    /\ DropHand(b)
    /\ UNCHANGED <<filed, results, storeVars, today, run, lock, now, names, pending,
                   crashes>>

\* _discard; unlink, rmdir and quarantine may all fail, and the entry stays.
Discard(b) ==
    /\ pc[b] = "discard"
    /\ \/ requests' = [requests EXCEPT ![cur[b]] = None]
       \/ Faults /\ UNCHANGED requests
    /\ pc' = [pc EXCEPT ![b] = "loop"]
    /\ parsed' = [parsed EXCEPT ![b][cur[b]] = None]
    /\ rejected' = [rejected EXCEPT ![b] = @ \ {cur[b]}]
    /\ DropHand(b)
    /\ UNCHANGED <<filed, results, storeVars, today, run, lock, now, names, pending,
                   crashes>>

\* The drain is over, or an exception escaped it and watch() swallowed it.
Rest(b) ==
    /\ pc' = [pc EXCEPT ![b] = "idle"]
    /\ now' = [now EXCEPT ![b] = 1]
    /\ names' = [names EXCEPT ![b] = {}]
    /\ parsed' = [parsed EXCEPT ![b] = NothingParsed]
    /\ rejected' = [rejected EXCEPT ![b] = {}]
    /\ pending' = [pending EXCEPT ![b] = 0]
    /\ DropHand(b)

EndDrain(b) ==
    /\ pc[b] = "loop"
    /\ rejected[b] = {}
    /\ ParsedIds(b) = {}
    /\ Rest(b)
    /\ UNCHANGED <<spoolVars, storeVars, today, run, lock, crashes>>

RejectionRaises(b) ==
    /\ Faults
    /\ pc[b] = "rejecting"
    /\ Rest(b)
    /\ UNCHANGED <<spoolVars, storeVars, today, run, lock, crashes>>

\* The process dies and systemd restarts it: flock is released, memory is
\* gone, files and running containers stay.
Crash(b) ==
    /\ crashes < MaxCrashes
    /\ pc[b] # "idle"
    /\ Rest(b)
    /\ lock' = IF lock = b THEN None ELSE lock
    /\ crashes' = crashes + 1
    /\ UNCHANGED <<spoolVars, storeVars, today, run>>

-----------------------------------------------------------------------------
Gateway == \E r \in Rids : \/ \E c \in Cids : Submit(r, c)
                           \/ Malformed(r)
                           \/ Withdraw(r)

Operator == \/ \E c \in Cids, v \in Versions : WriteSnapshot(c, v)
            \/ WriteApproval
            \/ \E x \in HandRuns, c \in Cids, r \in Rids \cup {None} : StartByHand(x, c, r)

RunStep(x) == \/ RefuseUsage(x) \/ LoadSnapshot(x) \/ VerifyApproval(x)
              \/ RefusePreflight(x) \/ Land(x) \/ InvokeRaises(x) \/ MutatorFails(x)
              \/ AppendLog(x) \/ AppendLogFails(x) \/ Die(x)

DrainStep(b) ==
    \/ Scan(b) \/ IdleDrain(b) \/ CountPending(b) \/ EndDrain(b)
    \/ \E r \in Rids : Parse(b, r) \/ TakeRejected(b, r) \/ TakeRequest(b, r)

ProcessStep(b) ==
    \/ RefuseReplay(b) \/ NotSeen(b) \/ RefuseQuota(b) \/ Accept(b)
    \/ ProcessRaises(b)
    \/ BurnId(b) \/ BurnRaises(b) \/ AnswerRefusal(b) \/ AnswerRaises(b)
    \/ CheckResult(b) \/ WriteRejection(b) \/ RejectionRaises(b) \/ Discard(b)

ExecuteStep(b) ==
    \/ Reserve(b) \/ ReserveRaises(b)
    \/ LaunchRaises(b) \/ CollectExit(b) \/ Timeout(b) \/ ShellKilled(b)
    \/ RecordOutcome(b) \/ RecordOutcomeFails(b) \/ PublishOutcome(b)
    \/ \E x \in BrokerRuns : Launch(b, x)

BrokerStep(b) == DrainStep(b) \/ ProcessStep(b) \/ ExecuteStep(b)

Next ==
    \/ Gateway
    \/ Operator
    \/ NewDay
    \/ \E x \in Runs : RunStep(x)
    \/ \E b \in Brokers : BrokerStep(b) \/ Crash(b)

Spec == Init /\ [][Next]_vars

\* watch() loops for ever and systemd restarts it, so every broker keeps
\* taking steps.  Neither the gateway, the operator nor a run owes any.
FairSpec == Spec /\ \A b \in Brokers : WF_vars(BrokerStep(b))

-----------------------------------------------------------------------------
(***************************************************************************)
(* Safety.                                                                 *)
(***************************************************************************)
RunsFor(r) == {x \in BrokerRuns : run[x].pc # "free" /\ run[x].rid = r}

\* Run x changed the account, and some part of the rail can know it: a first
\* call whose output could not be read is a change only the account shows.
KnownChange(x) == run[x].landed # 0 /\ ~run[x].unread

Untouched(r) == \A x \in RunsFor(r) : ~KnownChange(x)

\* A request id is executed at most once, over crashes, restarts, replays of
\* the id and concurrent drains: the seen-set is written before the run.
OneRunPerRequest ==
    \A x, y \in BrokerRuns :
        run[x].pc # "free" /\ run[y].pc # "free" /\ run[x].rid = run[y].rid => x = y

\* A reservation lets one broker run through verify_approval, whatever
\* crashed, timed out or was re-approved in between.
ReservationSpentOnce ==
    \A x, y \in BrokerRuns :
        run[x].held /\ run[y].held /\ run[x].ticket = run[y].ticket => x = y

\* A reservation is honoured for one request only: every run it lets through,
\* the broker's and the operator's own retries, carries the same id.
ReservedRunsShareRequest ==
    \A x, y \in Runs :
        run[x].held /\ run[y].held /\ run[x].ticket = run[y].ticket
            => run[x].rid = run[y].rid

\* The verdicts a burned id can get before or from its run say the truth for
\* good: no change of the account ever belongs to such a request, except one
\* made by a call whose output could not be read (KnownChange).
BurnedRefusalIsTrue ==
    \A r \in Rids :
        results[r] \in {"refused_approval", "refused_usage", "refused_preflight"}
            => Untouched(r)

\* While no broker has died: what `hermes-syscall result` calls a refusal (every
\* exit_code but 0, 3 and 4) did not touch the account, with the exception of
\* KnownChange.
RefusedMeansUntouched ==
    crashes = 0 => \A r \in Rids : FetchExit(results[r]) = 2 => Untouched(r)

\* The broker accepts at most accepted_requests_per_client_day ids per day,
\* also when two drains count the same seen-set or a drain spans midnight.
DailyQuotaHolds == \A d \in 1 .. MaxDay : Cardinality(AcceptedOn(d)) <= DailyQuota

\* Of the runs the broker starts, an approval authorises one, ever: reserving
\* makes single use hold by itself.
ReservingIsSingleUse ==
    \A x, y \in BrokerRuns :
        run[x].ticket # 0 /\ run[x].ticket = run[y].ticket => x = y

(***************************************************************************)
(* Action properties.                                                      *)
(***************************************************************************)
\* While no broker has died: what the gateway has been told about a request never
\* changes, whatever becomes of its quota, its approval and the day.
AnswerIsFinal ==
    [][crashes = 0 => \A r \in Rids : results[r] # None => results'[r] = results[r]]_vars

(***************************************************************************)
(* Liveness.                                                               *)
(***************************************************************************)
Crowded == Cardinality(Present) > MaxSpoolFiles

\* _discard could neither unlink, remove nor quarantine the entry of r.
LeavesBehind(b, r) ==
    pc[b] = "discard" /\ cur[b] = r /\ pc'[b] = "loop" /\ requests'[r] # None

\* Every entry leaves the spool (refused, answered or executed), also when the
\* drain that holds it fails or dies.  The exceptions are the three the code
\* has: a spool that is over MAX_SPOOL_FILES again and again (such a drain reads
\* nothing), an entry that can be removed on no drain any more, and refusals
\* that can be written on no drain any more (the exception ends each of them).
RequestIsConsumed ==
    \A r \in Rids :
        <>[][\A b \in Brokers : ~LeavesBehind(b, r) /\ ~RejectionRaises(b)]_vars
            => []<>Crowded \/ (requests[r] # None ~> requests[r] = None)

\* Every burned id gets a result.
BurnedIsAnswered == \A r \in Rids : Burned(r) ~> results[r] # None

(***************************************************************************)
(* The abstract promise the rail keeps: for each id, the stage is what the *)
(* seen-set and the runs say, the answer is the file in results/.  What    *)
(* only the account shows (KnownChange) is no stage of the promise.        *)
(***************************************************************************)
Stage(r) ==
    CASE RunsFor(r) # {} /\ ~Untouched(r) -> "touched"
      [] RunsFor(r) # {} /\ Untouched(r)  -> "launched"
      [] RunsFor(r) = {} /\ Burned(r)     -> "burned"
      [] OTHER                            -> "fresh"

Promise == INSTANCE RequestPromise WITH
               Verdicts <- Refusals,
               Reports  <- MayHaveModified,
               stage    <- [r \in Rids |-> Stage(r)],
               answer   <- results

\* Every behaviour of the rail with one broker is one the promise allows.
KeepsPromise == Promise!PromiseSpec

=============================================================================
