# Verification of the hermes agent host

TLA+ models of `src/infra/hermes-agent`: the host on which an unprivileged chat
gateway gets privileged work done on a client's account, and the programs that
keep that host's records, its isolation and the evidence about it.

* the **mutation rail**: a request for an approved change-set goes over a spool
  to `hermes-broker.py`, which starts `run-ads-mutate.sh` / `apply-changeset.py`
  through `docker-create-proxy.py`;
* the **app rail** ("Option B"): a request for one of an app's fixed operations
  comes in over `hermes-app-mcp.py` and a spool to the unprivileged
  `hermes-app-broker.py`, which hands a job to the root `hermes-app-runner.py`;
  its command is `run-client-audit.py`;
* the **operator's tools** that make and change the governance store both rails
  rely on, and the **review evidence** that is collected from the running host.

All of these are several processes that write, rename and remove the same files
or share a connection, a lock or a container name, with a crash possible between
any two of those steps.  Nothing in the test suite can put a crash, a second
drain or the operator's next approval between two given system calls; that is
what the models are for.

Paths below are relative to `src/infra/hermes-agent/` unless they start with
`src/`.

## 1. Modules

| module | what it is |
|---|---|
| `MutationRail` | the mutation rail: gateway, broker(s), approval store, executor runs; safety, action and liveness properties |
| `RequestPromise` | abstract: what the mutation rail promises about one request id |
| `RailInvariant` | the inductive invariant of `MutationRail`, in named parts |
| `RailTruth` | what makes the broker's answers true, and final, as further inductive invariants |
| `MutationRailProofs` | TLAPS proofs of both, that `MutationRail` implements `RequestPromise`, and that answers are final and refusals true while one broker lives |
| `MCMutationRail` | symmetry set and values for TLC |
| `ApplyExecutor` | executions of `apply-changeset.py` that may overlap: kill switch, caps, live loop, log, undo |
| `ExecutorInvariant` | its inductive invariants, in named parts |
| `ApplyExecutorProofs` | TLAPS proofs of the invariant, of what follows from it, and about exit statuses and the daily caps |
| `MCApplyExecutor` | symmetry set for TLC |
| `AppRail` | the app rail: gateway, broker, ledger, runner |
| `JobPromise` | abstract: what the app rail promises about one request id |
| `AppRailInvariant` | its inductive invariant, in named parts |
| `AppRailProofs` | TLAPS proofs of the invariant, of what follows from it, and that `AppRail` implements `JobPromise` |
| `MCAppRail` | symmetry set for TLC |
| `AppServer`, `MCAppServer` | the gateway's stdio server: the reading loop, slots, threads, one reply lock, the end of the input |
| `ServerInvariant` | its inductive invariant, in named parts |
| `AppServerProofs` | TLAPS proofs of the invariant and of what follows from it |
| `ClientAudit`, `MCClientAudit` | `run-client-audit.py`: the steps of its four modes, shared directories, lock, clean-up, signals |
| `AuditInvariant`, `AuditProofs` | its inductive invariant, in named parts, and the TLAPS proofs of it and of the safety properties |
| `DockerProxy`, `MCDockerProxy` | `docker-create-proxy.py`: connections, request framing, lookups, relays and raw pipes |
| `ProxyInvariant`, `ProxyProofs` | its inductive invariant, in named parts, and the TLAPS proofs of it and of the safety properties |
| `GovernanceStore`, `MCHostTools` | layout, migration, registration, purge, and the preflight with the run that follows it |
| `StoreInvariant`, `StoreProofs` | its inductive invariant, in named parts, and the TLAPS proofs of it and of the safety properties |
| `ReviewEvidence`, `MCReviewEvidence` | `collect-review-evidence.py` over a host that changes, and the closing lines of `summarize-review-bundle.py` |
| `ReviewInvariant`, `ReviewProofs` | its inductive invariant, in named parts, and the TLAPS proofs of it and of the safety properties |

`PROJECT.json` lists the components of the repository, the runs, the lines each
definition translates, the mutants that show each property to be breakable, the
hazards and the theorems.

## 2. The system

### 2.1 Components that are modelled

**Gateway client** (`bin/hermes-syscall.py`, `bin/spool_lib.py`).  State: the
files in `spool/requests` (it writes) and `spool/results` (it reads).  `submit`
writes a new file under an id of its own; `result` reports what is in `results`
through its exit status.  The gateway may also write requests without the
client, under any name, and may remove them at any time: the broker has to be
correct against that.  *Correct* if the exit status of `result` never says less
than the result file does.

**Mutation broker** (`bin/hermes-broker.py`).  Its memory lives for one `drain()`;
all it keeps is in files: the seen-set (`governance/seen`), the results, the
client lock.  One drain scans the spool, parses everything, then takes one
request after the other under the client lock: replay check, quota, burn the id
in the seen-set, reserve the approval, start the executor, wait for it, record
the outcome on the approval, write the result, discard the request.  *Hard*:
each of those is a separate effect; it may die or raise between any two; the
operator may run a second drain (`--once`) beside the unit; the day may change.
*Correct* if an id is executed at most once, the answers are true of what
happened to the account, the daily quota holds, and no request stays for ever but in
the cases the code documents: a spool that holds more than `MAX_SPOOL_FILES` files
(`drain`, ruling R6) and an entry that can neither be removed nor quarantined
(`_discard`).

**Approval store** (`bin/changeset_lib.py`, `bin/approve-changeset.py`).  Two
files per change-set: the snapshot of the reviewed bytes, and the approval with
its digest, expiry and reservation.  `write_approval` replaces it,
`reserve_approval` and `record_outcome` rewrite it under a sidecar lock,
`verify_approval` only reads.  *Hard*: snapshot and approval are two writes, and
reader and writer are different processes with no lock over both.  *Correct* if
one reservation lets one run of the broker through, and a run executes the
bytes its approval names.

**Executor** (`bin/apply-changeset.py`, `run-ads-mutate.sh`).  Reads the
snapshot, verifies the approval, then for each action calls the account and
appends to the log; its exit status says whether the account may have changed
and is believed only with an attestation file.  It runs in a container and
survives the broker, its timeout and the wrapper.  Its own state is the client's
append-only log: the daily caps and the list of what `--undo` removes are read
back from it.  *Hard*: the broker serialises only its own runs, so a run by hand
or a container that outlived its wrapper overlaps with the next one; a live call
and its log line are two effects; the log is read once and used later.
*Correct* if no exit status claims less than was done, the log tells what is in
force, an undo undoes, and the caps hold.

**App gateway server** (`bin/hermes-app-mcp.py`).  One loop reads JSON-RPC lines;
a call gets one of a few slots and a thread that files a request with a fresh id
and polls for the result.  Its state: the slots, one lock around every write, the
flag that the input has ended.  *Hard*: waiting calls last minutes, and pings
have to be answered meanwhile; the process exits with threads alive.  *Correct* if
slots add up, replies are whole and true, and nothing waits for somebody else's call.

**App broker** (`bin/hermes-app-broker.py`).  One process per app; passes of
`recover` (at start and every 30th pass), `drain_once`, `collect_once`,
`expire_results`.  Its state is the append-only ledger (`reserved`, `released`,
`resulted`, `refused`), read into a `LedgerIndex` at the start of each listing.
*Hard*: result, ledger line and removal of the file are three effects in a fixed
order; an entry that raises is left for the next pass; `recover` looks at three
directories while the runner moves a file through them.  *Correct* if what is
reserved is answered, once, truly, and stays on the bill of its day if it worked.

**App runner** (`bin/hermes-app-runner.py`, its path and service units).  A
oneshot started while `jobs/` is not empty: reports what it finds in `running/`
as interrupted, then moves each job to `running/`, executes one command, writes
`done/`, removes `running/`.  *Correct* if nothing is ever executed twice.

**App contract and ledger** (`bin/app_lib.py`): ledger, index, atomic writes, and
which outputs of a command pass as its answer (`map_done`).

**Client audit runner** (`bin/run-client-audit.py`, `client_audit_lib.py`,
`report_lib.py`, `report-store.py`, `vault-write.py`).  A plan of steps, most of them
one-shot containers, under a host-wide lock; directories shared by all runs of a
client; a proxy that is up while a drafter needs it; SIGTERM raises wherever it
comes and is masked in the clean-up.  *Hard*: a timeout ends the docker client and
not the container; an earlier run may have been cut short anywhere; the clean-up
itself fails.  *Correct* if what is stored is the run's own, whole, and what the
answer says, and nothing is left behind without a reason.

**Docker create proxy** (`bin/docker-create-proxy.py`).  A thread per connection
reads a request, decides, asks dockerd what the target is, forwards it and relays the
reply.  *Hard*: requests are sent ahead and cut anywhere, a reply is of one of three
kinds, an attach turns the connection into a pipe, a wait blocks.  *Correct* if
proxy, client and dockerd agree on where a request begins, and only what was decided
on gets through.

**Governance store tools** (`bin/host_layout.py`, `init-host-layout.py`,
`migrate-governance.py`, `migrate_governance_shim.py`, `register-client.py`, `vault-purge.py`,
`preflight-governance-access.py`).  Each is a sequence of calls on the same few
files, any of which can fail, and can be killed between any two.  *Hard*: some undo what
they did, others rely on being run again, and the preflight is what tells.
*Correct* if no record, registry or vault is lost, exit codes are true, and doing what
the checks say brings the store up.

**Review evidence** (`bin/collect-review-evidence.py`, `summarize-review-bundle.py`,
`review_lib.py`).  A long sequence of reads of a host that goes on changing, each by
a command that may fail or hang; then a verdict over the whole.  *Hard*: two items are read at
different times and compared.  *Correct* if no line is "ok" over something that was
wrong from the start of the collection to its end.

### 2.2 Interactions

    gateway --requests/--> hermes-broker --fork--> run-ads-mutate.sh --> account
       ^                     |      ^                     |
       +------results/-------+      |              snapshot, approval
                           seen-set, lock             ^
                                     approve-changeset.py (operator)

    gateway --requests/--> app broker --jobs/--> app runner --exec--> command
       ^                     |   ^                |  running/
       +------results/-------+   +-----done/------+
                           ledger

Between the broker's executor and dockerd sits the create proxy; the app rail's
command is the client audit runner, whose answer `map_done` reads; both rails
append to the logs and read the registry that the operator's tools make, after
the preflight passed; the review reads all of it from outside.

The arrows are files in directories; the only streams are the gateway's pipe to
`hermes-app-mcp.py` and the proxy's sockets.  Files are written by rename, so a reader sees the old or the new content; a
directory listing and what is later read under a listed name are two steps.

### 2.3 The rest of the repository

`PROJECT.json` has one entry per component.  *Not modelled*, in short: the
client-data migration (the pattern of the governance migration), the listener
check, the telemetry hooks, the second brain and the skill evaluation manifest are
small state machines over files and are candidates for later (section 14); parsers
(`mcp_config.py`), report texts, auditors, scanners and installers are pure or
straight-line and have no behaviour that TLC would find out; skills, documents and
packs are prose and data.

## 3. `MutationRail`

| variables | in the code |
|---|---|
| `requests`, `results` | the two spool directories; a request is a change-set id, `"bad"` or absent, a result is its classification |
| `seen` | the seen-set, with the day each id was accepted |
| `snapshot`, `approval` | the two files of a change-set; `ticket` numbers the approvals written, `for` is `reserved_by`, `closed` is `outcome` |
| `run` | executor processes: where they are, what they loaded, what they changed (`landed`) and logged (`logged`), whether they could not read of a change they made (`unread`), and the approval they passed with |
| `lock`, `pc`, `now`, `names`, `parsed`, `rejected`, `pending`, `cur`, `child`, `verdict` | a broker in `drain()`: client lock, program counter, and its local variables |
| `filed`, `tickets`, `approving`, `today`, `crashes` | the client's used ids, the operator, the calendar, the bound on deaths |

One action per effect.  `Scan` .. `CountPending` are the head of `drain()`;
`TakeRequest` takes the client lock; `RefuseReplay`, `RefuseQuota`, `Accept`,
`BurnId` are `_process`; `Reserve` .. `PublishOutcome` are `_execute`; `CheckResult`
and `WriteRejection` are the exception handler of the loop, reached from every
`...Raises` action; `Discard` removes or quarantines the entry.  `Crash` is a death
anywhere: memory is lost, the lock is released by the kernel, files and running
containers stay.  `RunStep` are the steps of `apply-changeset.py`, including those
of a run nobody waits for any more.

Abstracted: one client; the order of requests within one drain; the content of
requests and results beyond the classification; the executor's guards other than
the approval (kill switch, caps, allow list, packages, credentials) are the
possibility to refuse before the first live call; expiry of an approval is one of
the possible refusals; the sidecar lock makes each store operation one step.
`InvokeRaises` is a first live call that changed the account and whose output could not be
read: the run exits with 2 (section 12), and the properties about refusals except that one change
(`KnownChange`).

## 4. `ApplyExecutor`

| variables | in the code |
|---|---|
| `enabled` | the kill switch file `control/mutation-enabled` |
| `log` | `log/<slug>.jsonl`: change-set, resource name, `applied` or `undone`, and the day of `ts` |
| `account` | external: the criteria in force |
| `today` | the calendar |
| `run` | each execution: where it is, apply or undo, the day of its `now`, what is left of `plan["actions"]` (indices of actions, or of log lines), `landed` as `sent`, the criterion created or removed and not logged yet, its exit status; and two history fields, what it did to the account and what it owes as an undo |

`Start` is `main()`; `CheckSwitch` is guard 1, `PlanApply` guard 6 (`day_counts`),
`PlanUndo` is `_undo_targets`; `Refuse` is every other guard of `build_plan` and a
`--validate-only` call that fails; `Validate` is step 9 passed.  `Land`,
`MutatorFails`, `InvokeRaises`, `Raises`, `AppendLog`, `AppendLogFails` and `Finish` are the live
loop with each of its exception handlers; `Die` is a kill anywhere.  `InvokeRaises` is apart
from `Raises` because `_invoke` can raise after the child has run: `subprocess.run` with
`text=True` decodes what the child printed (`apply-changeset.py:309`), and `landed` is set only
when it has returned (`:352`).  The exit status 4, "not attested", is what a run has until
it chooses another.  A run that is over forgets its day, its list and what it owed
(`Leaves`), which nothing reads any more.

An action of a change-set is its index.  The mutator and the account are not in
this repository.  They are modelled from how the loop uses them: a create takes
effect if the criterion is not there, a remove if it is, and a failed call may or
may not have had its effect.  The constant `Reissued` says which actions, repeated, bring
back the name they had: `RESOURCE_RE` and the loop leave that open, and the stub
of the test suite names a criterion by its campaign alone
(`bin/apply-changeset.test.py:78`).  `Made` and `Remade` say which executions created a
criterion, and which names were given to two creations; `LogTellsTheAccount` and
`UndoneInFull` except the latter, because the log cannot tell them apart (section 12).

`AtOnce` bounds how many executions overlap.  It is a bound of the environment and
not of the code: nothing in the executor keeps a second one out.

Left out: `--dry-run` and usage errors, which change nothing; a log line torn by a
crash, or a log that cannot be read, which makes every later reading refuse
(one of the refusals of `Refuse`).

## 5. `AppRail`

| variables | in the code |
|---|---|
| `requests`, `results` | the spool directories; a request is the client asked for, `"bad"` or absent |
| `jobs`, `running`, `done` | the three hand-off directories |
| `ledger` | the ledger file, as `LedgerIndex` reads it: ids `seen`, ids `open`, reservations `held` per day and client, refusals per day |
| `idx` | `ctx.idx`, which lags behind the ledger when an append raises after its line was written |
| `pc`, `pass`, `todo`, `task`, `cur`, `looked`, `who`, `verdict` | where the broker is in `step()`, and its local variables |
| `rpc`, `rcur`, `outcome` | where the runner is in `run_all()` |
| `starts`, `worked` | history: how often the command was started for an id, and whether it did its work or was told the box is busy |

`Wake`/`TakeOpen`/`Look` are `recover()`, with one step per `exists()` call.
`ListRequests`, `DropUnread`, `DropDuplicate`, `KeepOrphan`, `Refuse`, `Admit`,
`Reserve`, `WriteJob`, `Unlink` are `drain_once()`; `ListDone`, `Collect`,
`RemoveDone` are `collect_once()`; `WriteResult`, `Record`, `Close` are the three
effects shared by refusals, failed jobs, recovery and collection, told apart by
`task` (`After` and `OnError` say where each continues).  Each write has a twin
`...Raises`, where an append may fail before or after its line is in the file.
`Die` is a death of the broker at any step, `Kill` one of the runner and, as
`KillMode=control-group` says, of its command.

Abstracted: one operation stands for `run` and `list`; each refusal reason that
comes from files this program does not write (kill switch, registry) is possible
at every request; a command's output is one of `ok` (anything in contract),
`busy`, `garbage` (out of contract), or it times out; the age of a request is a
choice (`DropUnread`), so is the age of a result (`ExpireResult`).

Not in the model: stray entries in `jobs/` and stale temporary files with their
sweeps, jobs and ledger lines that do not parse other than a torn last line
(only the broker writes them), a second broker for the same app (no lock
forbids `--once` beside the unit; the runbook never does it), a power cut that
loses a rename but keeps the fsynced ledger, a short `write(2)`, and systemd's
start limit (`StartLimitBurst=5`: the fifth failure in five minutes leaves the
broker stopped until an operator acts).

## 6. `AppServer`

`kind` is what the client sends (each line a ping, a call or a notification, a ping
standing for whatever is answered at once), `next`, `loop`, `saying` the loop of
`serve()`, `thread` and `reply` the thread of each call, `slots` the semaphore, `lock` the
reply lock, `closed` the list that `finally` fills, `filed`/`results` the spool seen from
here, `out` what was written whole, `hung` a client that closed its end, and `torn` an
exit in the middle of a write.  `StartCall`/`CannotStart` are `started()`, `TakeLock`,
`Write`, `Release` are `emit` and `waited`, `FileRequest`, `SeeResult`, `PassDeadline` are `call` and
`_wait`, `EndInput`, `Close`, `Exit` the end.  The broker (`Publish`) and the client's hang-up are external.
The text of a tool's answer and the JSON of a line are left out.

## 7. `ClientAudit`

Per run: `pc`, `mode`, `client`, `step` in `Plan(mode)`, `verdict` of the work, `answer` on stdout,
`term` its SIGTERM.  Per client: `data`, `reports`, `transient`, the directories that runs
share; of a file the model keeps which runs it comes from and whether it names
another client.  `vault` and `archive` are what a run stored; `orphan` a container that outlived
its run, which may still write (`OrphanWrites`) until it ends; `proxy` the egress
proxy; `lock` the flock; `excused` what a crash or a failed clean-up left.

`Start`, `Look`, `Refuse`, `TakeLock`, `Busy` and `Answer` are `main()`; `Reset` and `Begin` the head of `_run`;
`StepDone`, `StepFails`, `StepTimesOut` its loop, for every step of the plan (for a container with
`RemoveNamed`, the removal by name that may fail; a proxy step that is cut short may have started the
proxy, `ProxyCutShort`); `MeasureEnv` and `MeasureEgress` the probes; `WriteVault`, `VaultWritten` and
`WriteReport`, `SyncReport`, `LinkReport`, `UnlinkTemporary` the two ways to store; `Mask` .. `Unmask`
the `finally` clause, in which a SIGTERM is held.  `Term` is SIGTERM where a run is, and
`Kill` ends the process group and leaves the containers.
What a container computes is one value; the text checks of `client_audit_lib` are
"names another client" or not.

## 8. `DockerProxy`

`asked`, `net`, `hung` the clients' ends; `pc`, `buf`, `cur`, `approved` a connection's thread; `got`
what dockerd was sent, `reply` its answer, `container` what it has; `out` what a client was
sent.  A request is a kind and a target, and a stream a sequence of parts (a head
and perhaps a body), so that framing is visible and bytes are not: `After` is the part that
follows a part in the client's stream, and `SameStream` says that each part dockerd got is the
one after the part it got before, from the first on.  `Receive`, `ParseHead`,
`Decide`, `Lookup`, `Forward`, the relays, `Upgrade`, `Pump` are `_handle` and its helpers;
`Perform` and `Exit` are dockerd and the container, external.  dockerd may close its end of a
connection anywhere: before the head of a reply or between two chunks the thread closes without a
word (`UpstreamFails`); in the middle of a reply with a length, what there is of it is sent and the
loop goes on with a dead socket (`RelayCut`, `Cut`), so that the next request is still decided on, and
the connection ends when it is sent on (`UpstreamGone`): `up` is never connected again.  The allow list is one decision per
request; `DELETE`, which is framed and relayed like the reads, is left out.

## 9. `GovernanceStore`

`entry` says what is at each path of the layout table (missing, right, or with another
owner or mode that the executor can or cannot use), `reg` the registry, `slog` each client's
log in the store with its seal, `newfile` the temporary registry; `vreg`, `vlog`, `vault`, `export`,
`deletions` the vaults; `op` the tool that runs with its local state; `exec` an executor between
the preflight and its append; `wrote` and `before` are history.  The actions follow each
tool call by call; every call can fail, `Kill` ends a tool anywhere, `Spoil` changes an
entry by hand.  There is one operator, so tools do not overlap each other, only the
executor.  `Repair`, `HandRegistry` and `MendLog` are what the messages of the checks tell the
operator to do; they exist so that `StoreComesUp` can ask whether that is enough.

## 10. `ReviewEvidence`

The host: credentials by place and version, `readable`, `journal` and `gone`, `job`, `started` and
`changed` in seconds of a clock that need not move between two events, and `behind`, which files
changed after a service started, also within that second (a checkout by git gives a file the time
it is written at, so `changed` is when it changed).  The collection: `step` in `Steps`, which is the order of `_collect()`, `child`
the command, `known` the values read so far, `memo` what is asked once, `items` the bundle,
`out`.  Files, description files, directories and the code itself can be unreadable when they are
asked for, and a command that does not answer costs an item, or one value of it.  A value is one of
`Secrets`; `Short` are those below the minimum length, which the searches and the check of the
output leave out (`Sought`), and `Named` those in which the redactor finds a client's name.  What
the bundle may hold of one is a `Text`: the whole value, its beginning (`_cut_listing`), or the rest
that the redactor leaves; `HoldsSecret` finds only a whole one, before and after `Redacted`.  `steady` is history: what was so at the start and still is, which is what the
closing lines must not miss; a thing that changed meanwhile may be reported either
way.  `JobsLine`, `RunOkLine`, `SearchLine`, `NoLeaksLine`, `CodeLine` are the closing lines of the summary that
relate items to each other; lines that restate one item, and the wording, are left
out, as are the items that are measured by one command and related to no other.

## 11. Runs

Bounds are the constants of each `.cfg`; `Max...` constants only bound.

| run | asks | result |
|---|---|---|
| `RailFaults` | two ids, hostile gateway, a spool that one file fills, every system call of the broker can fail, one death: `BurnedRefusalIsTrue`, the refinement `KeepsPromise`, and `RequestIsConsumed` | holds |
| `RailReapprove` | two ids, two broker runs and one by hand, the operator approves twice, midnight, one death: `OneRunPerRequest`, `ReservationSpentOnce`, `ReservedRunsShareRequest`; up to the death also `RefusedMeansUntouched` and `AnswerIsFinal` | holds |
| `RailLive` | two brokers, one of which dies, an approval: `DailyQuotaHolds`, `BurnedIsAnswered` | holds |
| `RailApproveInFlight` | `ReservingIsSingleUse` | violated (section 12) |
| `ExecOverlap` | four executions, two at a time, of one change-set with two actions, one of which brings back its old name, two days, caps of one change-set and two actions a day: `LogTellsTheAccount`, `ExitsAreHonest`, `CapsHoldUpToOverlap`, `UndoneInFull` | holds |
| `AppFaults` | two ids that compete for one client's quota of one per day, two days, every write can fail, the runner is killed once: `AnsweredIsOver`, `LedgerInv`, and the refinement `KeepsPromise` | holds |
| `AppLive` | two ids, the broker dies once, results expire: `AtMostOneStart`, `ReservedIsAnswered` | holds |
| `AppServer` | three lines of any kind, two slots, a broker that may stay silent, a client that may hang up: `ServerInv`, `NoHalfLine`, `NothingWaitsForACall` | holds |
| `ClientAudit` | two invocations of any mode for one client, every step failing, timing out or leaving its container, one signal anywhere: `StoredIsOwn`, `AnswersAreTrue`, `LockInv`, `AtRest`, `RunEnds` | holds |
| `DockerProxy` | three requests of every kind over two connections, cut and sent ahead in any way, dockerd failing anywhere, also in the middle of a reply: `StreamInv`, `OnlyApproved`, `GatewayUntouched`, `WaitBlocksNobody` | holds |
| `HostTools` | two clients, two records each, one call failing, tool killed or entry spoiled: `ToolsAreHonest`, `HistoryKept`, `PurgeKeepsACopy`, `RegistryKept`, `StoreComesUp` | holds |
| `ReviewEvidence` | two jobs, three credentials, from three kinds of boxes, two changes or failing commands at any points: `SecretsInv`, `JobsInv`, `ReachIsSearched`, `StaleCodeIsSeen` | holds |

Properties whose name ends in `Inv`, and `AnswersAreTrue`, `ToolsAreHonest`, `HistoryKept` and
`NothingWaitsForACall`, are conjunctions of named parts, each stated above its
definition; the type invariants are conjuncts of these (of `RailInv` and `ExecInv`, which
the proofs establish, in the two modules with an inductive invariant of their own).

*Why the bounds are enough.*  The properties relate at most two ids, two runs or
two approvals, so two of each give every way to confuse them; a third would only
repeat a role.  One death is enough because a restarted process keeps nothing: the
states after a second death are those of a death in a state already explored,
except for what the first left in files, which `Faults` produces as well (a raise
is a death that lets the process go on).  The quota is 1 wherever it is to be
reached by two ids, the refusal cap 1 so that one refusal reaches it, two days so
that a reservation can be checked before and charged after midnight.
`RecoverEvery` is 1 in `AppFaults` (recovery interleaves with everything) and 2 in
`AppLive` (recovery has to be waited for).  `MaxPerPass` is 2 in `AppFaults`, so that
one listing, with one index, decides both ids, and 1 in `AppLive`, where it is
smaller than the number of requests.
`RailReapprove` scans one file at a time (`MaxSpoolFiles` 1), since what it asks is about
the order of approvals and runs and not about what one listing holds; `RailFaults` does so
to let two requests overflow the spool, in `RailLive` a listing holds both (with both in one
listing, `BurnedRefusalIsTrue` and `KeepsPromise` of `RailFaults` were checked once by hand:
1.1 million states up to symmetry, no error).  In
`ExecOverlap` two executions overlap and two others precede or follow: an apply, its undo beside
a second apply, every pair of their steps, and apply, undo, apply, undo in a row with a
name that comes back.  The caps equal one change-set, so that a second execution is refused, or is
let in by the overlap.  With one change-set the part of `CapsHoldUpToOverlap` about `Applies`
cannot fail; it was checked once by hand with three executions of two change-sets (740 thousand
states, no error) and is proved for all values.
`AppServer` has one line more than slots: two calls can wait and a third line be a ping, or a
call that is turned away.  In `ClientAudit` the second run meets whatever the first
left or still does; one client suffices because a file keeps whether it names
another one.  Two signals were checked once by hand (2.6 million states, no
error).  In `DockerProxy` two connections are needed for a wait beside a start, and
three requests for a pipelined one behind an attach beside them.  `HostTools` has two clients so that a registry can lose one and keep
the other, and two records so that a log can be cut; two faults were checked once by
hand for the safety properties (4.5 million states, no error).  Two events in `ReviewEvidence` are
a change before a read and one between it and the next, or a change and a failing command.  Its
theorems are about any first state; the run starts (`MCInit`) from a box with a leak of any value
while one place cannot be read, from one with a job that differs from the other while one of the
lists cannot be had, and from one whose files changed before, at or after the second in which the
services started.  In it the second value of each place is short and the gateway's values hold a name.

Symmetry (over ids, runs) is used only in runs without liveness.  Deadlock is
checked in all runs; a module whose system ends has a stutter action for its end.

*Fairness.*  `FairSpec` of `MutationRail` is weak fairness of each broker's steps:
`watch()` loops for ever, swallows what a drain raises, and
`deploy/hermes-broker.service` restarts a dead process.  The gateway, the operator
and the executor runs owe nothing: a run that hangs is given up by the broker's
timeout.  `FairSpec` of `AppRail` is weak fairness of the broker
(`Restart=on-failure`, endless `--watch`) and of the runner (the path unit starts it
while `jobs/` is not empty, each command has a timeout from its manifest); the
gateway owes nothing, and a kill is never required.  `AppServer`: weak fairness of the loop and of
each thread; that deadlines pass is assumed only where `CallEnds` says so, and the
broker, the client and the end of the input owe nothing.  `ClientAudit`: weak fairness
of `Advance`, the program itself and its timeouts; a container never has to end.  `DockerProxy`: weak
fairness of each thread, of dockerd answering what it can answer, and of an executor's end
(its broker's timeout kills it); no client has to send or hang up.  `HostTools`: a tool that
runs goes on, a run records, and the operator again and again does what the checks say (strong fairness of `FollowUp`, because a
tool in between disables it): `StoreComesUp` is about whether that advice is enough, not
about the operator's diligence.

## 12. What the violated run shows, and observations

`RailApproveInFlight`: re-approving a change-set between the reservation and
the run erases the reservation.  The run in flight passes `verify_approval` with
the new, unreserved approval, recording its outcome fails silently, and the next
request reserves and uses the same approval again.  `ReservationSpentOnce` is what
holds instead: of the runs that were let through by one *reservation* there is one.

Observations met while modelling.  Those marked (m) were counterexamples of runs or of
variants of the models that are not kept as runs.

*Mutation rail.*

* (m) A broker that dies after its executor changed the account, before the result
  is written, answers `refused_replay` (exit code 2) after its restart, though
  `README.md:952` says of it that nothing was mutated.  `RefusedMeansUntouched` is
  therefore stated for behaviours without a death.
* (m) After a death, a request that was refused (`refused_quota`) and left in the spool may be
  judged anew on the next day and its answer replaced: `AnswerIsFinal` likewise.
* (m) `build_plan` reads the snapshot for its actions and again for its digest
  (`apply-changeset.py:141`, `:151`): a re-approval in between executes the old bytes
  under the new approval (`approve-changeset.py:5-6` says otherwise).
* (m) A change-set is applied, undone, applied again and undone again, and one of its
  actions brings back the name it had.  The second undo does not see the criterion that the first one
  had removed and the second apply created again under the same name, because
  `_undo_targets` (`apply-changeset.py:255`) collects the names of all `undone` lines, whatever
  their order.  It exits with 0 and the criterion stays in force.  `ExecOverlap` contains
  this behaviour: `UndoneInFull` without its exception for `Remade` is violated there.
* (m) An execution whose first live call raises after the child has run exits with 2, "failed before any
  mutation was attempted" (`apply-changeset.py:425-428`: "subprocess.run raises before the
  child starts"), though the account may have changed: its output may not decode
  (`:309`).  `ExitsAreHonest` and the promises of the broker that rest on exit 2
  except this one change (`KnownChange` in `MutationRail`).
* A request stays in the spool for ever if the spool keeps holding more than
  `MAX_SPOOL_FILES` files (`hermes-broker.py:321-331`), if its entry can neither be removed nor
  quarantined (`:256-271`), or if the refusal of it, or of a file read in the same drains,
  can never be written (that exception leaves `drain`).  `RequestIsConsumed` names the three.
* A wrapper killed by a signal gives `failed_unknown_exit`, "treat the account as possibly
  modified" (`hermes-broker.py:537`), and `hermes-syscall result` maps its negative exit
  code to 2, a refusal (`RefusedMeansUntouched` fails for it when `Faults` is TRUE).
* The kill switch is read once, so removing it does not stop a run that has passed
  guard 1; the daily caps are exceeded by as many change-sets as overlap; runs
  by hand never reserve, so an approval can be used by hand until it expires
  (`changeset_lib.py:783`); retries under the reserving id are not counted (`:787`).
* With a second drain the exception handler can replace an outcome the other drain has
  just published (`hermes-broker.py:466`).  `README.md:958` calls a second run "refused as a
  replay" where the code answers `refused_approval`.

*App rail.*

* (m) A runner killed with the only job in `running/` is not started again: the path
  unit watches `jobs/` (`hermes-app-runner@.path:5`), which is empty, and `recover()`
  (`hermes-app-broker.py:304`) leaves alone what is in `running/`.  The reservation is
  answered when some other job comes in.  `ReservedIsAnswered` is checked without
  kills of the runner.
* A failed job write whose ledger line then fails as well is answered `internal` and
  later `interrupted` (which `JobPromise` allows, and nothing else of the kind); a request that
  is withdrawn between listing and reading is answered `bad_request`.
* `hermes-app-mcp.py`: `serve_line` says that the loop "must outlive any message", and `json.loads`
  is guarded against `ValueError` alone: a line nested deeply enough for a
  `RecursionError` ends it.

*Client audit.*

* The docstring (`run-client-audit.py:24-26`) says the transient draft is removed on every exit; a
  SIGTERM inside `finally` but before the mask skips the removal (`excused` in `AtRest`).
* A SIGTERM before the lock, or after it and before the answer, leaves no JSON line.
* The vault is written file by file: a failure midway leaves a draft that is listed
  although the answer is a failure; `AnswersAreTrue` calls whole only what is in the archive.  There too
  a report is listed, whole, whose step failed after the link (`report_lib.py:232-235`).

*Docker proxy.*

* (m) A reply that dockerd cuts short is relayed with the length of the whole of it
  (`docker-create-proxy.py:717-719`, `:732`) and the connection is kept.  If the next request is
  refused, its 403 is sent into the body the client is still reading.  No other reply can
  follow: the dead socket is kept too, and a request that is allowed ends the connection.
  `RepliesInOrder` allows a refusal after a reply that was cut, and nothing else.
* A thread whose client hung up during a `wait`, or in the pipe of a
  container that is never started, stays until the container is removed.

*Governance store.*

* `README.md:587-588` explains exit codes 2 and 3 of the purge by whether data was deleted; a
  deletion that fails midway exits 2 with a part of the vault gone (`vault-purge.py:37`, `:71-72`).
* The purge's flip and the migration's copy leave `clients.json` with another mode than the
  layout's, which `--check` reports and which stops the broker (`README.md:1152-1158`).
* `register-client.py` refuses the `{}` that the layout creates.  After the layout, the migration skips
  the registry of the vault; after `--bootstrap-logs`, it skips the vault's logs and exits 0.
* A migration that makes `log/` itself always refuses as root and leaves the store
  root behind; a `clients.json.new` left by a kill makes one later registration fail.
* A kill between the creation of a log and its seal leaves one that later runs of
  the tools skip; only the preflight reports it (`RunCanRecord` rests on that).
* Two purges of one client within a second would share an archive name; the roll-back of the layout could
  remove a registry that another process replaced meanwhile: excluded, there is one operator.

*Review evidence.*  A Google credential file that cannot be read is a row of D2.1 and no closing line
says LOOK for it, which is why `LeakIsSeen` asks for `unread = {}`.  The gateway's values are
asked once: one that is rotated, with a restart, between `gateway_secret_env` and the
listing of D10.6 is not searched for (the comment in `d10_6` says so).

* A value shorter than eight characters is read, and neither searched for
  (`collect-review-evidence.py:1358`, `:2877`) nor kept out of the output (`review_lib.py:294-296`).
  D2.1 names such values of the files of `OTHER_SECRET_NAMES` (`secrets_not_searchable`); nothing names
  one of a Google file or of the gateway's environment.  `LeakIsSeen` and `NothingReadIsPrinted` leave
  out exactly these.
* (m) A file that changed in the second in which a service started is not listed
  (`collect-review-evidence.py:2169-2170` says so), and the line about the running code then reads ok.
  `StaleCodeIsSeen` leaves out the services of which nothing changed later.
* (m) `_cut_listing` cuts a long line of the gateway unless it holds a value known by then.  A
  Google credential that the sweep could not read, or that was rotated since, is read again after the
  items (`:3028-3034`); when a line with it was cut through the value, its beginning is printed,
  which the check does not find.  The docstring (`:2752-2754`) says that no part of a value is ever
  printed.  `NothingReadIsPrinted` leaves out this case only (`ReadOnlyLater`).

## 13. Proofs

`MutationRailProofs` proves, for every value of the constants that satisfies
`RailAssumption` (any number of ids, change-sets, brokers, runs, days):

| theorem | statement |
|---|---|
| `InvariantHolds` | `Spec => []RailInv` |
| `TypeCorrect` | `Spec => []TypeOK` |
| `RunsOnce` | `Spec => []OneRunPerRequest` |
| `ReservationBindsRequest` | `Spec => []ReservedRunsShareRequest` |
| `ReservationLetsOneThrough` | `Spec => []ReservationSpentOnce` |
| `QuotaIsKept` | `Spec => []DailyQuotaHolds` |

None of these is inductive by itself.  `RailInv` (module `RailInvariant`) adds:

* `HandOK`: inside the client lock a broker holds the lock and a parsed request.
  Two brokers are therefore never between replay check and burn at the same time.
* `BurnOK`: every broker's run stands for a burned id; an id about to be burned is
  not burned, and a burned id about to be run has no run.  With `HandOK` this
  gives `OneRunPerRequest` at the step that starts a run.
* `ProgressOK`: how much a run can have changed and logged at each state; needed
  for the types of the counters.
* `TicketOK`: approvals are numbered uniquely and none is from the future.
* `HeldOK`: as long as the approval a reserved run passed with is in place, it
  names that run's request.  With `TicketOK` this gives `ReservedRunsShareRequest`:
  a second run that passes with the same ticket passes with the same record.
* `QuotaOK`: a broker that got past `classify` still has room in the day it counts,
  up to the burn, because it holds the lock.  This gives `DailyQuotaHolds`.

`ReservationSpentOnce` follows from `ReservedRunsShareRequest` and `OneRunPerRequest`.

Further, with `NoneAssumption` (no class of request is `None`):

| theorem | statement |
|---|---|
| `TruthHolds` | `Spec => []TruthInv` |
| `BurnedRefusalAlways` | `Spec => []BurnedRefusalIsTrue` |
| `PromiseKept` | one broker `=> (Spec => KeepsPromise)` |

`TruthInv` (module `RailTruth`) is `RailInv` and what makes an answer true:

* `ExitOK`: a run ends with exit 1 or 2 only before its first live call, and with 0
  only after its last.
* `ChildOK`: the run a broker waits for is one of the id it has in hand.
* `VerdictOK`: what a broker is about to write inside the client lock is borne out by
  the runs and the seen-set (`Bears`), and writes over no report.
* `ResultsOK`: what stands in `results/` is so, and no broker is on the way to making it
  wrong.  A refusal can therefore not be overtaken by a run of the same id.

`RejectingOK` says the same of the handler in `drain`, which rejects without the lock.
Its look into `results/` and its write are two steps, and only a single broker (its unit
starts one) has nobody between them: hence the hypothesis of `PromiseKept`.  That proof
is a step simulation: the burn and the start of a run are the moves of `RequestPromise`,
the writes are its answers by `VerdictOK` and `RejectingOK`, everything else stutters.

Two more are about one broker, no failing system call and a gateway that goes
through `hermes-syscall.py` (`Brokers = {b}`, `~Faults`, `~BypassClient`), up to the broker's death:

| theorem | statement |
|---|---|
| `RefusalsAreTrue` | `Spec => []RefusedMeansUntouched` |
| `AnswersAreFinal` | `Spec => AnswerIsFinal` |

Each hypothesis is needed: a failing write, a death, a second drain over the same listing,
or a file put under an old name can each replace an answer.  `SettledOK` says why nothing else can: an id that
was answered is out of the spool but for the entry about to be discarded, a burned id
is answered or in the broker's hand, and so no drain rejects or replays anything.

`ApplyExecutorProofs` proves, for every value of the constants that satisfies
`ExecutorAssumption` and `NoneAssumption` (any number of overlapping executions,
change-sets, actions, days, any caps):

| theorem | statement |
|---|---|
| `ExecInvAlways` | `Spec => []ExecInv` |
| `LogTellsAlways` | `Spec => []LogTellsTheAccount` |
| `UndoneInFullAlways` | `Spec => UndoneInFull` |
| `ExitsAreHonestAlways` | `Spec => []ExitsAreHonest` |
| `CapsHoldAlways` | `Spec => []CapsHoldUpToOverlap` |

No hypothesis is made about names: `Reissued` may be any set of actions.  The steps of a run are first sorted by what they
do to its record, the log and the account (`Kinds`, `StepKinds`), and the rest of the proof
speaks of these only.

`LogTellsTheAccount` and `UndoneInFull` are about names, and the log is read at one moment
and used at another, so `ExecInv` (module `ExecutorInvariant`) says who can know a name:

* `HandOK`, `TargetsOK`: what a run has in hand and before it, by its state.
* `TouchedOK`: an apply has what it created behind it, so it creates nothing twice;
  if what it creates is known already, another run created it, and it is
  `Remade` from then on.
* `KnownIsMade`: what is in force or in the log was created by some run.
* `FreshOK`: between an apply's live call and its line, the criterion is in force
  and in nobody's undo list, because those come from the log.
* `GoneOK`: what was removed, and logged as removed or about to be, is out of force,
  and stays so until it is created anew.
* `OwedOK`: whatever an undo owes and is in force is still before it.  At its end
  nothing is before it, which is `UndoneInFull`.

Each of the last three excepts what is `Remade`.  The invariant `CountInv` takes the first part of `ExecInv` (`RunsOK`)
and adds three:

* `HonestOK`: what a run changed is in the log but for what it has in hand, and a run whose
  calls have not returned changed nothing.
* `AtOnceOK`: at most `AtOnce` executions are active.
* `CapsOK`: the caps hold, up to the overlap, with what is owed counted in: the actions
  admitted executions have not logged yet (`Owing`), and their change-sets (`Claimed`).
  A line moves from owed to logged, so only admission can take room, and then the log
  that was read leaves all of the change-set, and those active beside it can owe no more
  than a change-set each.

`AppServerProofs` proves, for every value of the constants that satisfies
`ServerAssumption` and `NoneAssumption` (any number of lines and slots):

| theorem | statement |
|---|---|
| `ServerIndInvAlways` | `Spec => []ServerIndInv` |
| `SlotsAndRepliesAlways` | `Spec => []ServerInv` |
| `NoHalfLineAlways` | `Spec => []NoHalfLine` |

`ServerIndInv` (module `ServerInvariant`) follows a line from its reading to its answer:

* `ThreadsOK`, `LockOK`: only a call that was read has a thread; who writes holds the
  lock, and once the end of the input is noted nobody writes.  At `Exit` nothing is therefore
  half written, which is `NoHalfLine`.
* `FiledOK`, `ReplyOK`, `SayingOK`: a request is filed by its thread alone; what a
  thread is about to say is about its own line and true of the spool; what the
  loop is about to say is about a line without a thread.
* `OutOK`: what was said is about a line whose thread, if it had one, has nothing
  left to say.  With `ReplyOK` and `SayingOK` no line is answered twice.

`SlotsAddUp` is inductive with these: a slot is given back exactly where a
thread leaves the states that hold one, which is a fact about cardinalities (one lemma
each for adding and removing a line).

`AppRailProofs` proves, for every value of the constants that satisfies
`AppAssumption` and `NoneAssumption` (any number of ids, clients, days, deaths
and kills, with and without failing system calls):

| theorem | statement |
|---|---|
| `AppInvAlways` | `Spec => []AppInv` |
| `OneStartAlways` | `Spec => []AtMostOneStart` |
| `AnsweredIsOverAlways` | `Spec => []AnsweredIsOver` |
| `LedgerInvAlways` | `Spec => []LedgerInv` |
| `PromiseKept` | `~Expiry => (Spec => KeepsPromise)` |

The hypothesis of `PromiseKept` is what the code does: a result older than a week is
deleted, and an answer that is gone is no answer of `JobPromise`.  `AppInv` (module
`AppRailInvariant`) relates the files to what broker and runner have in their memory:

* `HandOK`, `RunnerOK`: what each of them has in hand, by its state.  What the runner has in
  hand is in `running/` and, until it is reported, open, unanswered and without a done file.
* `IndexOK`: of the ids still to be taken up in a listing, the index of the pass says what
  the ledger says, although an append that raised after its line leaves the index
  behind: that append was about an id no longer in the listing.
* `TrayOK`: a job in the queue was never started and is open and unanswered; what a done
  file says of a start is so.  This gives `AtMostOneStart`.
* `CurOK`: what holds of the id in hand.  The three `exists()` calls of `recover()` are
  three steps; an id missed in `jobs/` and then in `running/` is in neither from then on,
  because jobs move in one direction only.  With `RunnerOK` this gives `AnsweredIsOver`.
* `ResultOK`: a result of an id that is still open (the broker died, or its append failed,
  between result and ledger line) is the one its done file gives again, or that of an id
  without a job.  This is what makes the second answer of `collect` and `recover` the same.
* `BillOK`: a hold behind which there is, or may come, work is in the index the quotas are
  counted from.  A hold whose append raised may be missing from that index, and then
  no job is written for it; so the work of a day never exceeds its quota.

`PromiseKept` is a step simulation: a reservation books a new id, `Begin` is the one move
from booked to worked or turned away, `WriteResult` gives an answer that `CurOK` and
`TrayOK` make true or, by `ResultOK`, writes the same again; everything else stutters.

`AuditProofs` proves, for every value of the constants that satisfies
`AuditAssumption` and `NoneAssumption` (any number of runs, clients and signals; a client is
not called `"proxy"`, which `excused` uses for the proxy):

| theorem | statement |
|---|---|
| `AuditInvAlways` | `Spec => []AuditInv` |
| `StoredIsOwnAlways` | `Spec => []StoredIsOwn` |
| `AnswersAreTrueAlways` | `Spec => []AnswersAreTrue` |
| `LockInvAlways` | `Spec => []LockInv` |
| `AtRestAlways` | `Spec => []AtRest` |

A run collects, reads and stores in steps that lie far apart, in directories others write to.
`AuditInv` (module `AuditInvariant`) says why what it stores is nevertheless its own:

* `LockOK`: who holds the lock is where `_run` holds it, so at most one run works.
* `OrphanOK`, `OwnOK`: a container outlives only a run that no longer works, and while a
  run works, no container of another run can still write what this one reads, because
  a run begins by making its directories anew, and such a container has the old ones.  The one
  exception is a draft, whose directory a run for figures neither makes anew nor reads.
  This is what `StoredIsOwn` rests on: that property alone is not inductive, since it says
  nothing of the directories from which the next step takes.
* `KeptOK`: a run stores in its last step only.  With `RunOK` (verdict and answer by
  step) this gives `AnswersAreTrue`.
* `TouchedOK`: what is in a client's directories was put there by a run that got the lock,
  so one told "busy" or "refused" touched nothing.
* `ProxyOK`, `RestOK`: a proxy stays up while the run that started it works, and what is up or
  lies about will be cleaned by the run that holds the lock, or is excused.  At the
  moment the lock is given back nothing is left for it, which is `AtRest`.

`StoreProofs` proves, for every value of the constants that satisfies `StoreAssumption`
and `NoneAssumption` (any number of clients, records and failures; room for a record):

| theorem | statement |
|---|---|
| `StoreInvAlways` | `Spec => []StoreInv` |
| `ToolsAreHonestAlways` | `Spec => []ToolsAreHonest` |
| `HistoryKeptAlways` | `Spec => []HistoryKept` |
| `PurgeKeepsACopyAlways` | `Spec => []PurgeKeepsACopy` |
| `RegistryIsKept` | `Spec => RegistryKept` |

`StoreInv` (module `StoreInvariant`) says what each tool relies on at each of its steps, and
with `ApplyIsWholeOrNothing` and `ExitIsTrue` is inductive:

* `LogsOK`: a sealed log has every record it was given.  The tools seal only a log they have
  counted, which `LogToolOK` carries from the count to the seal; the preflight asks for the
  seal; and with `ExecOK`, a run that was let through appends to a log that is sealed.
  This gives `HistoryKept`.
* `FoundOK`, `MadeOK`, `StageOK`: during an `--apply`, what was there is as it was, what is there and
  was not is what the tool made or says that it left, and what it is to make is missing.  At the exit
  this is `ApplyIsWholeOrNothing`; without the middle part the roll-back could leave an entry
  behind, and without the last the tool could overwrite one.
* `TreeOK`: a store without its root has nothing in it, so that a tool that is run again after a
  roll-back starts from what it expects.
* `BooksOK`: a purge deletes only after a whole export, and books only what is gone.

`RegistryKept` is an action property: it follows step by step from `StoreInv`, because a
registration adds to a registry that has clients (`BooksOK`), and `--apply` rolls back only a
registry without clients (`MadeOK`).

`ReviewProofs` proves, for every value of the constants that satisfies `ReviewAssumption`
and `NoneAssumption` (any finite set of jobs, any box to start from, any length of the journal, any
values short and any with a name in them; `None` and `Unknown` are not values that an item can hold):

| theorem | statement |
|---|---|
| `ReviewInvAlways` | `Spec => []ReviewInv` |
| `SecretsInvAlways` | `Spec => []SecretsInv` |
| `ReachIsSearchedAlways` | `Spec => []ReachIsSearched` |
| `StaleCodeIsSeenAlways` | `Spec => []StaleCodeIsSeen` |
| `JobsInvAlways` | `Spec => []JobsInv` |

The properties are about the printed bundle, and so about what was read in steps between
which the host changed.  `ReviewInv` (module `ReviewInvariant`) says of each item, from the step that
makes it, what is still so:

* `SteadyOK`: what counts as steady is so now.
* `HeldOK`: each claim that a place was read implies that the value it has held all along is
  known, although another may have been in it for a while.
* `SearchOK`: the search covered the entries that were there at the start and are left, and
  found none of the values gathered.  The vacuum takes entries from one end only, which is why the
  oldest entry, read later, bounds what the search saw.
* `CodeOK`: a start that was read is no later than the service's own start now, so a restart
  between the two reads can only make a service look staler.  With `SteadyOK`, which keeps a file
  that changed in a later second for each steady stale service, it gives `StaleCodeIsSeen`: what is
  compared is seconds, what is claimed is the order of events.
* `JobsOK`: a job installed all along is in the list; `ItemsTyped` has each item speak of the lists
  that are kept in `memo`, which gives `OneJobSet`.
* `ListingOK`: a line that was cut held no value known then, and the only place read later is one
  whose value the sweep did not have.
* `PrintOK`: the bundle is checked against all that is known when it is printed, as collected and as
  redacted, and nothing is read after that.

`ProxyProofs` proves, for every value of the constants that satisfies `ProxyAssumption`
(any number of connections, requests and chunks):

| theorem | statement |
|---|---|
| `ProxyInvAlways` | `Spec => []ProxyInv` |
| `StreamInvAlways` | `Spec => []StreamInv` |
| `OnlyApprovedAlways` | `Spec => []OnlyApproved` |
| `GatewayUntouchedAlways` | `Spec => []GatewayUntouched` |

What dockerd was sent says nothing of what it will be sent, so `ProxyInv` (module `ProxyInvariant`)
follows the whole of a connection's stream:

* `StreamOK`: what dockerd has, what the thread has read past it (`buf`) and what is under way
  (`net`) each continue where the one before ends, and the whole ends where the client stopped.
  Where a thread is in its stream (`Used`) and what dockerd has of it (`Forwarded`)
  differ by the request in hand.  The lemmas `Prefix`, `Suffix`, `Join` say what cutting and
  joining do to such streams; they carry every read, parse and relay.
* `ApprovedOK`: an approved attach is the request in hand, and stays so.
* `GotOK`: in a raw pipe nothing is left over from before the attach, and what comes is
  after it.  This makes `OnlyApproved` inductive, since the pump looks at nothing.
* `RepliesOK`: how far the replies have got, by the state of the thread, and that dockerd has no
  answer for a connection it cut, which is why only a refusal follows a reply that was cut short.

Each proof has one lemma per part of the invariant or per action, one step per action
under it, and the temporal steps at the end.  For a model with many independent actors
(runs, connections) the invariant is proved for the one that moves, and a lemma
carries it for the others, whose state the step leaves alone.  All inductive invariants were
checked with TLC, as invariants of the same instances as the runs, before they were proved.

*Only model-checked*: the liveness properties (`RequestIsConsumed`, `BurnedIsAnswered`,
`ReservedIsAnswered`, `NothingWaitsForACall`, `RunEnds`, `WaitBlocksNobody`, `StoreComesUp`), which
need fairness and `ENABLED`, and so are out of the prover's reach.  Every other property of
a passing run is proved, some of them under a hypothesis the tables above give: the runs check
`KeepsPromise` of the mutation rail, `AnswerIsFinal` and `RefusedMeansUntouched` on instances that satisfy it.
Induction over data is out of reach too; no module here declares a `RECURSIVE` operator, and
the one fold, `Sent`, is in a guard only.

## 14. Plan

Next, in this order:

1. What a gateway may conclude from an answer, from `RequestPromise` and `JobPromise` alone, as
   invariants of those two modules that hold of both rails by `PromiseKept`.
2. The client-data migration, the listener check's alert marker, the evaluation manifest,
   the second brain's promotion states and the telemetry hooks.

One run per question and few of them: a run whose point is made can give way to one
of a new module.
