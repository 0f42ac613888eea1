---------------------------- MODULE ClientAudit ----------------------------
(***************************************************************************)
(* bin/run-client-audit.py: one client's audit draft or figures report,    *)
(* and the two security probes, run one at a time under a lock on one      *)
(* host.  A run works through its plan of steps, most of them one-shot     *)
(* containers that write below the client's directories; the drafter talks *)
(* to the network through the shared egress-proxy.  What a run leaves is   *)
(* an audit in the client's vault (vault-write.py) or a report in the      *)
(* archive (report-store.py).                                              *)
(*                                                                         *)
(* A run can be refused, fail, time out, be terminated once (SIGTERM       *)
(* raises SystemExit where it is) or be killed with its process group; a   *)
(* container outlives both a killed client and a failed `docker rm`.       *)
(*                                                                         *)
(* Of a file the model keeps which runs its content comes from and whether *)
(* it names another client.                                                *)
(***************************************************************************)
EXTENDS Naturals, Sequences, FiniteSets

CONSTANTS
    Runs,           \* invocations of the program
    Clients,        \* registered clients
    MaxSignals,     \* SIGTERMs and SIGKILLs (or power cuts) in a behaviour
    None

ASSUME AuditAssumption == MaxSignals \in Nat

VARIABLES
    pc,             \* run -> where it is
    mode,           \* run -> what it was started for
    client,         \* run -> its client; a probe has none, only throwaway directories
    step,           \* run -> position in its plan
    verdict,        \* run -> how the work ended ("ok", "term", the failing class), or None
    answer,         \* run -> what it told its caller, None if nothing
    term,           \* run -> its one SIGTERM: "none", "held" while masked, "done"
    lock,           \* the run that holds the flock, or None
    data,           \* client -> audit-data/<slug>
    reports,        \* client -> reports/<slug>
    transient,      \* client -> draft-out/<slug>/<ts>-audit.md
    orphan,         \* run -> the step whose container outlived it, or None
    proxy,          \* egress-proxy is up
    vault,          \* run -> its files in the client's vault
    archive,        \* run -> its file in the report archive
    excused,        \* what a crash or a failed cleanup has left behind
    signals

runVars == <<pc, mode, client, step, verdict, answer, term>>
dirVars == <<data, reports, transient>>
storeVars == <<vault, archive>>
hostVars == <<lock, orphan, proxy, excused, signals>>
vars == <<runVars, dirVars, storeVars, hostVars>>

Modes == {"audit", "figures", "egress", "env"}

Probes == {"egress", "env"}

\* plan(): the classes of the steps, in order.  The probes' runs of one
\* container each are one step.
Plan(m) ==
    CASE m = "audit"   -> <<"collect", "snapshot", "read", "proxy", "draft", "vault-write">>
      [] m = "figures" -> <<"collect", "read", "store">>
      [] m = "egress"  -> <<"proxy", "draft">>
      [] m = "env"     -> <<"draft">>

Steps == {"collect", "snapshot", "read", "proxy", "draft", "vault-write", "store"}

Verdicts == Steps \cup {"ok", "term", "failed", "isolation", "internal"}

Answers == Verdicts \cup {"refused", "shown", "busy"}

\* Steps that are named one-shot containers.
Containers == {"collect", "read", "draft"}

States == {"idle", "locking", "resetting", "ready", "working", "removing", "finally",
           "cleaning", "stopping", "unmasking", "unlocking", "answering", "over", "dead"}

Nothing == [by |-> {}, names |-> FALSE]

Content == [by : SUBSET Runs, names : BOOLEAN]

Archived == [by : SUBSET Runs, file : {"tmp", "name"}, whole : BOOLEAN]

ASSUME NoneAssumption ==
    /\ None \notin Runs \cup Clients \cup Modes \cup Answers \cup Content \cup Archived
    /\ "proxy" \notin Clients

Current(r) == Plan(mode[r])[step[r]]

At(r, state) == pc[r] = state

Doing(r, s) == At(r, "working") /\ Current(r) = s

Goto(r, state) == pc' = [pc EXCEPT ![r] = state]

\* The work is over, with this verdict; the finally clause is next.
Ends(r, v) ==
    /\ Goto(r, "finally")
    /\ verdict' = [verdict EXCEPT ![r] = v]
    /\ UNCHANGED <<mode, client, step, answer, term>>

Init ==
    /\ pc = [r \in Runs |-> "idle"]
    /\ mode = [r \in Runs |-> None]
    /\ client = [r \in Runs |-> None]
    /\ step = [r \in Runs |-> 1]
    /\ verdict = [r \in Runs |-> None]
    /\ answer = [r \in Runs |-> None]
    /\ term = [r \in Runs |-> "none"]
    /\ lock = None
    /\ data = [c \in Clients |-> [by |-> {}, bad |-> FALSE]]
    /\ reports = [c \in Clients |-> Nothing]
    /\ transient = [c \in Clients |-> None]
    /\ orphan = [r \in Runs |-> None]
    /\ proxy = FALSE
    /\ vault = [r \in Runs |-> [by |-> {}, names |-> FALSE, upto |-> 0]]
    /\ archive = [r \in Runs |-> None]
    /\ excused = {}
    /\ signals = 0

-----------------------------------------------------------------------------
(* main(): pre-checks, lock, answer.                                       *)

\* Somebody starts the program, for a client or as a probe, and the pre-checks
\* pass.  A probe has none.
Start(r) ==
    /\ At(r, "idle")
    /\ Goto(r, "locking")
    /\ mode' \in {[mode EXCEPT ![r] = m] : m \in Modes}
    /\ client' \in {[client EXCEPT ![r] = c] : c \in IF mode'[r] \in Probes THEN {None} ELSE Clients}
    /\ UNCHANGED <<step, verdict, answer, term, dirVars, storeVars, hostVars>>

\* --list and --dry-run look without the lock and touch nothing.
Look(r) ==
    /\ At(r, "idle")
    /\ Goto(r, "over")
    /\ answer' = [answer EXCEPT ![r] = "shown"]
    /\ UNCHANGED <<mode, client, step, verdict, term, dirVars, storeVars, hostVars>>

\* A pre-check refuses, or the program is terminated before it asks for the
\* lock; nothing has been touched.
Refuse(r) ==
    /\ At(r, "idle")
    /\ Goto(r, "over")
    /\ answer' \in {answer, [answer EXCEPT ![r] = "refused"]}
    /\ UNCHANGED <<mode, client, step, verdict, term, dirVars, storeVars, hostVars>>

\* Mutant: the probes do not take the lock.
TakeLockUnlessProbe(r) ==
    /\ At(r, "locking")
    /\ IF mode[r] \in Probes THEN UNCHANGED lock ELSE lock = None /\ lock' = r
    /\ Goto(r, "resetting")
    /\ UNCHANGED <<mode, client, step, verdict, answer, term, dirVars, storeVars,
                   orphan, proxy, excused, signals>>

TakeLock(r) ==
    /\ At(r, "locking") /\ lock = None
    /\ lock' = r
    /\ Goto(r, "resetting")
    /\ UNCHANGED <<mode, client, step, verdict, answer, term, dirVars, storeVars,
                   orphan, proxy, excused, signals>>

\* The lock is asked for once and never waited for.
Busy(r) ==
    /\ At(r, "locking") /\ lock # None
    /\ Goto(r, "over")
    /\ answer' = [answer EXCEPT ![r] = "busy"]
    /\ UNCHANGED <<mode, client, step, verdict, term, dirVars, storeVars, hostVars>>

\* Which orphans still see the directories once they are made afresh: what a
\* container has mounted is the directory that was there, not its name.
Survivors(c, gone) ==
    [q \in Runs |-> IF client[q] = c /\ orphan[q] \in gone THEN None ELSE orphan[q]]

\* Mutant: the directories of the last run are made only if missing.
ResetKeeps(r) ==
    /\ At(r, "resetting")
    /\ Goto(r, "ready")
    /\ UNCHANGED <<mode, client, step, verdict, answer, term, dirVars, storeVars, hostVars>>

\* _run() begins with fresh directories, draft-out only for an audit; the
\* probes' are their own.
Reset(r) ==
    /\ At(r, "resetting")
    /\ Goto(r, "ready")
    /\ LET c == client[r] IN
         IF mode[r] \in Probes
         THEN UNCHANGED <<dirVars, orphan, excused>>
         ELSE /\ data' = [data EXCEPT ![c] = [by |-> {}, bad |-> FALSE]]
              /\ reports' = [reports EXCEPT ![c] = Nothing]
              /\ IF mode[r] = "audit"
                 THEN /\ transient' = [transient EXCEPT ![c] = None]
                      /\ orphan' = Survivors(c, Containers)
                      /\ excused' = excused \ {c}
                 ELSE /\ orphan' = Survivors(c, {"collect", "read"})
                      /\ UNCHANGED <<transient, excused>>
    /\ UNCHANGED <<mode, client, step, verdict, answer, term, storeVars, lock, proxy, signals>>

\* rmtree or makedirs raises.  For a run this is before its try; the probes'
\* finally clause covers it.
ResetRaises(r) ==
    /\ At(r, "resetting")
    /\ Goto(r, IF mode[r] \in Probes THEN "finally" ELSE "unlocking")
    /\ verdict' = [verdict EXCEPT ![r] = "internal"]
    /\ UNCHANGED <<mode, client, step, answer, term, dirVars, storeVars, hostVars>>

-----------------------------------------------------------------------------
(* _run(): the steps.                                                      *)

\* The first step after collection looks at what the collectors left.
Collected(r) ==
    mode[r] \notin Probes /\ step[r] = 2

Unchecked(r) == At(r, "ready") /\ step[r] <= Len(Plan(mode[r]))

CollectorsFailed(r) ==
    /\ Unchecked(r) /\ Collected(r) /\ data[client[r]].bad
    /\ Ends(r, "collect")
    /\ UNCHANGED <<dirVars, storeVars, hostVars>>

\* others_named() on the transient draft, before anything reaches the vault.
DraftNamesOther(r) ==
    /\ Unchecked(r) /\ Current(r) = "vault-write"
    /\ transient[client[r]] # None /\ transient[client[r]].names
    /\ Ends(r, "isolation")
    /\ UNCHANGED <<dirVars, storeVars, hostVars>>

Begin(r) ==
    /\ Unchecked(r)
    /\ ~(Collected(r) /\ data[client[r]].bad)
    /\ Current(r) = "vault-write" =>
         transient[client[r]] # None /\ ~transient[client[r]].names
    /\ Goto(r, "working")
    /\ UNCHANGED <<mode, client, step, verdict, answer, term, dirVars, storeVars, hostVars>>

\* A log file cannot be made, the draft is no plain file, a check raises.
Raises(r) ==
    /\ At(r, "ready")
    /\ Ends(r, "internal")
    /\ UNCHANGED <<dirVars, storeVars, hostVars>>

\* What a step may have written by any moment of its work.
Wrote(r, s, names) ==
    LET c == client[r] IN
    /\ data' = IF s = "collect" THEN [data EXCEPT ![c].by = @ \cup {r}] ELSE data
    /\ reports' = IF s # "read" THEN reports ELSE
         [reports EXCEPT ![c] = [by |-> @.by \cup data[c].by \cup {r}, names |-> @.names \/ names]]
    /\ transient' = IF s # "draft" THEN transient ELSE
         [transient EXCEPT ![c] = [by |-> reports[c].by \cup {r}, names |-> reports[c].names \/ names]]

NextStep(r) ==
    /\ step' = [step EXCEPT ![r] = @ + 1]
    /\ Goto(r, "ready")

\* The work of a step that is not told apart further: collectors may leave an
\* error file, a report or a draft may name another client.
StepDone(r) ==
    /\ At(r, "working") /\ mode[r] \notin Probes
    /\ Current(r) \notin {"vault-write", "store"}
    /\ NextStep(r)
    /\ proxy' = (proxy \/ Current(r) = "proxy")
    /\ \/ \E names \in BOOLEAN : Wrote(r, Current(r), names)
       \/ /\ Current(r) = "collect"
          /\ data' = [data EXCEPT ![client[r]] = [by |-> @.by \cup {r}, bad |-> TRUE]]
          /\ UNCHANGED <<reports, transient>>
    /\ UNCHANGED <<mode, client, verdict, answer, term, storeVars, lock, orphan, excused, signals>>

Measured(r, asDeclared) ==
    verdict' = IF asDeclared THEN verdict ELSE [verdict EXCEPT ![r] = "failed"]

\* probe_env(): each container's environment and mounts are as declared, or
\* not; one that failed is not.
MeasureEnv(r) ==
    /\ At(r, "working") /\ mode[r] = "env"
    /\ NextStep(r)
    /\ \E asDeclared \in BOOLEAN : Measured(r, asDeclared)
    /\ UNCHANGED <<mode, client, answer, term, dirVars, storeVars, hostVars>>

\* probe_egress(): the proxy's start and the drafter's view are both evidence;
\* a step that failed does not stop the next one.
MeasureEgress(r) ==
    /\ At(r, "working") /\ mode[r] = "egress"
    /\ NextStep(r)
    /\ \E asExpected \in BOOLEAN :
         /\ Measured(r, asExpected)
         /\ proxy' \in IF Current(r) # "proxy" THEN {proxy} ELSE {TRUE, asExpected \/ proxy}
    /\ UNCHANGED <<mode, client, answer, term, dirVars, storeVars, lock, orphan, excused, signals>>

\* A step returns non-zero, with part of its work done.
StepFails(r) ==
    /\ At(r, "working") /\ mode[r] \notin Probes
    /\ Ends(r, Current(r))
    /\ (\/ UNCHANGED dirVars
        \/ \E names \in BOOLEAN : Wrote(r, Current(r), names))
    /\ proxy' \in {proxy, proxy \/ Current(r) = "proxy"}
    /\ UNCHANGED <<storeVars, lock, orphan, excused, signals>>

\* When its step is cut short dockerd may have started the proxy.
ProxyCutShort(r) == proxy' \in IF Doing(r, "proxy") THEN {proxy, TRUE} ELSE {proxy}

\* Mutant: only a named container is given a timeout.
StepTimesOutNamed(r) ==
    /\ At(r, "working") /\ Current(r) \in Containers
    /\ Goto(r, "removing")
    /\ UNCHANGED <<mode, client, step, verdict, answer, term, dirVars, storeVars, hostVars>>

\* real_runner() and probe_runner(): the client is killed at its timeout.
StepTimesOut(r) ==
    /\ At(r, "working")
    /\ Goto(r, "removing")
    /\ ProxyCutShort(r)
    /\ UNCHANGED <<mode, client, step, verdict, answer, term, dirVars, storeVars,
                   lock, orphan, excused, signals>>

\* The container of a step in progress may outlive its client.
Orphaned(r) ==
    /\ pc[r] \in {"working", "removing"} /\ mode[r] \notin Probes
    /\ Current(r) \in Containers

\* _remove_named(): `docker rm -f` works, or the container goes on.
RemoveNamed(r) ==
    /\ At(r, "removing")
    /\ \/ UNCHANGED <<orphan, excused>>
       \/ /\ Orphaned(r)
          /\ orphan' = [orphan EXCEPT ![r] = Current(r)]
          /\ excused' = excused \cup {client[r]}
    /\ IF mode[r] \in Probes
       THEN NextStep(r) /\ Measured(r, FALSE) /\ UNCHANGED <<mode, client, answer, term>>
       ELSE Ends(r, Current(r))
    /\ UNCHANGED <<dirVars, storeVars, lock, proxy, signals>>

\* vault-write.py: the audit file appears, is whole, then the metrics, then
\* the index and the timeline.
WriteVault(r) ==
    /\ Doing(r, "vault-write") /\ vault[r].upto < 4
    /\ vault' = [vault EXCEPT ![r] = [by |-> transient[client[r]].by,
                                      names |-> transient[client[r]].names,
                                      upto |-> @.upto + 1]]
    /\ UNCHANGED <<runVars, dirVars, archive, hostVars>>

VaultWritten(r) ==
    /\ Doing(r, "vault-write") /\ vault[r].upto = 4
    /\ NextStep(r)
    /\ UNCHANGED <<mode, client, verdict, answer, term, dirVars, storeVars, hostVars>>

\* report-store.py: a report that names another client is not stored.
StoreRefuses(r) ==
    /\ Doing(r, "store") /\ archive[r] = None /\ reports[client[r]].names
    /\ Ends(r, "isolation")
    /\ UNCHANGED <<dirVars, storeVars, hostVars>>

\* Mutant: the document is written under its own name.
WriteReportInPlace(r) ==
    /\ Doing(r, "store") /\ archive[r] = None /\ ~reports[client[r]].names
    /\ archive' = [archive EXCEPT ![r] = [by |-> reports[client[r]].by, file |-> "name", whole |-> FALSE]]
    /\ UNCHANGED <<runVars, dirVars, vault, hostVars>>

\* The document goes to a temporary file first.
WriteReport(r) ==
    /\ Doing(r, "store") /\ archive[r] = None /\ ~reports[client[r]].names
    /\ archive' = [archive EXCEPT ![r] = [by |-> reports[client[r]].by, file |-> "tmp", whole |-> FALSE]]
    /\ UNCHANGED <<runVars, dirVars, vault, hostVars>>

SyncReport(r) ==
    /\ Doing(r, "store") /\ archive[r] # None /\ ~archive[r].whole
    /\ archive' = [archive EXCEPT ![r].whole = TRUE]
    /\ UNCHANGED <<runVars, dirVars, vault, hostVars>>

\* link(): the name appears with the whole document.
LinkReport(r) ==
    /\ Doing(r, "store") /\ archive[r] # None /\ archive[r].whole /\ archive[r].file = "tmp"
    /\ archive' = [archive EXCEPT ![r].file = "name"]
    /\ UNCHANGED <<runVars, dirVars, vault, hostVars>>

\* unlink() of the temporary; when that raises, StepFails: the report is there.
UnlinkTemporary(r) ==
    /\ Doing(r, "store") /\ archive[r] # None /\ archive[r].file = "name"
    /\ NextStep(r)
    /\ UNCHANGED <<mode, client, verdict, answer, term, dirVars, storeVars, hostVars>>

\* All steps are done.
Finish(r) ==
    /\ At(r, "ready") /\ step[r] > Len(Plan(mode[r]))
    /\ Ends(r, IF verdict[r] = None THEN "ok" ELSE verdict[r])
    /\ UNCHANGED <<dirVars, storeVars, hostVars>>

-----------------------------------------------------------------------------
(* The finally clause, with SIGTERM masked, and the answer.                *)

Mask(r) ==
    /\ At(r, "finally")
    /\ Goto(r, IF mode[r] \in {"figures", "env"} THEN "unmasking"
               ELSE IF mode[r] = "egress" THEN "stopping" ELSE "cleaning")
    /\ UNCHANGED <<mode, client, step, verdict, answer, term, dirVars, storeVars, hostVars>>

\* Mutant: a removal that raises leaves the clause.
RemoveTransientOrLeave(r) ==
    /\ At(r, "cleaning")
    /\ \/ /\ transient' = [transient EXCEPT ![client[r]] = None]
          /\ Goto(r, "stopping")
          /\ UNCHANGED <<excused, verdict>>
       \/ /\ verdict' = [verdict EXCEPT ![r] = "internal"]
          /\ excused' = excused \cup {client[r]}
          /\ Goto(r, "unmasking")
          /\ UNCHANGED transient
    /\ UNCHANGED <<mode, client, step, answer, term, data, reports, storeVars, lock, orphan, proxy, signals>>

\* The transient draft goes; if that raises the proxy is still stopped.
RemoveTransient(r) ==
    /\ At(r, "cleaning")
    /\ Goto(r, "stopping")
    /\ \/ /\ transient' = [transient EXCEPT ![client[r]] = None]
          /\ UNCHANGED <<excused, verdict>>
       \/ /\ verdict' = [verdict EXCEPT ![r] = "internal"]
          /\ excused' = excused \cup {client[r]}
          /\ UNCHANGED transient
    /\ UNCHANGED <<mode, client, step, answer, term, data, reports, storeVars, lock, orphan, proxy, signals>>

\* stop_proxy(): its log is kept if it can be, `rm -sf` works or is warned of.
StopProxy(r) ==
    /\ At(r, "stopping")
    /\ Goto(r, "unmasking")
    /\ \/ proxy' = FALSE /\ excused' = excused \ {"proxy"}
       \/ UNCHANGED proxy /\ excused' = excused \cup {"proxy"}
    /\ UNCHANGED <<mode, client, step, verdict, answer, term, dirVars, storeVars, lock, orphan, signals>>

\* A SIGTERM that was held is delivered now.
Unmask(r) ==
    /\ At(r, "unmasking")
    /\ Goto(r, "unlocking")
    /\ IF term[r] = "held"
       THEN /\ term' = [term EXCEPT ![r] = "done"]
            /\ verdict' = [verdict EXCEPT ![r] = "term"]
       ELSE UNCHANGED <<term, verdict>>
    /\ UNCHANGED <<mode, client, step, answer, dirVars, storeVars, hostVars>>

Unlock(r) ==
    /\ At(r, "unlocking")
    /\ Goto(r, "answering")
    /\ lock' = IF lock = r THEN None ELSE lock
    /\ UNCHANGED <<mode, client, step, verdict, answer, term, dirVars, storeVars,
                   orphan, proxy, excused, signals>>

\* emit() of a run; a probe that was terminated or raised prints nothing.
Answer(r) ==
    /\ At(r, "answering")
    /\ Goto(r, "over")
    /\ answer' = [answer EXCEPT ![r] =
         IF mode[r] \in Probes /\ verdict[r] \in {"term", "internal"} THEN None
         ELSE verdict[r]]
    /\ UNCHANGED <<mode, client, step, verdict, term, dirVars, storeVars, hostVars>>

-----------------------------------------------------------------------------
(* Signals, and what outlives a run.                                       *)

\* What is behind when the clean-up does not happen.
LeftBy(r, up) ==
    (IF up THEN {"proxy"} ELSE {}) \cup
    (IF mode[r] \notin Probes /\ (transient[client[r]] # None \/ Orphaned(r))
     THEN {client[r]} ELSE {})

\* _on_sigterm, once.  Inside main()'s try it becomes the answer "term"; in a
\* step it also removes the named container; in the finally clause before the
\* mask it skips the clean-up; outside the try it ends the process unheard.
Term(r) ==
    /\ term[r] = "none" /\ signals < MaxSignals
    /\ signals' = signals + 1
    /\ pc[r] \notin {"idle", "over", "dead"}
    /\ IF pc[r] \in {"cleaning", "stopping", "unmasking"}
       THEN /\ term' = [term EXCEPT ![r] = "held"]
            /\ UNCHANGED <<pc, verdict, orphan, excused>>
       ELSE /\ term' = [term EXCEPT ![r] = "done"]
            /\ verdict' = [verdict EXCEPT ![r] = "term"]
            /\ Goto(r, CASE At(r, "locking") -> "answering"
                         [] At(r, "resetting") -> IF mode[r] \in Probes THEN "finally" ELSE "unlocking"
                         [] pc[r] \in {"ready", "working", "removing"} -> "finally"
                         [] pc[r] \in {"finally", "unlocking"} -> "unlocking"
                         [] At(r, "answering") -> "over")
            /\ CASE Orphaned(r) ->
                      \/ UNCHANGED <<orphan, excused>>
                      \/ /\ orphan' = [orphan EXCEPT ![r] = Current(r)]
                         /\ excused' = excused \cup {client[r]}
                 [] At(r, "finally") ->
                      excused' = excused \cup LeftBy(r, proxy) /\ UNCHANGED orphan
                 [] OTHER -> UNCHANGED <<orphan, excused>>
    /\ ProxyCutShort(r)
    /\ UNCHANGED <<mode, client, step, answer, dirVars, storeVars, lock>>

\* SIGKILL, or the host goes down: the kernel frees the lock, the container
\* that was running goes on.
Kill(r) ==
    /\ signals < MaxSignals
    /\ pc[r] \notin {"idle", "over", "dead"}
    /\ signals' = signals + 1
    /\ Goto(r, "dead")
    /\ lock' = IF lock = r THEN None ELSE lock
    /\ orphan' = IF Orphaned(r) THEN [orphan EXCEPT ![r] = Current(r)] ELSE orphan
    /\ ProxyCutShort(r)
    /\ excused' = IF lock = r THEN excused \cup LeftBy(r, proxy') ELSE excused
    /\ UNCHANGED <<mode, client, step, verdict, answer, term, dirVars, storeVars>>

\* An orphaned container writes where its run had it write.
OrphanWrites(r) ==
    /\ orphan[r] # None
    /\ \E names \in BOOLEAN : Wrote(r, orphan[r], names)
    /\ UNCHANGED <<runVars, storeVars, hostVars>>

OrphanEnds(r) ==
    /\ orphan[r] # None
    /\ orphan' = [orphan EXCEPT ![r] = None]
    /\ UNCHANGED <<runVars, dirVars, storeVars, lock, proxy, excused, signals>>

Advance(r) ==
    \/ TakeLock(r) \/ Busy(r) \/ Reset(r) \/ ResetRaises(r)
    \/ CollectorsFailed(r) \/ DraftNamesOther(r) \/ Begin(r) \/ Raises(r)
    \/ StepTimesOut(r) \/ RemoveNamed(r) \/ Finish(r)
    \/ Mask(r) \/ RemoveTransient(r) \/ StopProxy(r) \/ Unmask(r) \/ Unlock(r) \/ Answer(r)

Work(r) ==
    \/ StepDone(r) \/ MeasureEnv(r) \/ MeasureEgress(r) \/ StepFails(r) \/ WriteVault(r) \/ VaultWritten(r)
    \/ StoreRefuses(r) \/ WriteReport(r) \/ SyncReport(r) \/ LinkReport(r)
    \/ UnlinkTemporary(r)

\* Every run has ended.
Over == (\A r \in Runs : pc[r] \in {"over", "dead"}) /\ UNCHANGED vars

Next ==
    \/ \E r \in Runs : Start(r) \/ Look(r) \/ Refuse(r) \/ Advance(r) \/ Work(r) \/ Term(r) \/ Kill(r)
                         \/ OrphanWrites(r) \/ OrphanEnds(r)
    \/ Over

Spec == Init /\ [][Next]_vars

(***************************************************************************)
(* The program itself does not stop; the command of a step may hang, and   *)
(* then its timeout passes.  The commands of the clean-up have a timeout   *)
(* of their own, after which it goes on.                                   *)
(***************************************************************************)
FairSpec == Spec /\ \A r \in Runs : WF_vars(Advance(r))

-----------------------------------------------------------------------------
(* Properties                                                              *)

TypeOK ==
    /\ pc \in [Runs -> States]
    /\ mode \in [Runs -> Modes \cup {None}]
    /\ client \in [Runs -> Clients \cup {None}]
    /\ step \in [Runs -> Nat]
    /\ \A r \in Runs : step[r] = 1 \/ step[r] \in 1 .. Len(Plan(mode[r])) + 1
    /\ verdict \in [Runs -> Verdicts \cup {None}]
    /\ answer \in [Runs -> Answers \cup {None}]
    /\ term \in [Runs -> {"none", "held", "done"}]
    /\ lock \in Runs \cup {None}
    /\ data \in [Clients -> [by : SUBSET Runs, bad : BOOLEAN]]
    /\ reports \in [Clients -> Content]
    /\ transient \in [Clients -> Content \cup {None}]
    /\ orphan \in [Runs -> Containers \cup {None}]
    /\ proxy \in BOOLEAN
    /\ vault \in [Runs -> [by : SUBSET Runs, names : BOOLEAN, upto : 0 .. 4]]
    /\ archive \in [Runs -> Archived \cup {None}]
    /\ excused \subseteq Clients \cup {"proxy"}
    /\ signals \in 0 .. MaxSignals

\* What a run puts in a vault or in the archive was collected, read and
\* drafted by that run, and a vault file names no other client: nothing of an
\* earlier run that was cut short, nor of a container that outlived it, gets
\* in by way of the shared directories.
StoredIsOwn ==
    \A r \in Runs :
        /\ vault[r].upto > 0 => vault[r].by = {r} /\ ~vault[r].names
        /\ archive[r] # None => archive[r].by = {r}

\* A report that can be listed is whole, whenever the store step is cut short.
ListedReportIsWhole ==
    \A r \in Runs : archive[r] # None /\ archive[r].file = "name" => archive[r].whole

\* "ok" is said only of an audit whose four writes are in the vault, or of a
\* report that can be listed.
OkIsTrue ==
    \A r \in Runs : answer[r] = "ok" =>
        /\ mode[r] = "audit" => vault[r].upto = 4
        /\ mode[r] = "figures" => archive[r] # None /\ archive[r].file = "name"

\* A run that is told to have been refused or busy touched nothing, and one
\* that failed before its last step, the isolation checks included, has put
\* nothing in the vault or the archive.
ReasonIsTrue ==
    \A r \in Runs :
        /\ answer[r] \in {"refused", "busy"} =>
             \A c \in Clients : r \notin data[c].by \cup reports[c].by
        /\ verdict[r] \in (Steps \ {"vault-write", "store"}) \cup {"isolation"} =>
             vault[r].upto = 0 /\ archive[r] = None

\* A run is told the truth: what is "ok" is there and whole, what was refused or
\* failed earlier left nothing, and a report in the archive is whole in any case.
AnswersAreTrue == OkIsTrue /\ ReasonIsTrue /\ ListedReportIsWhole

\* The drafter of an audit never loses its proxy to another run's clean-up, and
\* the egress probe's verdict "ok" is about a drafter that had one.
DrafterHasProxy ==
    \A r \in Runs : Doing(r, "draft") =>
        /\ mode[r] = "audit" => proxy
        /\ mode[r] = "egress" /\ verdict[r] = None => proxy

\* Types, and what the shared lock is for.
LockInv == TypeOK /\ DrafterHasProxy

\* When no run holds the lock the proxy is down and no transient draft is
\* left, except what a kill, a SIGTERM before the mask, a container that could
\* not be removed or a failed clean-up command left; the next audit of the
\* client clears that too.
AtRest ==
    lock = None =>
        /\ proxy => "proxy" \in excused
        /\ \A c \in Clients : transient[c] # None => c \in excused

\* A run that has begun ends, and gives the lock back, even if the command of
\* a step never returns.
RunEnds == \A r \in Runs : pc[r] # "idle" ~> pc[r] \in {"over", "dead"}

=============================================================================
