-------------------------- MODULE GovernanceStore --------------------------
(***************************************************************************)
(* The governance store on the host and the operator's tools that make it, *)
(* each of which can fail at any call and be killed between any two:        *)
(*   init-host-layout --apply    creates the missing entries of the table   *)
(*   migrate-governance          copies the registry and the logs of a      *)
(*                               vault into the store and seals the logs    *)
(*   ... --bootstrap-logs        makes a log for every registered client    *)
(*   register-client             adds a client to the registry              *)
(*   vault-purge                 exports a vault, deletes it, marks it      *)
(* The executor asks preflight-governance-access before it changes an       *)
(* account and appends to the client's log after.                           *)
(*                                                                         *)
(* There is one operator: one tool runs at a time, beside the executor.     *)
(* An entry of the table is told apart by what the code asks of its owner   *)
(* and mode: "ok" is the table's row, "closed" and "open" are another row   *)
(* which the executor cannot or can read ("closed" is also what mkdir and   *)
(* open leave before chown), and for log/ "writable" has group write and    *)
(* "loose" lacks only setgid.                                               *)
(***************************************************************************)
EXTENDS Naturals, Sequences, FiniteSets

CONSTANTS
    Clients,
    MaxRecords,     \* records in a log
    MaxFaults,      \* calls that fail, tools killed and entries spoiled by hand
    None

ASSUME StoreAssumption == MaxRecords \in Nat \ {0} /\ MaxFaults \in Nat

VARIABLES
    entry,          \* entry of the table -> what is at its path
    reg,            \* content of clients.json
    slog,           \* client -> its log in the store, or None
    newfile,        \* clients.json.new is there
    vreg,           \* the registry in the vaults, or None
    vlog,           \* client -> records of the log in its vault, "torn" or None
    vault,          \* client -> "whole", "part" or "gone"
    export,         \* client -> None, "part" or "whole"
    deletions,      \* clients in deletions.log
    op,             \* the tool that runs
    exec,           \* the executor's run, or None
    wrote,          \* client -> records ever put in its log (for the properties)
    before,         \* entries and registry when --apply began (likewise)
    faults

vars == <<entry, reg, slog, newfile, vreg, vlog, vault, export, deletions, op, exec,
          wrote, before, faults>>

logs == <<slog, wrote>>
vaults == <<vreg, vlog, vault, export, deletions>>

\* LAYOUT, parents first: one directory, one file, log/ and one row after them.
Table == <<"store", "registry", "clients.json", "log", "seen">>

Entries == {Table[i] : i \in DOMAIN Table}

Rows(e) == {"missing", "closed", "open", "ok"}
             \cup (IF e = "log" THEN {"writable", "loose"} ELSE {})

Statuses == {"none", "active", "offboarded"}

Registries == [kind : {"absent", "bare", "broken", "clients"}, of : [Clients -> Statuses]]

\* A log in the store, with the group it has and its seal, and one in a vault.
LogFiles == [recs : Nat, group : BOOLEAN, sealed : BOOLEAN]
VaultLogs == [recs : 0 .. MaxRecords, torn : BOOLEAN]

\* What --apply finds when it begins.
Found == [entry : [Entries -> Rows("log")], reg : Registries]

Tools == {"apply", "migrate", "bootstrap", "register", "purge"}

Steps == {"create", "finish", "rollback", "registry", "swap", "logs", "count", "verify", "seal",
          "unlog", "unmake", "install", "export", "delete", "book", "flip", "exit"}

ASSUME NoneAssumption ==
    None \notin Clients \cup Tools \cup Steps \cup LogFiles \cup VaultLogs \cup Registries \cup Found

\* "bare" is the "{}" that the layout creates, "broken" an empty or a cut file.
Registry(kind) == [kind |-> kind, of |-> [c \in Clients |-> "none"]]

Registered == {c \in Clients : reg.of[c] # "none"}

NoTool == [tool |-> None, at |-> None, todo |-> {}, made |-> <<>>, c |-> None, n |-> 0,
           noted |-> FALSE, code |-> 0]

Running(tool, at) == op.tool = tool /\ op.at = at

Missing == {e \in Entries : entry[e] = "missing"}

Init ==
    /\ \E e \in {"missing", "ok"} : entry = [x \in Entries |-> e]
    /\ reg = Registry(IF entry["store"] = "ok" THEN "bare" ELSE "absent")
    /\ slog = [c \in Clients |-> None] /\ wrote = [c \in Clients |-> 0]
    /\ newfile = FALSE
    /\ \E c \in Clients :
         /\ vreg \in {None, [Registry("clients") EXCEPT !.of[c] = "active"]}
         /\ \E torn \in BOOLEAN :
              vlog = [d \in Clients |-> [recs |-> MaxRecords - 1, torn |-> torn /\ d = c]]
    /\ vault = [c \in Clients |-> "whole"] /\ export = [c \in Clients |-> None]
    /\ deletions = {}
    /\ op = NoTool /\ exec = None /\ before = None
    /\ faults = 0

Fault == faults < MaxFaults /\ faults' = faults + 1

Begin(tool, at, todo, c) ==
    /\ op = NoTool
    /\ op' = [NoTool EXCEPT !.tool = tool, !.at = at, !.todo = todo, !.c = c]
    /\ before' = IF tool = "apply" THEN [entry |-> entry, reg |-> reg] ELSE None

\* The tool refuses at once.
Decline(tool, c, code) ==
    /\ op = NoTool
    /\ op' = [NoTool EXCEPT !.tool = tool, !.at = "exit", !.c = c, !.code = code]
    /\ UNCHANGED before

End(code) ==
    /\ op' = [NoTool EXCEPT !.tool = op.tool, !.at = "exit", !.c = op.c, !.code = code,
                           !.noted = op.noted]
    /\ UNCHANGED before

Goto(at) == op' = [op EXCEPT !.at = at] /\ UNCHANGED before

-----------------------------------------------------------------------------
(* init-host-layout --apply.                                               *)

LayoutOk == \A e \in Entries : entry[e] = "ok"

\* plan(), then a refusal when an entry that exists is wrong.
Apply ==
    /\ IF \E e \in Entries : entry[e] \notin {"missing", "ok"}
       THEN Decline("apply", None, 2)
       ELSE Begin("apply", "create", Missing, None)
    /\ UNCHANGED <<entry, reg, logs, newfile, vaults, exec, faults>>

\* The first of the entries that are to be created, in the table's order.
NextEntry == Table[CHOOSE i \in DOMAIN Table :
                     Table[i] \in op.todo /\ \A j \in 1 .. i - 1 : Table[j] \notin op.todo]

\* mkdir or open(O_EXCL): root's, closed, and a file without its content yet or
\* already with it.
CreateEntry ==
    /\ Running("apply", "create") /\ op.todo # {}
    /\ entry' = [entry EXCEPT ![NextEntry] = "closed"]
    /\ IF NextEntry = "clients.json" THEN reg' \in {Registry("broken"), Registry("bare")} ELSE UNCHANGED reg
    /\ op' = [op EXCEPT !.at = "finish", !.made = Append(@, NextEntry)]
    /\ UNCHANGED <<logs, newfile, vaults, before, exec, faults>>

\* Content, fchown, fchmod, and the entry is as it should be.
FinishEntry ==
    /\ Running("apply", "finish")
    /\ entry' = [entry EXCEPT ![NextEntry] = "ok"]
    /\ reg' = IF NextEntry = "clients.json" THEN Registry("bare") ELSE reg
    /\ op' = [op EXCEPT !.at = "create", !.todo = @ \ {NextEntry}]
    /\ UNCHANGED <<logs, newfile, vaults, before, exec, faults>>

EntryFails ==
    /\ op.tool = "apply" /\ op.at \in {"create", "finish"} /\ op.todo # {}
    /\ Fault /\ Goto("rollback")
    /\ UNCHANGED <<entry, reg, logs, newfile, vaults, exec>>

\* Mutant: the rollback forgets the entry that was being made.
RollbackAllButLast ==
    /\ Running("apply", "rollback") /\ op.made # <<>>
    /\ LET rest == SubSeq(op.made, 1, Len(op.made) - 1) IN
         /\ entry' = [e \in Entries |-> IF \E i \in DOMAIN rest : rest[i] = e THEN "missing" ELSE entry[e]]
         /\ reg' = IF entry'["clients.json"] = "missing" THEN Registry("absent") ELSE reg
    /\ op' = [op EXCEPT !.made = <<>>]
    /\ UNCHANGED <<logs, newfile, vaults, before, exec, faults>>

Below(e) == IF e = "store" THEN Entries \ {e} ELSE IF e = "registry" THEN {"clients.json"} ELSE {}

\* What this call made is removed, children first; what cannot be removed, or
\* has something below it that could not, is named in the error.
Rollback ==
    /\ Running("apply", "rollback") /\ op.made # <<>>
    /\ LET e == op.made[Len(op.made)]
           rest == SubSeq(op.made, 1, Len(op.made) - 1)
       IN  \/ /\ Below(e) \subseteq Missing
              /\ entry' = [entry EXCEPT ![e] = "missing"]
              /\ reg' = IF e = "clients.json" THEN Registry("absent") ELSE reg
              /\ op' = [op EXCEPT !.made = rest]
           \/ /\ op' = [op EXCEPT !.made = rest, !.noted = TRUE]
              /\ UNCHANGED <<entry, reg>>
    /\ UNCHANGED <<logs, newfile, vaults, before, exec, faults>>

EndApply ==
    /\ \/ Running("apply", "create") /\ op.todo = {} /\ End(0)
       \/ Running("apply", "rollback") /\ op.made = <<>> /\ End(2)
    /\ UNCHANGED <<entry, reg, logs, newfile, vaults, exec, faults>>

-----------------------------------------------------------------------------
(* Logs: migrate() and bootstrap_logs() in migrate_governance_shim.py.      *)

\* setgid gives a new file the group of log/, if that is the executor's.
GroupGiven == entry["log"] \in {"ok", "writable"}

\* _check_log_dir().
LogDirOk == entry["log"] \in {"ok", "loose"}

Migrate ==
    /\ Begin("migrate", "registry", {c \in Clients : vlog[c] # None}, None)
    /\ UNCHANGED <<entry, reg, logs, newfile, vaults, exec, faults>>

\* makedirs(): the parent with the umask's mode, the directory itself 0700.
MigrateRegistry ==
    /\ Running("migrate", "registry")
    /\ IF vreg # None /\ entry["clients.json"] = "missing"
       THEN /\ entry' = [entry EXCEPT !["store"] = IF @ = "missing" THEN "open" ELSE @,
                                      !["registry"] = IF @ = "missing" THEN "closed" ELSE @]
            /\ Goto("swap")
       ELSE Goto("logs") /\ UNCHANGED entry
    /\ UNCHANGED <<reg, logs, newfile, vaults, exec, faults>>

\* The copy has the owner and mode it had in the vaults.
SwapRegistry ==
    /\ Running("migrate", "swap")
    /\ reg' = vreg
    /\ \E row \in {"open", "closed"} : entry' = [entry EXCEPT !["clients.json"] = row]
    /\ Goto("logs")
    /\ UNCHANGED <<logs, newfile, vaults, exec, faults>>

\* The log is copied beside its name, or cut short, which is a fault.
CopyLog(c) ==
    /\ Running("migrate", "logs") /\ c \in op.todo
    /\ slog[c] = None /\ ~vlog[c].torn /\ entry["log"] # "missing"
    /\ UNCHANGED before
    /\ \/ op' = [op EXCEPT !.at = "count", !.c = c, !.n = vlog[c].recs] /\ UNCHANGED faults
       \/ vlog[c].recs > 0 /\ op' = [op EXCEPT !.at = "count", !.c = c, !.n = vlog[c].recs - 1] /\ Fault
    /\ UNCHANGED <<entry, reg, logs, newfile, vaults, exec>>

SkipLog(c) ==
    /\ Running("migrate", "logs") /\ c \in op.todo /\ slog[c] # None
    /\ op' = [op EXCEPT !.todo = @ \ {c}]
    /\ UNCHANGED <<entry, reg, logs, newfile, vaults, before, exec, faults>>

\* A log with a line that does not parse, or records lost in the copy.
RefuseLog(c) ==
    /\ \/ Running("migrate", "logs") /\ c \in op.todo /\ slog[c] = None /\ vlog[c].torn
       \/ Running("migrate", "count") /\ op.c = c /\ op.n # vlog[c].recs
    /\ End(2)
    /\ UNCHANGED <<entry, reg, logs, newfile, vaults, exec, faults>>

\* Mutant: the copy is not counted.
RenameUncounted ==
    /\ Running("migrate", "count")
    /\ slog' = [slog EXCEPT ![op.c] = [recs |-> op.n, group |-> GroupGiven, sealed |-> FALSE]]
    /\ wrote' = [wrote EXCEPT ![op.c] = vlog[op.c].recs]
    /\ Goto("seal")
    /\ UNCHANGED <<entry, reg, newfile, vaults, exec, faults>>

\* os.replace() before the seal: a sealed file cannot be renamed.
RenameLog ==
    /\ Running("migrate", "count") /\ op.n = vlog[op.c].recs
    /\ slog' = [slog EXCEPT ![op.c] = [recs |-> op.n, group |-> GroupGiven, sealed |-> FALSE]]
    /\ wrote' = [wrote EXCEPT ![op.c] = vlog[op.c].recs]
    /\ Goto("seal")
    /\ UNCHANGED <<entry, reg, newfile, vaults, exec, faults>>

\* log/ is made here, has the wrong group, and is taken away again; the store's
\* root, if it had to be made too, stays.
MakeLogDir(c) ==
    /\ Running("migrate", "logs") /\ c \in op.todo
    /\ slog[c] = None /\ ~vlog[c].torn /\ entry["log"] = "missing"
    /\ \E row \in {"open", "closed"} :
         entry' = [entry EXCEPT !["log"] = row, !["store"] = IF @ = "missing" THEN "open" ELSE @]
    /\ Goto("unmake")
    /\ UNCHANGED <<reg, logs, newfile, vaults, exec, faults>>

UnmakeLogDir ==
    /\ Running("migrate", "unmake")
    /\ entry' = [entry EXCEPT !["log"] = "missing"]
    /\ End(2)
    /\ UNCHANGED <<reg, logs, newfile, vaults, exec, faults>>

EndLogs ==
    /\ op.tool \in {"migrate", "bootstrap"} /\ op.at = "logs" /\ op.todo = {}
    /\ End(0)
    /\ UNCHANGED <<entry, reg, logs, newfile, vaults, exec, faults>>

Bootstrap ==
    /\ IF LogDirOk /\ reg.kind \notin {"absent", "broken"}
       THEN Begin("bootstrap", "logs", Registered, None)
       ELSE Decline("bootstrap", None, 2)
    /\ UNCHANGED <<entry, reg, logs, newfile, vaults, exec, faults>>

\* Mutant: only an active client is given a log.
CreateActiveLog(c) ==
    /\ Running("bootstrap", "logs") /\ c \in op.todo
    /\ IF slog[c] # None \/ reg.of[c] # "active"
       THEN op' = [op EXCEPT !.todo = @ \ {c}] /\ UNCHANGED logs
       ELSE /\ op' = [op EXCEPT !.at = "verify", !.c = c]
            /\ slog' = [slog EXCEPT ![c] = [recs |-> 0, group |-> GroupGiven, sealed |-> FALSE]]
            /\ wrote' = [wrote EXCEPT ![c] = 0]
    /\ UNCHANGED <<entry, reg, newfile, vaults, before, exec, faults>>

CreateLog(c) ==
    /\ Running("bootstrap", "logs") /\ c \in op.todo
    /\ IF slog[c] # None
       THEN op' = [op EXCEPT !.todo = @ \ {c}] /\ UNCHANGED logs
       ELSE /\ op' = [op EXCEPT !.at = "verify", !.c = c]
            /\ slog' = [slog EXCEPT ![c] = [recs |-> 0, group |-> GroupGiven, sealed |-> FALSE]]
            /\ wrote' = [wrote EXCEPT ![c] = 0]
    /\ UNCHANGED <<entry, reg, newfile, vaults, before, exec, faults>>

VerifyLog ==
    /\ Running("bootstrap", "verify")
    /\ Goto(IF slog[op.c].group THEN "seal" ELSE "unlog")
    /\ UNCHANGED <<entry, reg, logs, newfile, vaults, exec, faults>>

\* set_append_only(): the flag, then the same flag read back.
Seal ==
    /\ op.at = "seal"
    /\ slog' = [slog EXCEPT ![op.c].sealed = TRUE]
    /\ op' = [op EXCEPT !.at = "logs", !.todo = @ \ {op.c}, !.c = None, !.n = 0]
    /\ UNCHANGED <<entry, reg, newfile, vaults, before, exec, wrote, faults>>

\* It is refused, or it took and cannot be read back.
SealFails ==
    /\ op.at = "seal" /\ Fault
    /\ \E took \in BOOLEAN : slog' = [slog EXCEPT ![op.c].sealed = took]
    /\ Goto("unlog")
    /\ UNCHANGED <<entry, reg, newfile, vaults, exec, wrote>>

\* What this call made is removed; a sealed file cannot be.
Unlog ==
    /\ op.at = "unlog"
    /\ IF slog[op.c].sealed THEN UNCHANGED logs
       ELSE slog' = [slog EXCEPT ![op.c] = None] /\ wrote' = [wrote EXCEPT ![op.c] = 0]
    /\ End(2)
    /\ UNCHANGED <<entry, reg, newfile, vaults, exec, faults>>

\* A call of migrate() fails before there is anything to remove.
MigrateFails ==
    /\ op.tool = "migrate" /\ op.at \in {"registry", "swap", "logs"}
    /\ Fault /\ End(2)
    /\ UNCHANGED <<entry, reg, logs, newfile, vaults, exec>>

-----------------------------------------------------------------------------
(* register-client and vault-purge.                                        *)

\* Mutant: a registry without clients is where a new one starts.
RegisterFromNothing(c) ==
    /\ reg.kind # "absent"
    /\ IF c \in Registered \/ newfile
       THEN Decline("register", c, 1) /\ newfile' = FALSE /\ UNCHANGED <<entry, reg>>
       ELSE /\ Decline("register", c, 0) /\ newfile' = FALSE
            /\ reg' = [Registry("clients") EXCEPT !.of[c] = "active"]
            /\ UNCHANGED entry
    /\ UNCHANGED <<logs, vaults, exec, faults>>

\* A registry that is missing, does not parse or has no clients refuses, and
\* so does a client that is in it.  A clients.json.new that is there makes the
\* open fail, and is removed all the same.
Register(c) ==
    /\ IF reg.kind # "clients" \/ c \in Registered \/ newfile
       THEN Decline("register", c, 1) /\ newfile' = FALSE
       ELSE Begin("register", "install", {}, c) /\ newfile' = TRUE
    /\ UNCHANGED <<entry, reg, logs, vaults, exec, faults>>

\* chown, chmod, os.replace.
Install ==
    /\ Running("register", "install")
    /\ reg' = [reg EXCEPT !.of[op.c] = "active"]
    /\ entry' = [entry EXCEPT !["clients.json"] = "ok"]
    /\ newfile' = FALSE
    /\ End(0)
    /\ UNCHANGED <<logs, vaults, exec, faults>>

InstallFails ==
    /\ Running("register", "install") /\ Fault
    /\ newfile' = FALSE
    /\ End(1)
    /\ UNCHANGED <<entry, reg, logs, vaults, exec>>

Purge(c) ==
    /\ IF c \in Registered /\ vault[c] # "gone"
       THEN Begin("purge", "export", {}, c)
       ELSE Decline("purge", c, 2)
    /\ UNCHANGED <<entry, reg, logs, newfile, vaults, exec, faults>>

\* Mutant: the vault goes while its export is being written.
ExportDeletes ==
    /\ Running("purge", "export")
    /\ export' = [export EXCEPT ![op.c] = "part"]
    /\ vault' = [vault EXCEPT ![op.c] = "part"]
    /\ Goto("delete")
    /\ UNCHANGED <<entry, reg, logs, newfile, vreg, vlog, deletions, exec, faults>>

\* An archive of its own for every attempt: an older one stays.
Export ==
    /\ Running("purge", "export")
    /\ \/ export' = [export EXCEPT ![op.c] = "whole"] /\ Goto("delete") /\ UNCHANGED faults
       \/ /\ export' = [export EXCEPT ![op.c] = IF @ = "whole" THEN @ ELSE "part"]
          /\ Fault /\ End(2)
    /\ UNCHANGED <<entry, reg, logs, newfile, vreg, vlog, vault, deletions, exec>>

\* rmtree(): it may stop half way, outside the part of purge() that says so.
Delete ==
    /\ Running("purge", "delete")
    /\ vlog' = [vlog EXCEPT ![op.c] = None]
    /\ \/ vault' = [vault EXCEPT ![op.c] = "gone"] /\ Goto("book") /\ UNCHANGED faults
       \/ vault' = [vault EXCEPT ![op.c] = "part"] /\ Fault /\ End(2)
    /\ UNCHANGED <<entry, reg, logs, newfile, vreg, export, deletions, exec>>

Book ==
    /\ Running("purge", "book")
    /\ deletions' = deletions \cup {op.c}
    /\ Goto("flip")
    /\ UNCHANGED <<entry, reg, logs, newfile, vreg, vlog, vault, export, exec, faults>>

\* The registry is written anew with the umask's mode.
Flip ==
    /\ Running("purge", "flip")
    /\ reg' = [reg EXCEPT !.of[op.c] = "offboarded"]
    /\ \E row \in {"open", "closed"} : entry' = [entry EXCEPT !["clients.json"] = row]
    /\ End(0)
    /\ UNCHANGED <<logs, newfile, vaults, exec, faults>>

BookkeepingFails ==
    /\ op.tool = "purge" /\ op.at \in {"book", "flip"}
    /\ Fault /\ End(3)
    /\ UNCHANGED <<entry, reg, logs, newfile, vaults, exec>>

-----------------------------------------------------------------------------
(* preflight-governance-access and the executor.                           *)

Reaches(e) == entry[e] \in {"open", "ok", "writable", "loose"}

\* What check() asks for, a part of it each.
DirsReached == \A e \in {"store", "registry", "log"} : Reaches(e)

LogDirKept == entry["log"] # "writable"

LogsWritable == \A c \in Clients : slog[c] # None => slog[c].group

RegistryRead ==
    /\ entry["clients.json"] = "missing" \/ Reaches("clients.json")
    /\ reg.kind # "broken"

RegisteredLogged == \A c \in Registered : slog[c] # None

RegisteredSealed == \A c \in Registered : slog[c] # None => slog[c].sealed

\* check() has no problem to report.
Clean ==
    /\ DirsReached /\ LogDirKept
    /\ LogsWritable /\ RegistryRead
    /\ RegisteredLogged /\ RegisteredSealed

Appendable(c) ==
    /\ Reaches("store") /\ Reaches("log")
    /\ slog[c] # None /\ slog[c].group

\* run-ads-mutate.sh runs the preflight, then the executor changes the account.
RunStarts(c) ==
    /\ exec = None /\ Clean
    /\ c \in Registered /\ reg.of[c] = "active" /\ wrote[c] < MaxRecords
    /\ exec' = c
    /\ UNCHANGED <<entry, reg, logs, newfile, vaults, op, before, faults>>

RunRecords ==
    /\ exec # None /\ Appendable(exec)
    /\ slog' = [slog EXCEPT ![exec].recs = @ + 1]
    /\ wrote' = [wrote EXCEPT ![exec] = @ + 1]
    /\ exec' = None
    /\ UNCHANGED <<entry, reg, newfile, vaults, op, before, faults>>

\* The executor's and the broker's uid can empty a log that is not sealed.  The
\* window of a tool that is about to seal one is left out.
Truncate(c) ==
    /\ op = NoTool
    /\ slog[c] # None /\ ~slog[c].sealed /\ slog[c].recs > 0 /\ exec = None
    /\ slog' = [slog EXCEPT ![c].recs = 0]
    /\ UNCHANGED <<entry, reg, wrote, newfile, vaults, op, before, exec, faults>>

-----------------------------------------------------------------------------
(* The operator, by hand, while no tool runs.                              *)

\* An entry is set to the row that --check names.
Repair(e) ==
    /\ op = NoTool /\ entry[e] \notin {"missing", "ok"}
    /\ entry' = [entry EXCEPT ![e] = "ok"]
    /\ UNCHANGED <<reg, logs, newfile, vaults, op, before, exec, faults>>

\* A registry that has no clients yet is installed.
HandRegistry ==
    /\ op = NoTool /\ reg.kind \in {"bare", "broken"}
    /\ reg' = Registry("clients")
    /\ entry' = [entry EXCEPT !["clients.json"] = "ok"]
    /\ UNCHANGED <<logs, newfile, vaults, op, before, exec, faults>>

\* A log that is not sealed or has the wrong group is looked at, completed and
\* sealed.
MendLog(c) ==
    /\ op = NoTool /\ slog[c] # None /\ ~(slog[c].sealed /\ slog[c].group)
    /\ slog' = [slog EXCEPT ![c] = [recs |-> wrote[c], group |-> TRUE, sealed |-> TRUE]]
    /\ UNCHANGED <<entry, reg, wrote, newfile, vaults, op, before, exec, faults>>

\* An entry is given another owner or mode, not during a run.
Spoil(e) ==
    /\ op = NoTool /\ exec = None /\ entry[e] = "ok" /\ Fault
    /\ \E row \in Rows(e) \ {"missing", "ok"} : entry' = [entry EXCEPT ![e] = row]
    /\ UNCHANGED <<reg, logs, newfile, vaults, op, before, exec>>

\* The tool is over, having said how.
Exit ==
    /\ op.at = "exit"
    /\ op' = NoTool /\ before' = None
    /\ UNCHANGED <<entry, reg, logs, newfile, vaults, exec, faults>>

Kill ==
    /\ op # NoTool /\ op.at # "exit" /\ faults < MaxFaults
    /\ faults' = faults + 1
    /\ op' = NoTool /\ before' = None
    /\ UNCHANGED <<entry, reg, logs, newfile, vaults, exec>>

ToolStep ==
    \/ CreateEntry \/ FinishEntry \/ EntryFails \/ Rollback \/ EndApply
    \/ MigrateRegistry \/ SwapRegistry \/ RenameLog \/ UnmakeLogDir \/ EndLogs
    \/ \E c \in Clients : CopyLog(c) \/ SkipLog(c) \/ RefuseLog(c) \/ MakeLogDir(c) \/ CreateLog(c)
    \/ VerifyLog \/ Seal \/ SealFails \/ Unlog \/ MigrateFails
    \/ Install \/ InstallFails
    \/ Export \/ Delete \/ Book \/ Flip \/ BookkeepingFails
    \/ Exit

\* What --check and then the preflight tell the operator to do.
FollowUp ==
    \/ \E e \in Entries : Repair(e)
    \/ HandRegistry
    \/ \E c \in Clients : MendLog(c)
    \/ Missing # {} /\ (\A e \in Entries \ Missing : entry[e] = "ok") /\ Apply
    \/ LayoutOk /\ (\E c \in Registered : slog[c] = None) /\ Bootstrap

Next ==
    \/ ToolStep \/ FollowUp \/ Apply \/ Migrate \/ Bootstrap
    \/ \E c \in Clients : Register(c) \/ Purge(c) \/ RunStarts(c) \/ Truncate(c)
    \/ RunRecords \/ Kill
    \/ \E e \in Entries : Spoil(e)

Spec == Init /\ [][Next]_vars

(***************************************************************************)
(* A tool that runs goes on; the operator, again and again, does what the   *)
(* checks say.                                                              *)
(***************************************************************************)
FairSpec == Spec /\ WF_vars(ToolStep) /\ WF_vars(RunRecords) /\ SF_vars(FollowUp)

-----------------------------------------------------------------------------
(* Properties                                                              *)

TypeOK ==
    /\ \A e \in Entries : entry[e] \in Rows(e)
    /\ reg.kind \in {"absent", "bare", "broken", "clients"} /\ reg.of \in [Clients -> Statuses]
    /\ (reg.kind = "absent" <=> entry["clients.json"] = "missing")
    /\ \A c \in Clients : slog[c] # None => slog[c].recs \in 0 .. wrote[c] /\ wrote[c] <= MaxRecords
    /\ (entry["log"] = "missing" => \A c \in Clients : slog[c] = None)
    /\ (entry["store"] = "missing" => Missing = Entries)
    /\ newfile \in BOOLEAN /\ exec \in Clients \cup {None}
    /\ (Running("register", "install") => newfile)

\* A refused --apply leaves every entry and the registry as it found them,
\* whichever call failed, or names what it leaves; one that is done leaves the
\* whole layout right; and what was there when it began it never changes.
ApplyIsWholeOrNothing ==
    op.tool = "apply" /\ before # None =>
        /\ \A e \in Entries : before.entry[e] # "missing" => entry[e] = before.entry[e]
        /\ op.at = "exit" =>
             IF op.code = 0 THEN LayoutOk
             ELSE op.noted \/ (entry = before.entry /\ reg = before.reg)

\* When the preflight has nothing to report, the log of every registered client
\* holds every record it was ever given: none was lost by a copy cut short, by
\* a second run of a tool, or while the log could be truncated.
RecordsKept ==
    Clean => \A c \in Registered : slog[c] # None /\ slog[c].recs = wrote[c]

\* A run that the preflight let through can record what it has changed, whatever
\* tool runs, fails or is killed in between.
RunCanRecord == exec # None => Appendable(exec) /\ slog[exec].sealed

\* No tool, failing or killed, makes the registry forget a client, or leaves one
\* that does not parse where there was one.
RegistryKept ==
    [][(reg.kind = "clients") =>
        (reg'.kind = "clients" /\ Registered \subseteq Registered')]_vars

\* A vault is whole or its export is.
PurgeKeepsACopy == \A c \in Clients : vault[c] = "whole" \/ export[c] = "whole"

\* What a tool's exit status says is so: after a bootstrap every registered
\* client has a log, after a migration every log of the vaults is in the store,
\* after a purge the vault is gone and the books say so, and code 3 is given
\* only where the deletion cannot be taken back.
ExitIsTrue ==
    op.at = "exit" =>
        /\ op.tool = "bootstrap" /\ op.code = 0 => \A c \in Registered : slog[c] # None
        /\ op.tool = "migrate" /\ op.code = 0 => \A c \in Clients : vlog[c] # None => slog[c] # None
        /\ op.tool = "purge" /\ op.code = 0 =>
             vault[op.c] = "gone" /\ op.c \in deletions /\ reg.of[op.c] = "offboarded"
        /\ op.code = 3 => vault[op.c] = "gone" /\ export[op.c] = "whole"

\* Every tool leaves what its exit status says, or says what it left.
ToolsAreHonest == TypeOK /\ ApplyIsWholeOrNothing /\ ExitIsTrue

\* No record is lost: not those of before, and not that of a run let through.
HistoryKept == RecordsKept /\ RunCanRecord

\* Whatever was interrupted, doing what the checks say brings the store to where
\* both pass, with a log for every registered client.
StoreComesUp == []<>(LayoutOk /\ Clean)

=============================================================================
