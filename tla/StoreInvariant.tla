--------------------------- MODULE StoreInvariant ---------------------------
(***************************************************************************)
(* The inductive invariant of GovernanceStore: what each tool relies on at *)
(* each of its steps, and what the executor's run relies on beside it.     *)
(***************************************************************************)
EXTENDS GovernanceStore

ToolRecords == [tool : Tools \cup {None}, at : Steps \cup {None},
                todo : SUBSET (Entries \cup Clients), made : Seq(Entries),
                c : Clients \cup {None}, n : Nat, noted : BOOLEAN, code : 0 .. 3]

Typed ==
    /\ entry \in [Entries -> Rows("log")]
    /\ reg \in Registries
    /\ slog \in [Clients -> LogFiles \cup {None}]
    /\ wrote \in [Clients -> Nat]
    /\ newfile \in BOOLEAN
    /\ vreg \in {None} \cup {r \in Registries : r.kind = "clients"}
    /\ vlog \in [Clients -> VaultLogs \cup {None}]
    /\ vault \in [Clients -> {"whole", "part", "gone"}]
    /\ export \in [Clients -> {None, "part", "whole"}]
    /\ deletions \subseteq Clients
    /\ exec \in Clients \cup {None}
    /\ before \in Found \cup {None}

\* The tool that runs: what it is at, for which client, and what is left to do.
ToolTyped ==
    /\ op \in ToolRecords
    /\ op.tool = None => op = NoTool
    /\ op.tool = "apply" => op.at \in {"create", "finish", "rollback", "exit"}
    /\ op.tool = "migrate" =>
         op.at \in {"registry", "swap", "logs", "count", "seal", "unlog", "unmake", "exit"}
    /\ op.tool = "bootstrap" => op.at \in {"logs", "verify", "seal", "unlog", "exit"}
    /\ op.tool = "register" => op.at \in {"install", "exit"}
    /\ op.tool = "purge" => op.at \in {"export", "delete", "book", "flip", "exit"}
    /\ op.tool = "apply" => op.todo \subseteq Entries
    /\ op.tool # "apply" => op.todo \subseteq Clients /\ op.made = <<>> /\ before = None
    /\ op.tool = "migrate" => \A c \in op.todo : vlog[c] # None
    /\ op.at \in {"install", "export", "delete", "book", "flip", "count", "verify", "seal", "unlog"} =>
         op.c \in Clients

\* A store without its root has nothing, one without log/ has no log, and only a
\* registry with clients has any.
TreeOK ==
    /\ \A e \in Entries : entry[e] \in Rows(e)
    /\ reg.kind = "absent" <=> entry["clients.json"] = "missing"
    /\ reg.kind # "clients" => \A c \in Clients : reg.of[c] = "none"
    /\ entry["log"] = "missing" => \A c \in Clients : slog[c] = None
    /\ entry["store"] = "missing" => \A e \in Entries : entry[e] = "missing"

\* A sealed log has every record it was given.
LogsOK ==
    \A c \in Clients : slog[c] # None =>
        /\ slog[c].recs <= wrote[c] /\ wrote[c] <= MaxRecords
        /\ slog[c].sealed => slog[c].recs = wrote[c]

\* The executor's run can append to a sealed log, which has room.
ExecOK ==
    exec # None =>
        /\ Appendable(exec) /\ slog[exec].sealed
        /\ wrote[exec] < MaxRecords

Made(e) == \E i \in DOMAIN op.made : op.made[i] = e

\* What --apply found when it began is as it was, and what it made was missing.
FoundOK ==
    /\ \A e \in Entries : before.entry[e] \in {"missing", "ok"}
    /\ \A e \in Entries : before.entry[e] # "missing" => entry[e] = before.entry[e]
    /\ IF before.entry["clients.json"] = "missing" THEN before.reg = Registry("absent")
       ELSE reg = before.reg
    /\ \A e \in Entries : Made(e) => before.entry[e] = "missing"

\* It makes a registry without clients, and while no client has a log.
MadeOK ==
    /\ Made("clients.json") => reg.kind # "clients"
    /\ Made("store") \/ Made("log") => \A c \in Clients : slog[c] = None

\* What is there and was not is what it made, but for what it says it left; and
\* what it is to make is missing.
StageOK ==
    /\ op.at \in {"create", "finish", "rollback"} =>
         \A e \in Entries : entry[e] # "missing" /\ before.entry[e] = "missing" => op.noted \/ Made(e)
    /\ op.at = "create" => \A e \in Entries : entry[e] = IF e \in op.todo THEN "missing" ELSE "ok"
    /\ op.at = "finish" =>
         /\ op.todo # {} /\ Made(NextEntry) /\ entry[NextEntry] = "closed"
         /\ \A e \in Entries \ {NextEntry} : entry[e] = IF e \in op.todo THEN "missing" ELSE "ok"

ApplyOK ==
    op.tool = "apply" =>
        /\ op.at # "exit" => before # None
        /\ before # None => FoundOK /\ MadeOK /\ StageOK

\* A tool that makes logs has log/, and the log it is at is its own until the seal.
LogToolOK ==
    /\ op.tool = "migrate" /\ op.at # "exit" =>
         \A c \in Clients \ op.todo : vlog[c] # None => slog[c] # None
    /\ op.tool = "bootstrap" /\ op.at # "exit" =>
         /\ \A c \in Registered \ op.todo : slog[c] # None
         /\ LogDirOk
    /\ op.at = "swap" => vreg # None /\ reg.kind = "absent" /\ entry["store"] # "missing"
    /\ op.at = "unmake" => \A c \in Clients : slog[c] = None
    /\ op.at = "count" =>
         /\ slog[op.c] = None /\ vlog[op.c] # None
         /\ entry["log"] # "missing"
    /\ op.at \in {"verify", "seal", "unlog"} =>
         slog[op.c] # None /\ slog[op.c].recs = wrote[op.c]
    /\ op.at \in {"verify", "seal"} => ~slog[op.c].sealed

\* register-client adds to a registry that has clients and holds its new file;
\* what vault-purge has deleted has a whole export, and is registered.
BooksOK ==
    /\ op.at = "install" => newfile /\ reg.kind = "clients"
    /\ \A c \in Clients : vault[c] = "whole" \/ export[c] = "whole"
    /\ op.at \in {"export", "delete", "book", "flip"} => reg.of[op.c] # "none"
    /\ op.at \in {"delete", "book", "flip"} => export[op.c] = "whole"
    /\ op.at \in {"book", "flip"} => vault[op.c] = "gone"
    /\ op.at = "flip" => op.c \in deletions

StoreInv == Typed /\ ToolTyped /\ TreeOK /\ LogsOK /\ ExecOK /\ ApplyOK /\ LogToolOK /\ BooksOK
              /\ ExitIsTrue /\ ApplyIsWholeOrNothing

=============================================================================
