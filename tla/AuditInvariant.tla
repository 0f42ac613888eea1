--------------------------- MODULE AuditInvariant ---------------------------
(***************************************************************************)
(* The inductive invariant of ClientAudit: what the lock protects while a  *)
(* run works, and what is left when it does not.                           *)
(***************************************************************************)
EXTENDS ClientAudit

\* Where a run is before and while it works through its plan.
Early == {"idle", "locking", "resetting"}
InBody == {"ready", "working", "removing"}

\* Where it holds the lock: from taking it to giving it back.
Holding == InBody \cup {"resetting", "finally", "cleaning", "stopping", "unmasking", "unlocking"}

LockOK == \A r \in Runs : pc[r] \in Holding <=> lock = r

Reports == {"audit", "figures"}

\* What a run has told is what became of it, and only a probe goes on after a
\* step of it has failed.
RunIs(r) ==
    /\ mode[r] = None => pc[r] \in {"idle", "over"} /\ verdict[r] = None /\ step[r] = 1
    /\ mode[r] \in Reports <=> client[r] # None
    /\ pc[r] = "idle" => mode[r] = None
    /\ pc[r] = "cleaning" => mode[r] = "audit"
    /\ pc[r] \in Early => step[r] = 1
    /\ pc[r] \in {"working", "removing"} => step[r] <= Len(Plan(mode[r]))
    /\ pc[r] \in Early \cup InBody =>
         verdict[r] = None \/ (verdict[r] = "failed" /\ mode[r] \in Probes)
    /\ pc[r] # "over" => answer[r] = None
    /\ verdict[r] = "ok" => step[r] = Len(Plan(mode[r])) + 1
    /\ answer[r] = "ok" => verdict[r] = "ok"

RunOK == \A r \in Runs : RunIs(r)

\* A run stores in its last step only, and what it stores is its own.
KeptIs(r) ==
    /\ vault[r].upto > 0 =>
         mode[r] = "audit" /\ step[r] >= 6 /\ vault[r].by = {r} /\ ~vault[r].names
    /\ mode[r] = "audit" /\ step[r] = 6 /\ pc[r] = "ready" => vault[r].upto = 0
    /\ mode[r] = "audit" /\ step[r] = 7 => vault[r].upto = 4
    /\ archive[r] # None => mode[r] = "figures" /\ step[r] >= 3 /\ archive[r].by = {r}
    /\ mode[r] = "figures" /\ step[r] = 3 /\ pc[r] = "ready" => archive[r] = None
    /\ mode[r] = "figures" /\ step[r] = 4 => archive[r] # None /\ archive[r].file = "name"
    /\ archive[r] # None /\ archive[r].file = "name" => archive[r].whole
    /\ verdict[r] \in (Steps \ {"vault-write", "store"}) \cup {"isolation"} =>
         vault[r].upto = 0 /\ archive[r] = None

KeptOK == \A r \in Runs : KeptIs(r)

Heard(r) == answer[r] \notin {"refused", "busy", "shown"}

\* What is in a client's directories was put there by a run that got the lock.
TouchedOK ==
    \A r \in Runs, c \in Clients :
        r \in data[c].by \cup reports[c].by => pc[r] \notin Early /\ Heard(r)

\* A container outlives only a run that no longer works, and is noted.
OrphanOK ==
    \A r \in Runs : orphan[r] # None =>
        /\ pc[r] \notin Early \cup InBody /\ Heard(r)
        /\ mode[r] \in Reports /\ client[r] \in excused

\* While a run works the directories are its own: no other run's container can
\* write what it reads.
OwnIs(r) ==
    /\ data[client[r]].by \subseteq {r} /\ reports[client[r]].by \subseteq {r}
    /\ \A q \in Runs : orphan[q] # None /\ client[q] = client[r] =>
         mode[r] = "figures" /\ orphan[q] = "draft"
    /\ mode[r] = "figures" /\ step[r] >= 3 => r \in reports[client[r]].by
    /\ mode[r] = "audit" /\ transient[client[r]] # None => transient[client[r]].by = {r}
    /\ Doing(r, "vault-write") =>
         transient[client[r]] # None /\ ~transient[client[r]].names

OwnOK == \A r \in Runs : pc[r] \in InBody /\ mode[r] \in Reports => OwnIs(r)

\* A proxy that was started stays up while its run works.
ProxyIs(r) ==
    /\ mode[r] = "audit" /\ step[r] >= 5 => proxy
    /\ mode[r] = "egress" /\ step[r] >= 2 /\ verdict[r] = None => proxy

ProxyOK == \A r \in Runs : pc[r] \in InBody => ProxyIs(r)

\* What is up, or there, and not excused will be cleaned by the run that holds
\* the lock.
RestOK ==
    /\ proxy /\ "proxy" \notin excused =>
         \E r \in Runs : /\ lock = r /\ mode[r] \in {"audit", "egress"}
                         /\ pc[r] \in InBody \cup {"finally", "cleaning", "stopping"}
    /\ \A c \in Clients : transient[c] # None /\ c \notin excused =>
         \E r \in Runs : /\ lock = r /\ mode[r] = "audit" /\ client[r] = c
                         /\ pc[r] \in InBody \cup {"finally", "cleaning"}

AuditInv ==
    /\ TypeOK /\ LockOK /\ RunOK /\ KeptOK
    /\ TouchedOK /\ OrphanOK /\ OwnOK /\ ProxyOK /\ RestOK

=============================================================================
