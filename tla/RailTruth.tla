----------------------------- MODULE RailTruth -----------------------------
(***************************************************************************)
(* What the answers of MutationRail rest on: an invariant beside RailInv   *)
(* that ties what a broker is about to write, and what stands in results/, *)
(* to what the runs did.                                                   *)
(***************************************************************************)
EXTENDS RailInvariant

\* The exit status of a run that is over says what it did.
ExitOK ==
    \A x \in Runs : run[x].pc = "done" =>
        /\ run[x].exit \in {1, 2} => ~KnownChange(x)
        /\ run[x].exit = 0 => KnownChange(x)

\* The run a broker waits for is that of the id in hand.
ChildOK ==
    \A b \in Brokers : pc[b] = "waiting" =>
        /\ child[b] \in BrokerRuns
        /\ run[child[b]].pc # "free" /\ run[child[b]].rid = cur[b]

\* What became of an id bears an answer out, for good.
Bears(r, class) ==
    /\ class = "refused_approval" => Burned(r) /\ RunsFor(r) = {}
    /\ class \in Denials => \E x \in RunsFor(r) : run[x].pc = "done" /\ ~KnownChange(x)
    /\ class \in MayHaveModified => RunsFor(r) # {}
    /\ class = "accepted_applied" => \E x \in RunsFor(r) : KnownChange(x)

\* What a broker is about to write is so, and writes over no report.
VerdictOK ==
    \A b \in Brokers :
        /\ pc[b] \in {"finish", "publish"} =>
              verdict[b] \in Denials \cup MayHaveModified /\ Bears(cur[b], verdict[b])
        /\ pc[b] = "answer" => verdict[b] \in Refusals /\ Bears(cur[b], verdict[b])
        /\ pc[b] \in Locked \ {"locked"} => results[cur[b]] \notin MayHaveModified

\* What stands in results/ is so, and no broker is on the way to making it wrong.
ResultsOK ==
    \A r \in Rids :
        /\ Bears(r, results[r])
        /\ results[r] = "refused_approval" =>
              \A b \in Brokers : pc[b] \in {"burned", "reserved"} => cur[b] # r

TruthInv == RailInv /\ ExitOK /\ ChildOK /\ VerdictOK /\ ResultsOK

\* Between the handler's look for a result and its write no report appears: so
\* it is with one broker.
RejectingOK ==
    \A b \in Brokers : pc[b] = "rejecting" => results[cur[b]] \notin MayHaveModified

-----------------------------------------------------------------------------
(***************************************************************************)
(* One broker, no failing system call, and a gateway that goes through     *)
(* hermes-syscall.py: what makes an answer final until the broker dies.    *)
(***************************************************************************)
\* Broker b is at work on r, whose id is burned or about to be answered.
AtWorkOn(b, r) ==
    cur[b] = r /\ pc[b] \in {"burned", "reserved", "waiting", "finish", "publish", "answer"}

\* An id that was answered is out of the spool but for the entry b is about to
\* discard; one that was burned is answered, or b is at work on it.
Settled(b, r) ==
    /\ requests[r] \in Cids \cup {None}
    /\ requests[r] # None \/ results[r] # None => r \in filed
    /\ results[r] # None => requests[r] = None \/ (pc[b] = "discard" /\ cur[b] = r)
    /\ r \in names[b] \/ parsed[b][r] # None => requests[r] # None
    /\ Burned(r) => results[r] # None \/ AtWorkOn(b, r)
    /\ results[r] \notin {"refused_request", "refused_replay", "failed_unknown_exit"}
    /\ results[r] = "refused_quota" => ~Burned(r)

\* The drain rejects nothing, replays nothing, and has one answer to give.
Straight(b) ==
    /\ pc[b] \notin {"except", "rejecting"}
    /\ rejected[b] = {}
    /\ pc[b] # "parse" => names[b] = {}
    /\ pc[b] = "answer" => verdict[b] \in {"refused_quota", "refused_approval"}
    /\ pc[b] = "answer" /\ verdict[b] = "refused_quota" => ~Burned(cur[b])
    /\ pc[b] \in {"finish", "publish"} => verdict[b] # "failed_unknown_exit"

SettledOK ==
    crashes = 0 =>
        \A b \in Brokers : Straight(b) /\ \A r \in Rids : Settled(b, r)
=============================================================================
