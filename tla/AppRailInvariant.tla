-------------------------- MODULE AppRailInvariant --------------------------
(***************************************************************************)
(* The inductive invariant of AppRail: what the broker knows about the id  *)
(* it has in hand, what the three trays say of an id, and which holds of   *)
(* the ledger stand for work.                                              *)
(***************************************************************************)
EXTENDS AppRail

\* The broker is between two ids, or has one in hand.
Between == {"sleep", "recover", "drain", "collect"}

\* The broker is in the middle of answering for this task.
Answering(t) == task = t /\ pc \in {"answer", "record"}

\* The types of what is in hand, and that an id in hand is not to be taken up
\* again from the same listing.
HandOK ==
    /\ pc \in Between <=> cur = None
    /\ cur \notin todo
    /\ pc = "sleep" => todo = {}
    /\ pc = "look" => task = "recover"
    /\ pc # "look" => looked = 0
    /\ pc \in {"reserve", "job"} => task = "admit" /\ who \in Clients
    /\ pc \in {"answer", "record"} => task \in Tasks /\ verdict \in Answers
    /\ pc = "close" => task = "collect"

\* Of the ids still to be taken up, the index of the pass says what the ledger
\* says; recovery goes over open ids, collection over done files.
IndexOK ==
    /\ \A r \in todo : /\ r \in idx.seen <=> r \in ledger.seen
                       /\ r \in idx.open <=> r \in ledger.open
    /\ (pc \in {"recover", "look"} \/ Answering("recover")) => todo \subseteq ledger.open
    /\ (pc \in {"collect", "close", "undone"} \/ Answering("collect")) =>
          \A r \in todo : done[r] # None

\* No tray has anything of the id.
NoTray(r) == r \notin jobs /\ r \notin running /\ done[r] = None

\* What a command's end says of its start.
Says(r, kind) ==
    /\ kind = "ok" => r \in worked
    /\ kind = "busy" => starts[r] = 1 /\ r \notin worked
    /\ kind = "timeout" => starts[r] = 1

\* A job in the queue is open, unanswered and was never started; whatever left a
\* trace in the trays is in the ledger.
TrayOK ==
    \A r \in Rids :
        /\ r \in jobs => /\ r \in ledger.open /\ r \notin running /\ done[r] = None
                         /\ starts[r] = 0 /\ results[r] = None
        /\ (r \in running \/ done[r] # None \/ starts[r] # 0) => r \in ledger.seen
        /\ done[r] # None => Says(r, done[r])
        /\ starts[r] <= 1
        /\ r \in worked => starts[r] = 1

\* What the runner has in hand is in running/ and, until it is reported, open,
\* unanswered and without a done file.
RunnerOK ==
    /\ rpc \in {"off", "leftovers", "queue"} <=> rcur = None
    /\ rcur # None => rcur \in running
    /\ rpc \in {"taken", "working", "busy", "finished"} =>
          rcur \in ledger.open /\ done[rcur] = None /\ results[rcur] = None
    /\ rpc = "taken" => starts[rcur] = 0
    /\ rpc \in {"working", "busy"} => starts[rcur] = 1
    /\ rpc = "working" => rcur \in worked
    /\ rpc = "busy" => rcur \notin worked
    /\ rpc = "finished" => outcome \in DoneKinds /\ Says(rcur, outcome)

\* An answer to an id that is still open is what its done file says, or it is
\* the answer to one that has no job and will not have one.
ResultOK ==
    \A r \in ledger.open : results[r] # None =>
        \/ /\ NoTray(r)
           /\ \/ results[r] = "interrupted"
              \/ results[r] = "internal" /\ starts[r] = 0
        \/ done[r] # None /\ results[r] = MapDone(done[r])

\* What holds of the id the broker has in hand.
CurOK ==
    /\ pc = "reserve" => cur \notin ledger.seen /\ results[cur] = None
    /\ (pc = "job" \/ (pc = "answer" /\ task = "admit")) =>
          /\ cur \in ledger.open /\ NoTray(cur)
          /\ starts[cur] = 0 /\ results[cur] = None
    /\ pc = "look" => /\ cur \in ledger.open
                      /\ looked > 0 => cur \notin jobs
                      /\ looked > 1 => cur \notin running
    /\ (pc = "answer" /\ task = "refuse") => results[cur] = None /\ verdict \in Refusals
    /\ (pc = "answer" /\ task = "admit") => verdict = "internal"
    /\ (pc = "answer" /\ task = "recover") => verdict = "interrupted"
    /\ pc = "record" => results[cur] = verdict
    /\ Answering("refuse") => cur \notin ledger.seen
    /\ (pc = "record" /\ task = "admit") => cur \in ledger.open /\ NoTray(cur)
    /\ Answering("recover") => cur \in ledger.open /\ NoTray(cur)
    /\ Answering("collect") => /\ cur \in ledger.open
                               /\ done[cur] # None /\ verdict = MapDone(done[cur])
    /\ pc = "close" => cur \in ledger.seen \ ledger.open /\ results[cur] = verdict
    /\ pc = "undone" => cur \notin ledger.open

\* Ids of whose hold some work may come, or has come.
Backed == jobs \cup running \cup worked \cup (IF pc = "job" THEN {cur} ELSE {})

\* The holds of a day behind which there is work.
Bill(d) == {h \in ledger.held : h.rid \in Backed /\ h.day = d}
ClientBill(d, c) == {h \in Bill(d) : h.client = c}

\* Every open id and all work has a hold; holds behind which there is work are
\* in the index the quotas are counted from, and within them.
BillOK ==
    /\ \A l \in {ledger, idx} : IsFiniteSet(l.held) /\ \A h \in l.held : h.day <= today
    /\ \A h \in ledger.held : /\ h.rid \in ledger.seen
                              /\ h.rid \in Backed => h \in idx.held
    /\ \A r \in ledger.open \cup worked : \E h \in ledger.held : h.rid = r
    /\ pc = "reserve" => ~OverQuota(idx, today, who)
    /\ \A d \in 1 .. MaxDay :
          /\ Cardinality(Bill(d)) <= PerBoxDay
          /\ \A c \in Clients : Cardinality(ClientBill(d, c)) <= PerClientDay

AppInv ==
    /\ TypeOK /\ HandOK /\ IndexOK /\ TrayOK /\ RunnerOK /\ ResultOK /\ CurOK
    /\ BillOK /\ ClosedIsAnswered
=============================================================================
