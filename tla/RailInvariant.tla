--------------------------- MODULE RailInvariant ---------------------------
(***************************************************************************)
(* The inductive invariant of MutationRail: what every action preserves,   *)
(* and from which the safety theorems of MutationRailProofs follow.        *)
(***************************************************************************)
EXTENDS MutationRail

\* Inside the client lock a broker has a parsed request in hand.
HandOK ==
    \A b \in Brokers :
        pc[b] \in Locked => /\ lock = b
                            /\ cur[b] \in Rids
                            /\ parsed[b][cur[b]] \in Cids

\* How far a run can have got at each of its states.
ProgressOK ==
    \A x \in Runs :
        /\ run[x].pc # "free" => run[x].cid \in Cids
        /\ run[x].pc \in {"free", "started", "loaded"} =>
              run[x].landed = 0 /\ run[x].logged = 0 /\ run[x].ticket = 0 /\ ~run[x].held
        /\ run[x].pc # "done" => ~run[x].unread
        /\ run[x].pc = "ready" =>
              run[x].landed = run[x].logged /\ run[x].logged < Actions
        /\ run[x].pc = "landed" =>
              run[x].landed = run[x].logged + 1 /\ run[x].logged < Actions

\* A run of the broker's stands for a burned id; an id about to be burned is
\* not burned yet, and one that is burned and not yet started has no run.
BurnOK ==
    /\ \A x \in BrokerRuns :
          run[x].pc # "free" => run[x].rid \in Rids /\ Burned(run[x].rid)
    /\ \A b \in Brokers :
          /\ pc[b] \in {"unseen", "accepted"} => ~Burned(cur[b])
          /\ pc[b] \in {"burned", "reserved"} =>
                /\ Burned(cur[b])
                /\ \A x \in BrokerRuns : run[x].pc # "free" => run[x].rid # cur[b]

\* Every approval has a number of its own, and none is from the future.
TicketOK ==
    /\ approving # None => tickets < MaxTickets
    /\ \A c \in Cids : approval[c] # None => approval[c].ticket <= tickets
    /\ \A c, d \in Cids :
          approval[c] # None /\ approval[d] # None
              /\ approval[c].ticket = approval[d].ticket => c = d
    /\ \A x \in Runs : run[x].ticket <= tickets

\* While the approval a run was let through with is in place, it still names
\* the request of that run.
HeldOK ==
    \A x \in Runs : run[x].held =>
        /\ run[x].ticket # 0 /\ run[x].rid # None
        /\ \A c \in Cids :
              approval[c] # None /\ approval[c].ticket = run[x].ticket
                  => approval[c].for = run[x].rid

\* A broker that was let through classify() still has room in its day.
QuotaOK ==
    \A b \in Brokers :
        pc[b] = "accepted" => Cardinality(AcceptedOn(now[b])) < DailyQuota

\* The inductive invariant: the parts above carry the three properties that
\* are to be proved, over crashes, replays, re-approvals and several brokers.
RailInv ==
    /\ TypeOK /\ HandOK /\ ProgressOK /\ BurnOK /\ TicketOK /\ HeldOK /\ QuotaOK
    /\ OneRunPerRequest /\ ReservedRunsShareRequest /\ DailyQuotaHolds
=============================================================================
