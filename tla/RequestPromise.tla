--------------------------- MODULE RequestPromise ---------------------------
(***************************************************************************)
(* What the mutation rail promises about one request id, with no broker,   *)
(* no lock, no store and no crash in it: an id is burned, then executed at *)
(* most once, and the answers that may replace each other are limited.     *)
(***************************************************************************)
CONSTANTS Rids,             \* request ids
          Verdicts,         \* classifications a broker decides itself
          Denials,          \* classifications of a run that touched nothing
          Reports,          \* classifications of a run that may have
          None

VARIABLES stage,            \* "fresh", "burned", "launched" or "touched"
          answer            \* the result on the spool, or None

promiseVars == <<stage, answer>>

PromiseTypeOK ==
    /\ stage \in [Rids -> {"fresh", "burned", "launched", "touched"}]
    /\ answer \in [Rids -> Verdicts \cup Denials \cup Reports \cup {None}]

PromiseInit ==
    /\ stage = [r \in Rids |-> "fresh"]
    /\ answer = [r \in Rids |-> None]

\* The id is recorded as accepted; this happens once.
Burn(r) ==
    /\ stage[r] = "fresh"
    /\ stage' = [stage EXCEPT ![r] = "burned"]
    /\ UNCHANGED answer

\* An executor is started for the id: once, and never after the broker said
\* that the approval could not be reserved.
Launch(r) ==
    /\ stage[r] = "burned"
    /\ answer[r] # "refused_approval"
    /\ stage' = [stage EXCEPT ![r] = "launched"]
    /\ UNCHANGED answer

\* The account changes for the id: never after a run was reported harmless.
Touch(r) ==
    /\ stage[r] = "launched"
    /\ answer[r] \notin Denials
    /\ stage' = [stage EXCEPT ![r] = "touched"]
    /\ UNCHANGED answer

\* A result is written: never over a report, and only if the id's stage
\* bears it out.
Answer(r, class) ==
    /\ answer[r] \notin Reports
    /\ class = "refused_approval" => stage[r] = "burned"
    /\ class \in Denials => stage[r] = "launched"
    /\ class \in Reports => stage[r] \in {"launched", "touched"}
    /\ class = "accepted_applied" => stage[r] = "touched"
    /\ answer' = [answer EXCEPT ![r] = class]
    /\ UNCHANGED stage

PromiseNext ==
    \E r \in Rids : \/ Burn(r) \/ Launch(r) \/ Touch(r)
                    \/ \E class \in Verdicts \cup Denials \cup Reports : Answer(r, class)

PromiseSpec == PromiseInit /\ [][PromiseNext]_promiseVars
=============================================================================
