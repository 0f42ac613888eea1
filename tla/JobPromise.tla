----------------------------- MODULE JobPromise -----------------------------
(***************************************************************************)
(* What the chat-trigger rail promises about one request id, with no       *)
(* directory, ledger or process in it: a request is booked, its command is *)
(* started at most once and only while it is unanswered, and it gets one   *)
(* answer, which is true of what happened.                                 *)
(***************************************************************************)
CONSTANTS Rids,         \* request ids
          Refusals,     \* answers of the broker's admission
          None

VARIABLES stage,        \* "new", "booked", "turned away" or "worked"
          answer        \* the result on the spool, or None

promiseVars == <<stage, answer>>

PromiseInit ==
    /\ stage = [r \in Rids |-> "new"]
    /\ answer = [r \in Rids |-> None]

\* The command is turned away when the box's one lock is taken.
Moves == {<<"new", "booked">>, <<"booked", "turned away">>, <<"booked", "worked">>}

Progress(r) ==
    /\ answer[r] = None
    /\ <<stage[r], stage'[r]>> \in Moves
    /\ stage' = [stage EXCEPT ![r] = stage'[r]]
    /\ UNCHANGED answer

\* What an answer says about the id it is given to.
Truth(r, a) ==
    CASE a \in Refusals -> stage[r] = "new"
      [] a = "ok" -> stage[r] = "worked"
      [] a = "busy" -> stage[r] = "turned away"
      [] a = "timeout" -> stage[r] \in {"turned away", "worked"}
      [] a \in {"internal", "interrupted"} -> stage[r] # "new"
      [] OTHER -> FALSE

\* One answer; an id whose job could not even be written is the one that can
\* be told "interrupted" after "internal".
Answer(r) ==
    LET a == answer'[r] IN
    /\ \/ answer[r] = None /\ a # None
       \/ answer[r] = "internal" /\ a = "interrupted" /\ stage[r] = "booked"
    /\ Truth(r, a)
    /\ answer' = [answer EXCEPT ![r] = a]
    /\ UNCHANGED stage

PromiseNext == \E r \in Rids : Progress(r) \/ Answer(r)

PromiseSpec == PromiseInit /\ [][PromiseNext]_promiseVars
=============================================================================
