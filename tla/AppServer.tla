----------------------------- MODULE AppServer -----------------------------
(***************************************************************************)
(* The gateway's stdio server for one chat-triggered app,                  *)
(* bin/hermes-app-mcp.py.  One loop reads the input line by line and       *)
(* answers at once; a run or list call gets one of MaxWaiting slots and a  *)
(* thread of its own, which files a request in the spool and polls for the *)
(* broker's result.  One lock keeps replies whole.  When the input ends    *)
(* the process exits, whatever its threads are doing.                      *)
(*                                                                         *)
(* A line is its position; its kind is what serve() tells apart.  A reply  *)
(* is the line it answers and what it says.                                *)
(***************************************************************************)
EXTENDS Naturals, Sequences, FiniteSets

CONSTANTS
    Lines,          \* how many lines the client sends at most
    MaxWaiting,     \* slots for waiting calls
    None

ASSUME ServerAssumption == Lines \in Nat /\ MaxWaiting \in Nat \ {0}
ASSUME NoneAssumption == None \notin 0 .. Lines

VARIABLES
    kind,       \* what each line is
    next,       \* the line the loop reads next
    loop,       \* where the loop is
    saying,     \* the reply the loop holds, or None
    thread,     \* line -> where the thread of that call is
    reply,      \* line -> what the thread of that call is about to say
    slots,      \* free slots
    lock,       \* who is writing: a line's thread, 0 for the loop, or None
    closed,     \* the list that is non-empty once the input has ended
    filed,      \* lines whose request is in requests/
    results,    \* lines whose result the broker has published
    out,        \* replies written whole, in order
    hung,       \* the client has closed its end of stdout
    torn        \* the process exited in the middle of a write

vars == <<kind, next, loop, saying, thread, reply, slots, lock, closed, filed,
          results, out, hung, torn>>

Line == 1 .. Lines

\* A ping stands for every request that is answered at once.
Kinds == {"ping", "call", "notification"}

Says == {"answer", "full", "error", "pending", "result"}

ThreadStates == {"none", "filing", "waiting", "replying", "writing",
                 "releasing", "over", "dead"}

LoopStates == {"reading", "replying", "writing", "closing", "exiting", "exited"}

Replies == [line : Line, says : Says]

Holding == {i \in Line : thread[i] \notin {"none", "over", "dead"}}

Init ==
    /\ kind \in [Line -> Kinds]
    /\ next = 1
    /\ loop = "reading"
    /\ saying = None
    /\ thread = [i \in Line |-> "none"]
    /\ reply = [i \in Line |-> None]
    /\ slots = MaxWaiting
    /\ lock = None
    /\ closed = FALSE
    /\ filed = {}
    /\ results = {}
    /\ out = <<>>
    /\ hung = FALSE
    /\ torn = FALSE

Goto(i, state) == thread' = [thread EXCEPT ![i] = state]

-----------------------------------------------------------------------------
(* The loop of serve().                                                    *)

\* Mutant: a call is handled by the loop, which reads nothing before it ends.
ReadLineAlone ==
    /\ loop = "reading" /\ next <= Lines /\ kind[next] # "call"
    /\ Holding = {}
    /\ next' = next + 1
    /\ \/ /\ kind[next] = "notification"
          /\ UNCHANGED <<loop, saying>>
       \/ /\ kind[next] = "ping"
          /\ saying' = [line |-> next, says |-> "answer"]
          /\ loop' = "replying"
    /\ UNCHANGED <<kind, thread, reply, slots, lock, closed, filed, results, out, hung, torn>>

\* The next line is not a waiting call: a reply at once, or none.
ReadLine ==
    /\ loop = "reading" /\ next <= Lines /\ kind[next] # "call"
    /\ next' = next + 1
    /\ \/ /\ kind[next] = "notification"
          /\ UNCHANGED <<loop, saying>>
       \/ /\ kind[next] = "ping"
          /\ saying' = [line |-> next, says |-> "answer"]
          /\ loop' = "replying"
    /\ UNCHANGED <<kind, thread, reply, slots, lock, closed, filed, results, out, hung, torn>>

\* started(): a slot, then a thread.
StartCall ==
    /\ loop = "reading" /\ next <= Lines /\ kind[next] = "call"
    /\ slots > 0
    /\ slots' = slots - 1
    /\ Goto(next, "filing")
    /\ next' = next + 1
    /\ UNCHANGED <<kind, loop, saying, reply, lock, closed, filed, results, out, hung, torn>>

\* Mutant: a slot whose thread cannot be started is not returned.
CannotStartKeepsSlot ==
    /\ loop = "reading" /\ next <= Lines /\ kind[next] = "call"
    /\ slots' \in {slots, 0}
    /\ saying' = [line |-> next, says |-> "full"]
    /\ loop' = "replying"
    /\ next' = next + 1
    /\ UNCHANGED <<kind, thread, reply, lock, closed, filed, results, out, hung, torn>>

\* started() is False: no slot, or the system has no thread to give and the
\* slot goes back.
CannotStart ==
    /\ loop = "reading" /\ next <= Lines /\ kind[next] = "call"
    /\ saying' = [line |-> next, says |-> "full"]
    /\ loop' = "replying"
    /\ next' = next + 1
    /\ UNCHANGED <<kind, thread, reply, slots, lock, closed, filed, results, out, hung, torn>>

\* emit() of the loop: take the lock, write, release it.  closed is empty as
\* long as the loop reads.
LoopTakesLock ==
    /\ loop = "replying" /\ lock = None
    /\ lock' = 0
    /\ loop' = "writing"
    /\ UNCHANGED <<kind, next, saying, thread, reply, slots, closed, filed, results, out, hung, torn>>

\* A write to a client that hung up fails or goes to /dev/null.
Written(r) == out' = IF hung THEN out ELSE Append(out, r)

LoopWrites ==
    /\ loop = "writing"
    /\ Written(saying)
    /\ lock' = None
    /\ saying' = None
    /\ loop' = "reading"
    /\ UNCHANGED <<kind, next, thread, reply, slots, closed, filed, results, hung, torn>>

\* The input ends, or reading it raises.
EndInput ==
    /\ loop = "reading"
    /\ loop' = "closing"
    /\ UNCHANGED <<kind, next, saying, thread, reply, slots, lock, closed, filed, results, out, hung, torn>>

\* Mutant: the end of the input is noted without the lock.
CloseUnlocked ==
    /\ loop = "closing"
    /\ closed' = TRUE
    /\ loop' = "exiting"
    /\ UNCHANGED <<kind, next, saying, thread, reply, slots, lock, filed, results, out, hung, torn>>

\* The finally clause: wait out a reply being written and let none start.
Close ==
    /\ loop = "closing" /\ lock = None
    /\ closed' = TRUE
    /\ loop' = "exiting"
    /\ UNCHANGED <<kind, next, saying, thread, reply, slots, lock, filed, results, out, hung, torn>>

\* Daemon threads end with the process, wherever they are.
Exit ==
    /\ loop = "exiting"
    /\ loop' = "exited"
    /\ torn' = (\E i \in Line : thread[i] = "writing")
    /\ thread' = [i \in Line |-> IF i \in Holding THEN "dead" ELSE thread[i]]
    /\ UNCHANGED <<kind, next, saying, reply, slots, lock, closed, filed, results, out, hung>>

-----------------------------------------------------------------------------
(* The thread of a waiting call.                                           *)

Reply(i, says) ==
    /\ reply' = [reply EXCEPT ![i] = [line |-> i, says |-> says]]
    /\ Goto(i, "replying")

\* call(): file the request and wait; an argument that is no slug, or a write
\* that raises, is an error reply and leaves no request.
FileRequest(i) ==
    /\ thread[i] = "filing"
    /\ \/ /\ filed' = filed \cup {i}
          /\ Goto(i, "waiting")
          /\ UNCHANGED reply
       \/ /\ Reply(i, "error")
          /\ UNCHANGED filed
    /\ UNCHANGED <<kind, next, loop, saying, slots, lock, closed, results, out, hung, torn>>

\* _wait(): the result, looked for before the clock.
SeeResult(i) ==
    /\ thread[i] = "waiting" /\ i \in results
    /\ Reply(i, "result")
    /\ UNCHANGED <<kind, next, loop, saying, slots, lock, closed, filed, results, out, hung, torn>>

PassDeadline(i) ==
    /\ thread[i] = "waiting" /\ i \notin results
    /\ Reply(i, "pending")
    /\ UNCHANGED <<kind, next, loop, saying, slots, lock, closed, filed, results, out, hung, torn>>

\* emit() of a thread: under the lock, nothing once the input has ended.
TakeLock(i) ==
    /\ thread[i] = "replying" /\ lock = None
    /\ \/ /\ closed
          /\ Goto(i, "releasing")
          /\ UNCHANGED lock
       \/ /\ ~closed
          /\ Goto(i, "writing")
          /\ lock' = i
    /\ UNCHANGED <<kind, next, loop, saying, reply, slots, closed, filed, results, out, hung, torn>>

Write(i) ==
    /\ thread[i] = "writing"
    /\ Written(reply[i])
    /\ lock' = None
    /\ Goto(i, "releasing")
    /\ UNCHANGED <<kind, next, loop, saying, reply, slots, closed, filed, results, hung, torn>>

\* The finally clause of waited().
Release(i) ==
    /\ thread[i] = "releasing"
    /\ slots' = slots + 1
    /\ Goto(i, "over")
    /\ UNCHANGED <<kind, next, loop, saying, reply, lock, closed, filed, results, out, hung, torn>>

-----------------------------------------------------------------------------
(* The broker, seen from the spool, and the client.                        *)

Publish(i) ==
    /\ i \in filed \ results
    /\ results' = results \cup {i}
    /\ UNCHANGED <<kind, next, loop, saying, thread, reply, slots, lock, closed, filed, out, hung, torn>>

HangUp ==
    /\ ~hung
    /\ hung' = TRUE
    /\ UNCHANGED <<kind, next, loop, saying, thread, reply, slots, lock, closed, filed, results, out, torn>>

\* Nothing runs after the exit but the broker.
Over ==
    /\ loop = "exited"
    /\ UNCHANGED vars

Loop == ReadLine \/ StartCall \/ CannotStart \/ LoopTakesLock \/ LoopWrites \/ Close \/ Exit

Working == loop # "exited"

Thread(i) == Working /\ (FileRequest(i) \/ SeeResult(i) \/ TakeLock(i) \/ Write(i) \/ Release(i))

GiveUp(i) == Working /\ PassDeadline(i)

Next ==
    \/ Loop \/ EndInput \/ HangUp \/ Over
    \/ \E i \in Line : Thread(i) \/ GiveUp(i) \/ Publish(i)

Spec == Init /\ [][Next]_vars

(***************************************************************************)
(* Weak fairness of the loop and of each thread's steps: the client reads  *)
(* what is written or hangs up, so a write ends.  The deadline of a        *)
(* waiting call is minutes away and not part of it, nor is the broker, nor *)
(* the end of the input.                                                   *)
(***************************************************************************)
FairSpec ==
    /\ Spec
    /\ WF_vars(Loop)
    /\ \A i \in Line : WF_vars(Thread(i))

-----------------------------------------------------------------------------
(* Properties                                                              *)

TypeOK ==
    /\ kind \in [Line -> Kinds]
    /\ next \in 1 .. Lines + 1
    /\ loop \in LoopStates
    /\ saying \in Replies \cup {None}
    /\ thread \in [Line -> ThreadStates]
    /\ reply \in [Line -> Replies \cup {None}]
    /\ slots \in 0 .. MaxWaiting
    /\ lock \in 0 .. Lines \cup {None}
    /\ closed \in BOOLEAN
    /\ filed \subseteq Line /\ results \subseteq filed
    /\ out \in Seq(Replies)
    /\ hung \in BOOLEAN /\ torn \in BOOLEAN

\* Every slot is free or held by one call that is still being handled, however
\* calls end: answered, refused, unable to write, abandoned by the client.
SlotsAddUp == Working => slots + Cardinality(Holding) = MaxWaiting

\* A line is answered at most once, a notification never; only a call that was
\* given a slot says "pending" or "result", and then its request is filed, and
\* a call that was turned away left none behind.
RepliesAreTrue ==
    /\ \A m, n \in DOMAIN out : out[m].line = out[n].line => m = n
    /\ \A n \in DOMAIN out : LET r == out[n] IN
         /\ kind[r.line] # "notification"
         /\ r.says = "answer" <=> kind[r.line] = "ping"
         /\ r.says = "pending" => r.line \in filed
         /\ r.says = "result" => r.line \in results
         /\ r.says \in {"full", "error"} => r.line \notin filed

\* The server's books: types, slots, and a reply that says what was done.
ServerInv == TypeOK /\ SlotsAddUp /\ RepliesAreTrue

\* The process never exits with half a line on its output: what is being
\* written when the input ends is waited for, and nothing is started after it.
NoHalfLine == ~torn

\* A ping is answered while calls wait, even if the broker never publishes a
\* result and no deadline passes, as long as the client reads and the input
\* goes on.
PingIsAnswered ==
    \A i \in Line :
        (next = i /\ loop = "reading" /\ kind[i] = "ping") ~>
            (\/ \E n \in DOMAIN out : out[n].line = i
             \/ hung \/ closed \/ loop = "closing")

\* If deadlines pass, every call that has a slot gives it back, or the process
\* ends, whatever the broker and the client do.
CallEnds ==
    (\A i \in Line : WF_vars(GiveUp(i))) =>
        \A i \in Line : thread[i] = "filing" ~> thread[i] \in {"over", "dead"}

\* Once the input has ended the process exits, without waiting for the calls.
EndsAtEOF == loop = "closing" ~> loop = "exited"

\* Nobody waits for somebody else's call: not the next line, not the slots, not
\* the end of the process.
NothingWaitsForACall == PingIsAnswered /\ CallEnds /\ EndsAtEOF

=============================================================================
