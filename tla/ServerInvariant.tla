-------------------------- MODULE ServerInvariant --------------------------
(***************************************************************************)
(* The inductive invariant of AppServer: where a line is between being     *)
(* read and being answered, and who holds what on the way.                 *)
(***************************************************************************)
EXTENDS AppServer

\* The types, for any number of lines.
TypesOK ==
    /\ kind \in [Line -> Kinds]
    /\ next \in 1 .. Lines + 1
    /\ loop \in LoopStates
    /\ saying \in Replies \cup {None}
    /\ thread \in [Line -> ThreadStates]
    /\ reply \in [Line -> Replies \cup {None}]
    /\ slots \in 0 .. MaxWaiting
    /\ out \in Seq(Replies)
    /\ filed \subseteq Line /\ results \subseteq filed
    /\ lock \in 0 .. Lines \cup {None}
    /\ closed \in BOOLEAN /\ hung \in BOOLEAN /\ torn \in BOOLEAN

\* A line that has not been read has no thread; only a call has one.
ThreadsOK ==
    \A i \in Line : thread[i] # "none" => i < next /\ kind[i] = "call"

\* Whoever writes holds the lock, and once the end of the input is noted nobody
\* writes any more.
LockOK ==
    /\ \A i \in Line : thread[i] = "writing" => lock = i
    /\ loop = "writing" => lock = 0
    /\ loop \in {"exiting", "exited"} => closed
    /\ closed => \A i \in Line : thread[i] # "writing"

\* A request is filed by its thread and by nobody else.
FiledOK ==
    \A i \in Line :
        /\ thread[i] \in {"none", "filing"} => i \notin filed
        /\ thread[i] = "waiting" => i \in filed

\* What a thread is about to say is about its own line, and true.
ReplyOK ==
    \A i \in Line : thread[i] \in {"replying", "writing"} =>
        /\ reply[i] \in Replies /\ reply[i].line = i
        /\ reply[i].says \in {"error", "pending", "result"}
        /\ reply[i].says = "pending" => i \in filed
        /\ reply[i].says = "result" => i \in results
        /\ reply[i].says = "error" => i \notin filed

\* What the loop is about to say is about a line that has no thread.
SayingOK ==
    loop \in {"replying", "writing"} =>
        /\ saying \in Replies
        /\ saying.line < next /\ thread[saying.line] = "none"
        /\ \/ saying.says = "answer" /\ kind[saying.line] = "ping"
           \/ saying.says = "full" /\ kind[saying.line] = "call"
        /\ \A n \in DOMAIN out : out[n].line # saying.line

\* What has been said is about a line that was read and has no thread that is
\* still to answer it.
OutOK ==
    \A n \in DOMAIN out :
        /\ out[n].line < next
        /\ thread[out[n].line] \in {"none", "releasing", "over", "dead"}

ServerIndInv ==
    /\ TypesOK /\ ThreadsOK /\ LockOK /\ FiledOK /\ ReplyOK /\ SayingOK /\ OutOK
    /\ SlotsAddUp /\ RepliesAreTrue /\ NoHalfLine
=============================================================================
