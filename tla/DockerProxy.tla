---------------------------- MODULE DockerProxy ----------------------------
(***************************************************************************)
(* bin/docker-create-proxy.py: the mutation broker's way to dockerd.  Each  *)
(* connection has a thread that reads one request after the other off a    *)
(* stream that arrives in pieces, decides on it, asks dockerd what its      *)
(* target is, forwards it and relays the reply.  An attach that dockerd     *)
(* upgrades turns the connection into a raw pipe; after any other answer    *)
(* to an attach, a refusal or a chunked reply the connection is closed.     *)
(*                                                                         *)
(* A stream is a sequence of parts: the head of a request is part 0, then   *)
(* its body.  What decide() looks at is in the kind of a request: whether   *)
(* the method and path are on the list and, for a create, whether image,    *)
(* entrypoint, command, binds, network and environment are the pinned ones. *)
(***************************************************************************)
EXTENDS Naturals, Sequences, SequencesExt

CONSTANTS
    Conns,          \* connections
    Mutator,        \* the id dockerd gives the container that is created
    Gateway,        \* a container that runs on the host and is no mutator
    MaxRequests,    \* requests sent in a behaviour
    MaxChunks,      \* chunks of a chunked reply, the last one not counted
    None

ASSUME ProxyAssumption ==
    /\ MaxRequests \in Nat /\ MaxChunks \in Nat
    /\ Mutator # Gateway /\ None \notin {Mutator, Gateway, "length", "chunked", "101"}

VARIABLES
    asked,          \* connection -> the requests its client has sent
    net,            \* connection -> parts on their way to the proxy
    hung,           \* connections whose client has closed its end
    pc,             \* connection -> where its thread is
    buf,            \* connection -> parts read and not yet used
    cur,            \* connection -> number of the request in hand, or 0
    approved,       \* connection -> numbers of the requests found allowed
    got,            \* connection -> parts dockerd has been sent
    reply,          \* connection -> dockerd's answer not yet relayed, or None
    out,            \* connection -> what the client has been sent
    container       \* what dockerd has

vars == <<asked, net, hung, pc, buf, cur, approved, got, reply, out, container>>

client == <<asked, net, hung>>
thread == <<pc, buf, cur, approved>>
docker == <<got, reply, container>>

\* "unreadable": a head that does not parse in one way only, a create without
\* a length, a length over MAX_BODY.  "unlisted": what decide() refuses.
\* "stdin" is no request but what follows an attach.
Requests ==
    [kind : {"ping", "list", "create", "unreadable", "unlisted", "stdin"}, target : {None}]
        \cup [kind : {"start", "wait", "attach"}, target : {Mutator}]
        \cup [kind : {"start"}, target : {Gateway}]

BodyLength(q) == IF q.kind \in {"create", "unlisted"} THEN 1 ELSE 0

Parts(n, q) == [p \in 1 .. BodyLength(q) + 1 |-> <<n, p - 1>>]

Asked(c, n) == asked[c][n]

\* The last part of request n of those asked, and the part after part p.
EndOf(asks, n) == <<n, IF n = 0 THEN 0 ELSE BodyLength(asks[n])>>
After(asks, p) == IF p = EndOf(asks, p[1]) THEN <<p[1] + 1, 0>> ELSE <<p[1], p[2] + 1>>

States == {"free", "head", "body", "lookup", "forward", "reply", "chunks", "raw", "closed"}

Sent == FoldFunction(LAMBDA s, n : n + Len(s), 0, asked)

Init ==
    /\ asked = [c \in Conns |-> <<>>]
    /\ net = [c \in Conns |-> <<>>]
    /\ hung = {}
    /\ pc = [c \in Conns |-> "free"]
    /\ buf = [c \in Conns |-> <<>>]
    /\ cur = [c \in Conns |-> 0]
    /\ approved = [c \in Conns |-> {}]
    /\ got = [c \in Conns |-> <<>>]
    /\ reply = [c \in Conns |-> None]
    /\ out = [c \in Conns |-> <<>>]
    /\ container = [i \in {Mutator, Gateway} |-> IF i = Gateway THEN "running" ELSE "none"]

Goto(c, state) == pc' = [pc EXCEPT ![c] = state]

Say(c, n, what) == out' = [out EXCEPT ![c] = Append(@, [to |-> n, what |-> what])]

Open(c) == pc[c] \notin {"free", "closed"}

\* dockerd closed its end of c in the middle of a reply; the thread keeps the
\* dead socket for what may follow.
Cut(c) == \E k \in DOMAIN out[c] : out[c][k].what = "cut"

-----------------------------------------------------------------------------
(* The client.                                                             *)

Send(c, q) ==
    /\ c \notin hung /\ pc[c] # "closed" /\ Sent < MaxRequests
    /\ q.kind = "stdin" => \E n \in DOMAIN asked[c] : Asked(c, n).kind = "attach"
    /\ asked' = [asked EXCEPT ![c] = Append(@, q)]
    /\ net' = [net EXCEPT ![c] = @ \o Parts(Len(asked'[c]), q)]
    /\ UNCHANGED <<hung, thread, docker, out>>

\* A client may go in the middle of a request: the last part never comes.
HangUp(c) ==
    /\ c \notin hung /\ asked[c] # <<>>
    /\ hung' = hung \cup {c}
    /\ \/ UNCHANGED net
       \/ net[c] # <<>> /\ net' = [net EXCEPT ![c] = Front(@)]
    /\ UNCHANGED <<asked, thread, docker, out>>

-----------------------------------------------------------------------------
(* The thread of a connection: _handle().                                  *)

\* Mutant: one connection after the other.
AcceptOne(c) ==
    /\ pc[c] = "free" /\ asked[c] # <<>>
    /\ \A d \in Conns : ~Open(d)
    /\ Goto(c, "head")
    /\ UNCHANGED <<client, buf, cur, approved, docker, out>>

\* serve(): a thread for every connection.
Accept(c) ==
    /\ pc[c] = "free" /\ asked[c] # <<>>
    /\ Goto(c, "head")
    /\ UNCHANGED <<client, buf, cur, approved, docker, out>>

\* Too little has been read to go on: no whole head, or a body that is short.
NeedsMore(c) ==
    \/ pc[c] = "head" /\ buf[c] = <<>>
    \/ pc[c] = "body" /\ Len(buf[c]) < BodyLength(Asked(c, cur[c]))

\* recv() gives any part of what is there.
Receive(c) ==
    /\ NeedsMore(c) /\ net[c] # <<>>
    /\ \E k \in 1 .. Len(net[c]) :
         /\ buf' = [buf EXCEPT ![c] = @ \o SubSeq(net[c], 1, k)]
         /\ net' = [net EXCEPT ![c] = SubSeq(@, k + 1, Len(@))]
    /\ UNCHANGED <<asked, hung, pc, cur, approved, docker, out>>

\* What the sockets and the thread still held is gone.
Close(c) ==
    /\ Goto(c, "closed")
    /\ buf' = [buf EXCEPT ![c] = <<>>]
    /\ net' = [net EXCEPT ![c] = <<>>]
    /\ UNCHANGED <<asked, hung, cur, approved, got, container>>
    /\ reply' = [reply EXCEPT ![c] = None]

EndOfStream(c) ==
    /\ NeedsMore(c) /\ net[c] = <<>> /\ c \in hung
    /\ Close(c)
    /\ UNCHANGED out

\* _refuse(): a 403, and the connection is not read any further.
Refuse(c, n) == Close(c) /\ Say(c, n, "refused")

\* _parse_head() raises, or the length is missing or too large.
RefuseHead(c) ==
    /\ pc[c] = "head" /\ buf[c] # <<>>
    /\ Asked(c, Head(buf[c])[1]).kind = "unreadable"
    /\ Refuse(c, Head(buf[c])[1])

ParseHead(c) ==
    /\ pc[c] = "head" /\ buf[c] # <<>>
    /\ Asked(c, Head(buf[c])[1]).kind # "unreadable"
    /\ cur' = [cur EXCEPT ![c] = Head(buf[c])[1]]
    /\ buf' = [buf EXCEPT ![c] = Tail(@)]
    /\ Goto(c, "body")
    /\ UNCHANGED <<client, approved, docker, out>>

\* The body is what the length says; what is left begins the next request.
Rest(c) == SubSeq(buf[c], BodyLength(Asked(c, cur[c])) + 1, Len(buf[c]))

Framed(c) == pc[c] = "body" /\ ~NeedsMore(c)

\* What decide() lets through.  A "stdin" that is read as a head does not parse.
Listed(q) == q.kind \notin {"unlisted", "stdin"}

DecideNot(c) ==
    /\ Framed(c) /\ ~Listed(Asked(c, cur[c]))
    /\ Refuse(c, cur[c])

\* Mutant: what was read past the body is dropped.
DecideDropsRest(c) ==
    /\ Framed(c) /\ Listed(Asked(c, cur[c]))
    /\ buf' = [buf EXCEPT ![c] = <<>>]
    /\ IF Asked(c, cur[c]).target # None
       THEN Goto(c, "lookup") /\ UNCHANGED approved
       ELSE Goto(c, "forward") /\ approved' = [approved EXCEPT ![c] = @ \cup {cur[c]}]
    /\ UNCHANGED <<client, cur, docker, out>>

Decide(c) ==
    /\ Framed(c) /\ Listed(Asked(c, cur[c]))
    /\ buf' = [buf EXCEPT ![c] = Rest(c)]
    /\ IF Asked(c, cur[c]).target # None
       THEN Goto(c, "lookup") /\ UNCHANGED approved
       ELSE Goto(c, "forward") /\ approved' = [approved EXCEPT ![c] = @ \cup {cur[c]}]
    /\ UNCHANGED <<client, cur, docker, out>>

\* dockerd has a container of this id with the pinned image and entrypoint.
MutatorShaped(i) == i = Mutator /\ container[i] \in {"created", "running"}

\* Mutant: a target is looked up once per connection.
LookupOnce(c) ==
    /\ pc[c] = "lookup"
    /\ \/ MutatorShaped(Asked(c, cur[c]).target)
       \/ \E n \in approved[c] : Asked(c, n).target # None
    /\ approved' = [approved EXCEPT ![c] = @ \cup {cur[c]}]
    /\ Goto(c, "forward")
    /\ UNCHANGED <<client, buf, cur, docker, out>>

\* lookup_target(), for every request, on a connection of its own.
Lookup(c) ==
    /\ pc[c] = "lookup"
    /\ MutatorShaped(Asked(c, cur[c]).target)
    /\ approved' = [approved EXCEPT ![c] = @ \cup {cur[c]}]
    /\ Goto(c, "forward")
    /\ UNCHANGED <<client, buf, cur, docker, out>>

\* Another container, none (404), or the lookup failed, whatever the target.
LookupNot(c) ==
    /\ pc[c] = "lookup"
    /\ Refuse(c, cur[c])

Forward(c) ==
    /\ pc[c] = "forward"
    /\ got' = [got EXCEPT ![c] = @ \o Parts(cur[c], Asked(c, cur[c]))]
    /\ Goto(c, "reply")
    /\ UNCHANGED <<client, buf, cur, approved, reply, container, out>>

\* Mutant: the two sockets are spliced after any reply about a container.
RelayThenSplice(c) ==
    /\ pc[c] = "reply" /\ reply[c] = "length"
    /\ Say(c, cur[c], "whole")
    /\ reply' = [reply EXCEPT ![c] = None]
    /\ Goto(c, IF Asked(c, cur[c]).target # None THEN "raw" ELSE "head")
    /\ UNCHANGED <<client, buf, cur, approved, got, container>>

\* A reply with a length is sent whole; nothing follows an attach.
Relay(c) ==
    /\ pc[c] = "reply" /\ reply[c] = "length"
    /\ Say(c, cur[c], "whole")
    /\ IF Asked(c, cur[c]).kind = "attach" THEN Close(c)
       ELSE /\ Goto(c, "head")
            /\ reply' = [reply EXCEPT ![c] = None]
            /\ UNCHANGED <<client, buf, cur, approved, got, container>>

\* dockerd closes in the middle of the body: what there is of the reply is sent
\* under the length of all of it, and the next request is read.
RelayCut(c) ==
    /\ pc[c] = "reply" /\ reply[c] = "length"
    /\ Say(c, cur[c], "cut")
    /\ IF Asked(c, cur[c]).kind = "attach" THEN Close(c)
       ELSE /\ Goto(c, "head")
            /\ reply' = [reply EXCEPT ![c] = None]
            /\ UNCHANGED <<client, buf, cur, approved, got, container>>

\* The next request that is allowed finds the socket closed, when it is sent
\* or when its reply is read.
UpstreamGone(c) ==
    /\ pc[c] \in {"forward", "reply"} /\ Cut(c)
    /\ Close(c)
    /\ UNCHANGED out

\* _relay_chunked(): the head, the chunks, the last chunk; then the connection
\* is closed.
RelayHead(c) ==
    /\ pc[c] = "reply" /\ reply[c] = "chunked"
    /\ Say(c, cur[c], "chunk")
    /\ Goto(c, "chunks")
    /\ UNCHANGED <<client, buf, cur, approved, docker>>

RelayChunk(c) ==
    /\ pc[c] = "chunks"
    /\ Len(SelectSeq(out[c], LAMBDA s : s.what = "chunk")) <= MaxChunks
    /\ Say(c, cur[c], "chunk")
    /\ UNCHANGED <<client, thread, docker>>

RelayLast(c) ==
    /\ pc[c] = "chunks"
    /\ Say(c, cur[c], "last")
    /\ Close(c)

\* Only an attach that dockerd answers with 101 becomes a raw pipe; what was
\* read past it is the start of the stream.
Upgrade(c) ==
    /\ pc[c] = "reply" /\ reply[c] = "101" /\ Asked(c, cur[c]).kind = "attach"
    /\ Say(c, cur[c], "101")
    /\ got' = [got EXCEPT ![c] = @ \o buf[c]]
    /\ buf' = [buf EXCEPT ![c] = <<>>]
    /\ reply' = [reply EXCEPT ![c] = None]
    /\ Goto(c, "raw")
    /\ UNCHANGED <<client, cur, approved, container>>

\* _pump_both(), towards dockerd.
Pump(c) ==
    /\ pc[c] = "raw" /\ net[c] # <<>>
    /\ got' = [got EXCEPT ![c] = @ \o net[c]]
    /\ net' = [net EXCEPT ![c] = <<>>]
    /\ UNCHANGED <<asked, hung, thread, reply, container, out>>

\* The pipe ends with the container's side of it.
PipeEnds(c) ==
    /\ pc[c] = "raw" /\ container[Asked(c, cur[c]).target] = "removed"
    /\ Close(c)
    /\ UNCHANGED out

\* A write to a client that has gone raises.  In a pipe there is something to
\* write only when the container runs: the end of the client's side ends one of
\* its two pumps, and the thread is in the other.
ClientGone(c) ==
    /\ c \in hung
    /\ \/ pc[c] = "reply" /\ reply[c] # None
       \/ pc[c] = "chunks"
       \/ pc[c] = "raw" /\ container[Asked(c, cur[c]).target] = "running"
    /\ Close(c)
    /\ UNCHANGED out

\* dockerd cannot be reached, closes the connection before the head of a reply is
\* there or between two chunks, or answers what the proxy does not relay: a
\* malformed or an excessive length.
UpstreamFails(c) ==
    /\ pc[c] \in {"forward", "reply", "chunks"}
    /\ Close(c)
    /\ UNCHANGED out

-----------------------------------------------------------------------------
(* dockerd, on the upstream connection of one thread.                      *)

Unanswered(c) == pc[c] = "reply" /\ reply[c] = None

Answers(c, what) == reply' = [reply EXCEPT ![c] = what]

\* What a request does to its container, and the answer.  A create gives the
\* one id there is; a wait is answered when the container has been removed.
Perform(c) ==
    /\ Unanswered(c) /\ ~Cut(c)
    /\ LET q == Asked(c, cur[c]) IN
       \/ /\ q.kind = "ping"
          /\ Answers(c, "length") /\ UNCHANGED container
       \/ /\ q.kind = "list"
          /\ Answers(c, "chunked") /\ UNCHANGED container
       \/ /\ q.kind = "create"
          /\ Answers(c, "length")
          /\ container' = [container EXCEPT ![Mutator] = IF @ = "none" THEN "created" ELSE @]
       \/ /\ q.kind = "start"
          /\ Answers(c, "length")
          /\ container' = [container EXCEPT ![q.target] =
                             IF @ = "removed" THEN @ ELSE "running"]
       \/ /\ q.kind = "wait" /\ container[q.target] = "removed"
          /\ Answers(c, "length") /\ UNCHANGED container
       \/ /\ q.kind = "attach"
          /\ \/ container[q.target] # "removed" /\ Answers(c, "101")
             \/ Answers(c, "length")
          /\ UNCHANGED container
    /\ UNCHANGED <<client, thread, got, out>>

\* The executor ends and its container is removed with it.
Exit ==
    /\ container[Mutator] = "running"
    /\ container' = [container EXCEPT ![Mutator] = "removed"]
    /\ UNCHANGED <<client, thread, got, reply, out>>

Handle(c) ==
    \/ Accept(c) \/ Receive(c) \/ EndOfStream(c) \/ RefuseHead(c) \/ ParseHead(c)
    \/ DecideNot(c) \/ Decide(c) \/ Lookup(c) \/ LookupNot(c) \/ Forward(c)
    \/ Relay(c) \/ UpstreamGone(c) \/ RelayHead(c) \/ RelayLast(c) \/ Upgrade(c) \/ Pump(c)
    \/ PipeEnds(c) \/ ClientGone(c)

Idle == (\A c \in Conns : pc[c] \in {"free", "closed"} \/ NeedsMore(c) \/ Unanswered(c)
                           \/ pc[c] = "raw") /\ UNCHANGED vars

Next ==
    \/ \E c \in Conns :
         \/ Handle(c) \/ RelayChunk(c) \/ RelayCut(c) \/ UpstreamFails(c)
         \/ Perform(c) \/ HangUp(c) \/ \E q \in Requests : Send(c, q)
    \/ Exit
    \/ Idle

Spec == Init /\ [][Next]_vars

(***************************************************************************)
(* A thread goes on when it can, dockerd answers what it can answer, and   *)
(* an executor that runs ends (its broker kills it at its timeout).        *)
(* Nothing makes a client send or hang up.                                 *)
(***************************************************************************)
FairSpec ==
    /\ Spec
    /\ \A c \in Conns : WF_vars(Handle(c)) /\ WF_vars(Perform(c))
    /\ WF_vars(Exit)

-----------------------------------------------------------------------------
(* Properties                                                              *)

TypeOK ==
    /\ asked \in [Conns -> Seq(Requests)]
    /\ hung \subseteq Conns
    /\ pc \in [Conns -> States]
    /\ \A c \in Conns :
         /\ cur[c] \in 0 .. Len(asked[c])
         /\ approved[c] \subseteq DOMAIN asked[c]
         /\ \A k \in DOMAIN out[c] : out[c][k].to \in DOMAIN asked[c]
    /\ reply \in [Conns -> {"length", "chunked", "101", None}]
    /\ \A c \in Conns : reply[c] # None => pc[c] \in {"reply", "chunks"}
    /\ container \in [{Mutator, Gateway} -> {"none", "created", "running", "removed"}]

\* dockerd reads requests where the client wrote them: what it is sent on a
\* connection is a beginning of what the client sent, in order, nothing twice,
\* nothing left out, however the stream is cut into pieces.
SameStream ==
    \A c \in Conns : \A k \in DOMAIN got[c] :
        /\ got[c][k][1] \in DOMAIN asked[c]
        /\ got[c][k] = After(asked[c], IF k = 1 THEN EndOf(asked[c], 0) ELSE got[c][k - 1])

UpgradedAt(c) == {n \in approved[c] : [to |-> n, what |-> "101"] \in ToSet(out[c])}

\* Every part dockerd is sent belongs to a request of this connection that was
\* found allowed, target included, unless an upgraded attach came before it.
OnlyApproved ==
    \A c \in Conns : \A k \in DOMAIN got[c] :
        \/ got[c][k][1] \in approved[c]
        \/ \E n \in UpgradedAt(c) : n < got[c][k][1]

\* After an attach there are two outcomes, upgraded or closed: no later
\* request of the connection is decided on.
AttachIsLast ==
    \A c \in Conns : \A n, k \in approved[c] :
        Asked(c, n).kind = "attach" => k <= n

\* The client can tell which reply belongs to which request: replies come in
\* the order of the requests, at most one each, every one but the last is
\* whole, and a request without a reply was cut off by the close.  One that
\* dockerd cut short is the exception: a refusal can follow it, which the client
\* reads as the rest of its body, but no other reply of dockerd ever does.
RepliesInOrder ==
    \A c \in Conns :
        /\ \A j, k \in DOMAIN out[c] : j < k =>
             \/ out[c][j].to < out[c][k].to /\ out[c][j].what = "whole"
             \/ out[c][j].to < out[c][k].to /\ out[c][j].what = "cut" /\ out[c][k].what = "refused"
             \/ out[c][j].to = out[c][k].to /\ out[c][j].what = "chunk"
        /\ \A k \in DOMAIN out[c] : \A n \in 1 .. out[c][k].to : \E j \in DOMAIN out[c] : out[c][j].to = n

\* dockerd reads the requests where the client wrote them, and the client the
\* replies where dockerd did, up to a reply that dockerd cuts short.
StreamInv == TypeOK /\ SameStream /\ AttachIsLast /\ RepliesInOrder

\* No request acts on a container that is not the mutator, even if it was
\* decided on before the container came or went.
GatewayUntouched ==
    \A c \in Conns : \A k \in DOMAIN got[c] :
        got[c][k][1] \in approved[c] => Asked(c, got[c][k][1]).target # Gateway

\* A wait that blocks one connection does not keep another from being read: if
\* a start has been sent there, it is dealt with.
WaitBlocksNobody ==
    \A d \in Conns :
        (net[d] # <<>> /\ \E c \in Conns \ {d} : Unanswered(c) /\ Asked(c, cur[c]).kind = "wait")
            ~> (net[d] = <<>> \/ Unanswered(d))

=============================================================================
