--------------------------- MODULE ProxyInvariant ---------------------------
(***************************************************************************)
(* The inductive invariant of DockerProxy: where in the client's stream    *)
(* each thread is, what it has read past it, and what that says of the     *)
(* parts sent to dockerd and the replies sent to the client.               *)
(***************************************************************************)
EXTENDS DockerProxy

Part == Nat \X Nat

Replies == [to : Nat, what : {"refused", "whole", "cut", "chunk", "last", "101"}]

WireTyped ==
    /\ net \in [Conns -> Seq(Part)] /\ buf \in [Conns -> Seq(Part)] /\ got \in [Conns -> Seq(Part)]
    /\ cur \in [Conns -> Nat] /\ approved \in [Conns -> SUBSET Nat]
    /\ out \in [Conns -> Seq(Replies)]

\* In the order of the stream.
Before(p, q) == p[1] < q[1] \/ (p[1] = q[1] /\ p[2] < q[2])

\* The parts s follow on part p, one after the other, and all of them were sent.
Continues(asks, p, s) ==
    \A k \in DOMAIN s :
        /\ s[k] = After(asks, IF k = 1 THEN p ELSE s[k - 1])
        /\ s[k][1] \in DOMAIN asks /\ s[k][2] <= BodyLength(asks[s[k][1]])
        /\ Before(p, s[k])
        /\ \A j \in DOMAIN s : j < k => Before(s[j], s[k])

Reached(p, s) == IF s = <<>> THEN p ELSE s[Len(s)]

Start == <<0, 0>>

\* The last part that the thread has used.
Used(c) ==
    CASE pc[c] = "raw"  -> Reached(Start, got[c])
      [] pc[c] = "body" -> <<cur[c], 0>>
      [] OTHER          -> EndOf(asked[c], cur[c])

\* The last part that dockerd has, as long as requests are told apart.
Forwarded(c) ==
    EndOf(asked[c], IF pc[c] \in {"body", "lookup", "forward"} THEN cur[c] - 1 ELSE cur[c])

\* What dockerd has, what is read and what is on its way are one stream, which
\* ends where the client has stopped sending, unless it hung up within a request.
StreamOK(c) ==
    /\ Continues(asked[c], Start, got[c])
    /\ pc[c] # "closed" =>
         /\ Continues(asked[c], Used(c), buf[c])
         /\ Continues(asked[c], Reached(Used(c), buf[c]), net[c])
         /\ c \notin hung => Reached(Reached(Used(c), buf[c]), net[c]) = EndOf(asked[c], Len(asked[c]))
    /\ pc[c] \notin {"raw", "closed"} => Reached(Start, got[c]) = Forwarded(c)

CurOK(c) ==
    /\ cur[c] <= Len(asked[c])
    /\ pc[c] = "free" => cur[c] = 0
    /\ pc[c] \in {"body", "lookup", "forward", "reply", "chunks", "raw"} => cur[c] > 0

\* An attach that is approved is in hand, and stays so.
ApprovedOK(c) ==
    /\ \A n \in approved[c] :
         /\ n \in 1 .. cur[c] /\ Asked(c, n).target # Gateway
         /\ Asked(c, n).kind = "attach" =>
              n = cur[c] /\ pc[c] \in {"forward", "reply", "chunks", "raw", "closed"}
    /\ pc[c] \in {"forward", "reply", "chunks", "raw"} => cur[c] \in approved[c]

\* In a raw pipe all that is left to read comes after the attach.
GotOK(c) ==
    /\ \A k \in DOMAIN got[c] :
         \/ got[c][k][1] \in approved[c]
         \/ \E n \in UpgradedAt(c) : n < got[c][k][1]
    /\ pc[c] = "raw" =>
         /\ cur[c] \in UpgradedAt(c) /\ buf[c] = <<>>
         /\ \A k \in DOMAIN net[c] : net[c][k][1] > cur[c]

\* The replies o come in the order of the requests, at most one each, and only a
\* refusal follows one that was cut short.
Ordered(o) ==
    /\ \A j, k \in DOMAIN o : j < k =>
         \/ o[j].to < o[k].to /\ o[j].what = "whole"
         \/ o[j].to < o[k].to /\ o[j].what = "cut" /\ o[k].what = "refused"
         \/ o[j].to = o[k].to /\ o[j].what = "chunk"
    /\ \A k \in DOMAIN o : \A n \in 1 .. o[k].to : \E j \in DOMAIN o : o[j].to = n

\* Each of the requests up to n has its reply.
ReachTo(o, n) == \A m \in 1 .. n : \E k \in DOMAIN o : o[k].to = m

\* All of them have been sent whole, but for the last, which may be cut short;
\* and in the other case request n in part.
Replied(o, n) ==
    /\ ReachTo(o, n)
    /\ \A k \in DOMAIN o : \/ o[k].to <= n /\ o[k].what = "whole"
                           \/ o[k].to <= n /\ o[k].what = "cut"

InPart(o, n) ==
    /\ ReachTo(o, n)
    /\ \A k \in DOMAIN o :
         \/ o[k].to < n /\ o[k].what = "whole"
         \/ o[k].to = n /\ o[k].what = "chunk"

RepliesOK(c) ==
    /\ Ordered(out[c]) /\ \A k \in DOMAIN out[c] : out[c][k].to \in DOMAIN asked[c]
    /\ pc[c] \in {"free", "head"} => Replied(out[c], cur[c])
    /\ pc[c] \in {"body", "lookup", "forward", "reply"} => Replied(out[c], cur[c] - 1)
    /\ pc[c] = "chunks" => InPart(out[c], cur[c])
    /\ reply[c] # None => ~Cut(c)

ProxyInv ==
    /\ TypeOK /\ WireTyped
    /\ \A c \in Conns : StreamOK(c) /\ CurOK(c) /\ ApprovedOK(c) /\ GotOK(c) /\ RepliesOK(c)

=============================================================================
