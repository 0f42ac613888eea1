-------------------------- MODULE AppServerProofs --------------------------
(***************************************************************************)
(* Proofs about AppServer, for any number of lines and slots.              *)
(***************************************************************************)
EXTENDS ServerInvariant, FiniteSetTheorems, TLAPS

\* The threads that hold a slot are finitely many.
LEMMA HoldingIsFinite == IsFiniteSet(Holding) /\ Cardinality(Holding) \in Nat
<1>1. IsFiniteSet(Line)
  BY ServerAssumption, FS_Interval DEF Line
<1>2. Holding \subseteq Line
  BY DEF Holding
<1>. QED
  BY <1>1, <1>2, FS_Subset, FS_CardinalityType

\* Slots add up while no thread begins or ends to hold one.
LEMMA SameHolding ==
    ASSUME SlotsAddUp, Working, slots' = slots, Holding' = Holding
    PROVE  SlotsAddUp'
BY DEF SlotsAddUp

\* A reply is written: it is about a line that was not answered yet.
LEMMA ReplyIsWritten ==
    ASSUME ServerIndInv, NEW r \in Replies, Written(r),
           \A n \in DOMAIN out : out[n].line # r.line
    PROVE  /\ out' \in Seq(Replies)
           /\ \A n \in DOMAIN out' : out'[n] = r \/ \E m \in DOMAIN out : out'[n] = out[m]
           /\ \A m, n \in DOMAIN out' : out'[m].line = out'[n].line => m = n
<1>1. CASE hung
  BY <1>1 DEF Written, ServerIndInv, TypesOK, RepliesAreTrue
<1>2. CASE ~hung
  <2>1. out \in Seq(Replies) /\ out' = Append(out, r)
    BY <1>2 DEF Written, ServerIndInv, TypesOK
  <2>2. /\ DOMAIN out' = 1 .. Len(out) + 1 /\ DOMAIN out = 1 .. Len(out)
        /\ Len(out) \in Nat
        /\ \A n \in 1 .. Len(out) : out'[n] = out[n]
        /\ out'[Len(out) + 1] = r
    BY <2>1
  <2>3. \A m, n \in DOMAIN out : out[m].line = out[n].line => m = n
    BY DEF ServerIndInv, RepliesAreTrue
  <2>4. ASSUME NEW n \in DOMAIN out' PROVE n \in DOMAIN out \/ n = Len(out) + 1
    BY <2>2
  <2>5. out' \in Seq(Replies)
    BY <2>1
  <2>6. \A n \in DOMAIN out' : out'[n] = r \/ \E m \in DOMAIN out : out'[n] = out[m]
    BY <2>2, <2>4
  <2>7. \A m, n \in DOMAIN out' : out'[m].line = out'[n].line => m = n
    BY <2>2, <2>3, <2>4
  <2>. QED
    BY <2>5, <2>6, <2>7
<1>. QED
  BY <1>1, <1>2

\* What has been said is about lines.
LEMMA OutLines ==
    ASSUME TypesOK
    PROVE  \A n \in DOMAIN out : out[n] \in Replies /\ out[n].line \in Line /\ out[n].line \in Int
<1>1. out \in Seq(Replies)
  BY DEF TypesOK
<1>2. \A n \in DOMAIN out : out[n] \in Replies
  BY <1>1
<1>3. \A r \in Replies : r.line \in Line
  BY DEF Replies
<1>4. \A i \in Line : i \in Int
  BY ServerAssumption DEF Line
<1>. QED
  BY <1>2, <1>3, <1>4

\* A line is a number, and none of them is what a free lock holds.
LEMMA LinesAreNumbers == \A i \in Line : i \in Nat /\ i # 0 /\ i # None
BY NoneAssumption, ServerAssumption DEF Line

\* Reading a line that is answered at once, or not at all.
LEMMA ReadLineKeeps == ASSUME ServerIndInv, ReadLine PROVE ServerIndInv'
<1>. USE DEF ReadLine, ServerIndInv
<1>1. TypesOK'
  BY ServerAssumption DEF TypesOK, Line, LoopStates, Replies, Says
<1>2. ThreadsOK' /\ LockOK' /\ FiledOK' /\ ReplyOK'
  BY DEF TypesOK, ThreadsOK, LockOK, FiledOK, ReplyOK, Line
<1>3. SayingOK'
  BY DEF TypesOK, ThreadsOK, SayingOK, OutOK, Line, Replies, Says
<1>4. OutOK'
  BY OutLines DEF TypesOK, OutOK
<1>6. RepliesAreTrue' /\ NoHalfLine'
  BY DEF RepliesAreTrue, NoHalfLine
<1>5. SlotsAddUp'
  BY SameHolding DEF Holding, Working, LoopStates
<1>. QED
  BY <1>1, <1>2, <1>3, <1>4, <1>5, <1>6

\* A call is given a slot and a thread.
LEMMA StartCallKeeps == ASSUME ServerIndInv, StartCall PROVE ServerIndInv'
<1>. USE DEF StartCall, Goto, ServerIndInv
<1>0. next \in Line /\ thread[next] = "none" /\ next \notin Holding
  BY ServerAssumption DEF TypesOK, ThreadsOK, Line, Holding
<1>1. TypesOK'
  BY <1>0, ServerAssumption DEF TypesOK, Line, ThreadStates
<1>2. ThreadsOK' /\ LockOK' /\ FiledOK' /\ ReplyOK'
  BY <1>0 DEF TypesOK, ThreadsOK, LockOK, FiledOK, ReplyOK, Line
<1>3. SayingOK' /\ OutOK'
  <2>1. SayingOK'
    BY <1>0 DEF TypesOK, SayingOK, Replies, Line
  <2>2. OutOK'
    BY <1>0, OutLines DEF TypesOK, OutOK, Line
  <2>. QED
    BY <2>1, <2>2
<1>4. RepliesAreTrue' /\ NoHalfLine'
  BY DEF RepliesAreTrue, NoHalfLine
<1>5. SlotsAddUp'
  <2>1. Holding' = Holding \cup {next}
    BY <1>0 DEF Holding, TypesOK
  <2>2. Cardinality(Holding') = Cardinality(Holding) + 1
    BY <2>1, <1>0, HoldingIsFinite, FS_AddElement
  <2>3. slots \in Nat /\ slots > 0 /\ slots' = slots - 1
    BY ServerAssumption DEF TypesOK
  <2>4. slots + Cardinality(Holding) = MaxWaiting
    BY DEF SlotsAddUp, Working
  <2>. QED
    BY <2>2, <2>3, <2>4, HoldingIsFinite, ServerAssumption DEF SlotsAddUp
<1>. QED
  BY <1>1, <1>2, <1>3, <1>4, <1>5

\* A call is turned away.
LEMMA CannotStartKeeps == ASSUME ServerIndInv, CannotStart PROVE ServerIndInv'
<1>. USE DEF CannotStart, ServerIndInv
<1>0. next \in Line /\ thread[next] = "none"
  BY ServerAssumption DEF TypesOK, ThreadsOK, Line
<1>1. TypesOK'
  BY <1>0, ServerAssumption DEF TypesOK, Line, LoopStates, Replies, Says
<1>2. ThreadsOK' /\ LockOK' /\ FiledOK' /\ ReplyOK'
  BY DEF TypesOK, ThreadsOK, LockOK, FiledOK, ReplyOK, Line
<1>3. SayingOK'
  BY <1>0 DEF TypesOK, SayingOK, OutOK, Line, Replies, Says
<1>4. OutOK'
  BY OutLines DEF TypesOK, OutOK
<1>6. RepliesAreTrue' /\ NoHalfLine'
  BY DEF RepliesAreTrue, NoHalfLine
<1>5. SlotsAddUp'
  BY SameHolding DEF Holding, Working, LoopStates
<1>. QED
  BY <1>1, <1>2, <1>3, <1>4, <1>5, <1>6

\* The loop takes the lock.
LEMMA LoopTakesLockKeeps == ASSUME ServerIndInv, LoopTakesLock PROVE ServerIndInv'
<1>. USE DEF LoopTakesLock, ServerIndInv
<1>1. TypesOK'
  BY ServerAssumption DEF TypesOK, LoopStates
<1>2. LockOK'
  BY LinesAreNumbers DEF LockOK
<1>3. ThreadsOK' /\ FiledOK' /\ ReplyOK' /\ SayingOK' /\ OutOK' /\ RepliesAreTrue' /\ NoHalfLine'
  BY DEF TypesOK, ThreadsOK, FiledOK, ReplyOK, SayingOK, OutOK, RepliesAreTrue, NoHalfLine
<1>4. SlotsAddUp'
  BY SameHolding DEF Holding, Working
<1>. QED
  BY <1>1, <1>2, <1>3, <1>4

\* The loop writes its reply.
LEMMA LoopWritesKeeps == ASSUME ServerIndInv, LoopWrites PROVE ServerIndInv'
<1>. USE DEF LoopWrites, ServerIndInv
<1>1. saying \in Replies /\ \A n \in DOMAIN out : out[n].line # saying.line
  BY DEF SayingOK
<1>2. /\ out' \in Seq(Replies)
      /\ \A n \in DOMAIN out' : out'[n] = saying \/ \E m \in DOMAIN out : out'[n] = out[m]
      /\ \A m, n \in DOMAIN out' : out'[m].line = out'[n].line => m = n
  BY <1>1, ReplyIsWritten
<1>3. TypesOK'
  BY <1>2 DEF TypesOK, LoopStates
<1>4. ThreadsOK' /\ FiledOK' /\ ReplyOK' /\ SayingOK' /\ NoHalfLine'
  BY DEF TypesOK, ThreadsOK, FiledOK, ReplyOK, SayingOK, NoHalfLine
<1>5. LockOK'
  BY LinesAreNumbers DEF LockOK
<1>6. OutOK'
  BY <1>2 DEF OutOK, SayingOK
<1>7. RepliesAreTrue'
  <2>1. saying.line \in Line /\ saying.line \notin filed
    BY <1>1 DEF Replies, FiledOK, SayingOK
  <2>. QED
    BY <1>2, <2>1 DEF RepliesAreTrue, SayingOK
<1>8. SlotsAddUp'
  BY SameHolding DEF Holding, Working
<1>. QED
  BY <1>3, <1>4, <1>5, <1>6, <1>7, <1>8

\* The input ends, and the end is noted under the lock.
LEMMA EndKeeps == ASSUME ServerIndInv, EndInput \/ Close PROVE ServerIndInv'
<1>. USE DEF EndInput, Close, ServerIndInv
<1>1. TypesOK'
  BY DEF TypesOK, LoopStates
<1>2. LockOK'
  BY LinesAreNumbers DEF TypesOK, LockOK
<1>3. ThreadsOK' /\ FiledOK' /\ ReplyOK' /\ SayingOK' /\ OutOK' /\ RepliesAreTrue' /\ NoHalfLine'
  BY DEF TypesOK, ThreadsOK, FiledOK, ReplyOK, SayingOK, OutOK, RepliesAreTrue, NoHalfLine
<1>4. SlotsAddUp'
  BY SameHolding DEF Holding, Working
<1>. QED
  BY <1>1, <1>2, <1>3, <1>4

\* The process exits: nobody was writing, and nobody is left.
LEMMA ExitKeeps == ASSUME ServerIndInv, Exit PROVE ServerIndInv'
<1>. USE DEF Exit, ServerIndInv
<1>1. TypesOK'
  BY DEF TypesOK, LoopStates, ThreadStates, Holding
<1>2. \A i \in Line : thread[i] # "writing"
  BY DEF LockOK
<1>3. \A i \in Line : thread'[i] = IF i \in Holding THEN "dead" ELSE thread[i]
  BY DEF TypesOK
<1>4. ThreadsOK' /\ LockOK' /\ FiledOK' /\ ReplyOK'
  BY <1>3 DEF ThreadsOK, LockOK, FiledOK, ReplyOK, Holding
<1>5. SayingOK' /\ RepliesAreTrue'
  BY DEF SayingOK, RepliesAreTrue
<1>6. OutOK'
  BY <1>3, OutLines DEF OutOK
<1>7. NoHalfLine'
  BY <1>2 DEF NoHalfLine
<1>8. SlotsAddUp'
  BY DEF SlotsAddUp, Working
<1>. QED
  BY <1>1, <1>4, <1>5, <1>6, <1>7, <1>8

\* A thread files its request, or is refused for its argument.
LEMMA FileRequestKeeps ==
    ASSUME ServerIndInv, NEW i \in Line, Working, FileRequest(i) PROVE ServerIndInv'
<1>. USE DEF FileRequest, Goto, Reply, ServerIndInv
<1>1. TypesOK'
  BY DEF TypesOK, ThreadStates, Replies, Says
<1>2. ThreadsOK' /\ LockOK' /\ FiledOK'
  BY DEF TypesOK, ThreadsOK, LockOK, FiledOK
<1>3. ReplyOK'
  BY DEF TypesOK, ReplyOK, FiledOK, Replies, Says
<1>4. SayingOK'
  BY DEF TypesOK, SayingOK, Replies
<1>7. OutOK'
  BY OutLines DEF TypesOK, OutOK
<1>5. RepliesAreTrue' /\ NoHalfLine'
  BY OutLines DEF TypesOK, RepliesAreTrue, NoHalfLine, OutOK
<1>6. SlotsAddUp'
  BY SameHolding DEF Holding, Working, TypesOK
<1>. QED
  BY <1>1, <1>2, <1>3, <1>4, <1>5, <1>6, <1>7

\* A thread sees its result, or its deadline passes.
LEMMA WaitEndsKeeps ==
    ASSUME ServerIndInv, NEW i \in Line, Working, SeeResult(i) \/ PassDeadline(i)
    PROVE  ServerIndInv'
<1>. USE DEF SeeResult, PassDeadline, Goto, Reply, ServerIndInv
<1>1. TypesOK'
  BY DEF TypesOK, ThreadStates, Replies, Says
<1>2. ThreadsOK' /\ LockOK' /\ FiledOK'
  BY DEF TypesOK, ThreadsOK, LockOK, FiledOK
<1>3. ReplyOK'
  BY DEF TypesOK, ReplyOK, FiledOK, Replies, Says
<1>4. SayingOK'
  BY DEF TypesOK, SayingOK, Replies
<1>7. OutOK'
  BY OutLines DEF TypesOK, OutOK
<1>5. RepliesAreTrue' /\ NoHalfLine'
  BY DEF RepliesAreTrue, NoHalfLine
<1>6. SlotsAddUp'
  BY SameHolding DEF Holding, Working, TypesOK
<1>. QED
  BY <1>1, <1>2, <1>3, <1>4, <1>5, <1>6, <1>7

\* A thread takes the lock, or finds that the input has ended.
LEMMA TakeLockKeeps ==
    ASSUME ServerIndInv, NEW i \in Line, Working, TakeLock(i) PROVE ServerIndInv'
<1>. USE DEF TakeLock, Goto, ServerIndInv
<1>1. TypesOK'
  BY DEF TypesOK, ThreadStates, Line
<1>2. LockOK'
  <2>1. CASE closed
    BY <2>1 DEF TypesOK, LockOK
  <2>2. CASE ~closed
    <3>1. lock = None /\ lock' = i /\ closed' = closed
      BY <2>2
    <3>2. \A j \in Line : thread[j] # "writing"
      BY <3>1, LinesAreNumbers DEF LockOK
    <3>3. thread' = [thread EXCEPT ![i] = "writing"] /\ loop' = loop /\ loop # "writing"
      BY <2>2, <3>1, NoneAssumption, ServerAssumption DEF LockOK
    <3>. QED
      BY <2>2, <3>1, <3>2, <3>3 DEF TypesOK, LockOK
  <2>. QED
    BY <2>1, <2>2 DEF TypesOK
<1>3. ThreadsOK' /\ FiledOK' /\ ReplyOK'
  BY DEF TypesOK, ThreadsOK, FiledOK, ReplyOK
<1>4. SayingOK'
  BY DEF TypesOK, SayingOK, Replies
<1>7. OutOK'
  BY OutLines DEF TypesOK, OutOK
<1>5. RepliesAreTrue' /\ NoHalfLine'
  BY DEF RepliesAreTrue, NoHalfLine
<1>6. SlotsAddUp'
  BY SameHolding DEF Holding, Working, TypesOK
<1>. QED
  BY <1>1, <1>2, <1>3, <1>4, <1>5, <1>6, <1>7

\* A thread writes its reply.
LEMMA WriteKeeps ==
    ASSUME ServerIndInv, NEW i \in Line, Working, Write(i) PROVE ServerIndInv'
<1>. USE DEF Write, Goto, ServerIndInv
<1>1. /\ reply[i] \in Replies /\ reply[i].line = i
      /\ reply[i].says \in {"error", "pending", "result"} /\ kind[i] = "call"
      /\ reply[i].says = "pending" => i \in filed
      /\ reply[i].says = "result" => i \in results
      /\ reply[i].says = "error" => i \notin filed
  BY DEF ReplyOK, ThreadsOK
<1>2. \A n \in DOMAIN out : out[n].line # i
  BY DEF OutOK
<1>3. /\ out' \in Seq(Replies)
      /\ \A n \in DOMAIN out' : out'[n] = reply[i] \/ \E m \in DOMAIN out : out'[n] = out[m]
      /\ \A m, n \in DOMAIN out' : out'[m].line = out'[n].line => m = n
  BY <1>1, <1>2, ReplyIsWritten
<1>4. TypesOK'
  BY <1>3 DEF TypesOK, ThreadStates
<1>5. LockOK'
  BY LinesAreNumbers DEF TypesOK, LockOK
<1>6. ThreadsOK' /\ FiledOK' /\ ReplyOK'
  BY DEF TypesOK, ThreadsOK, FiledOK, ReplyOK
<1>7. SayingOK'
  <2>1. loop \in {"replying", "writing"} => saying.line # i
    BY DEF SayingOK
  <2>. QED
    BY <1>1, <1>3, <2>1 DEF TypesOK, SayingOK, Replies
<1>8. OutOK'
  <2>1. i < next /\ thread'[i] = "releasing"
    BY DEF TypesOK, ThreadsOK
  <2>. QED
    BY <1>1, <1>3, <2>1, OutLines DEF TypesOK, OutOK
<1>9. RepliesAreTrue'
  BY <1>1, <1>3 DEF RepliesAreTrue
<1>10. NoHalfLine'
  BY DEF NoHalfLine
<1>11. SlotsAddUp'
  BY SameHolding DEF Holding, Working, TypesOK
<1>. QED
  BY <1>4, <1>5, <1>6, <1>7, <1>8, <1>9, <1>10, <1>11

\* A thread gives its slot back.
LEMMA ReleaseKeeps ==
    ASSUME ServerIndInv, NEW i \in Line, Working, Release(i) PROVE ServerIndInv'
<1>. USE DEF Release, Goto, ServerIndInv
<1>1. TypesOK'
  <2>1. slots < MaxWaiting
    <3>1. i \in Holding
      BY DEF Holding
    <3>2. Cardinality(Holding) # 0
      BY <3>1, HoldingIsFinite, FS_EmptySet
    <3>. QED
      BY <3>2, HoldingIsFinite, ServerAssumption DEF SlotsAddUp, TypesOK
  <2>. QED
    BY <2>1, ServerAssumption DEF TypesOK, ThreadStates
<1>2. ThreadsOK' /\ LockOK' /\ FiledOK' /\ ReplyOK'
  BY DEF TypesOK, ThreadsOK, LockOK, FiledOK, ReplyOK
<1>3. SayingOK' /\ OutOK'
  BY OutLines DEF TypesOK, SayingOK, OutOK, Replies
<1>4. RepliesAreTrue' /\ NoHalfLine'
  BY DEF RepliesAreTrue, NoHalfLine
<1>5. SlotsAddUp'
  <2>1. i \in Holding /\ Holding' = Holding \ {i}
    BY DEF Holding, TypesOK
  <2>2. Cardinality(Holding') = Cardinality(Holding) - 1
    BY <2>1, HoldingIsFinite, FS_RemoveElement
  <2>3. slots \in Nat /\ slots' = slots + 1 /\ slots + Cardinality(Holding) = MaxWaiting
    BY DEF TypesOK, SlotsAddUp
  <2>. QED
    BY <2>2, <2>3, HoldingIsFinite, ServerAssumption DEF SlotsAddUp
<1>. QED
  BY <1>1, <1>2, <1>3, <1>4, <1>5

\* What the broker, the client and a finished process do.
LEMMA OutsideKeeps ==
    ASSUME ServerIndInv, HangUp \/ Over \/ \E i \in Line : Publish(i)
    PROVE  ServerIndInv'
<1>. USE DEF HangUp, Over, Publish, vars, ServerIndInv
<1>1. TypesOK'
  BY DEF TypesOK
<1>2. ThreadsOK' /\ LockOK' /\ FiledOK' /\ ReplyOK'
  BY DEF ThreadsOK, LockOK, FiledOK, ReplyOK
<1>3. SayingOK' /\ OutOK' /\ RepliesAreTrue' /\ NoHalfLine'
  BY DEF SayingOK, OutOK, RepliesAreTrue, NoHalfLine
<1>4. SlotsAddUp'
  BY DEF SlotsAddUp, Working, Holding
<1>. QED
  BY <1>1, <1>2, <1>3, <1>4

LEMMA InitEstablishes == Init => ServerIndInv
<1>. SUFFICES ASSUME Init PROVE ServerIndInv
  OBVIOUS
<1>. USE DEF Init
<1>1. out \in Seq(Replies)
  OBVIOUS
<1>6. next \in 1 .. Lines + 1 /\ slots \in 0 .. MaxWaiting /\ loop \in LoopStates
  BY ServerAssumption DEF LoopStates
<1>7. thread \in [Line -> ThreadStates] /\ reply \in [Line -> Replies \cup {None}]
  BY DEF ThreadStates
<1>5. TypesOK
  BY <1>1, <1>6, <1>7 DEF TypesOK
<1>2. ThreadsOK /\ LockOK /\ FiledOK /\ ReplyOK /\ SayingOK /\ OutOK
  BY DEF ThreadsOK, LockOK, FiledOK, ReplyOK, SayingOK, OutOK
<1>3. RepliesAreTrue /\ NoHalfLine
  BY DEF RepliesAreTrue, NoHalfLine
<1>4. SlotsAddUp
  <2>1. Holding = {}
    BY DEF Holding
  <2>. QED
    BY <2>1, FS_EmptySet, ServerAssumption DEF SlotsAddUp
<1>. QED
  BY <1>5, <1>2, <1>3, <1>4 DEF ServerIndInv

LEMMA NextKeeps == ServerIndInv /\ [Next]_vars => ServerIndInv'
<1>. SUFFICES ASSUME ServerIndInv, [Next]_vars PROVE ServerIndInv'
  OBVIOUS
<1>1. CASE Loop \/ EndInput
  BY <1>1, ReadLineKeeps, StartCallKeeps, CannotStartKeeps, LoopTakesLockKeeps, LoopWritesKeeps,
     EndKeeps, ExitKeeps DEF Loop
<1>2. ASSUME NEW i \in Line, Thread(i) \/ GiveUp(i) PROVE ServerIndInv'
  BY <1>2, FileRequestKeeps, WaitEndsKeeps, TakeLockKeeps, WriteKeeps, ReleaseKeeps
     DEF Thread, GiveUp
<1>3. CASE HangUp \/ Over \/ (\E i \in Line : Publish(i)) \/ UNCHANGED vars
  <2>1. CASE UNCHANGED vars
    <3>1. CASE loop = "exited"
      BY <2>1, <3>1, OutsideKeeps DEF Over
    <3>2. CASE loop # "exited"
      BY <2>1 DEF vars, ServerIndInv, TypesOK, ThreadsOK, LockOK, FiledOK, ReplyOK, SayingOK,
         OutOK, RepliesAreTrue, NoHalfLine, SlotsAddUp, Working, Holding
    <3>. QED
      BY <3>1, <3>2
  <2>. QED
    BY <1>3, <2>1, OutsideKeeps
<1>. QED
  BY <1>1, <1>2, <1>3 DEF Next

(***************************************************************************)
(* What the invariant gives.                                               *)
(***************************************************************************)
\* The invariant holds in every reachable state.
THEOREM ServerIndInvAlways == Spec => []ServerIndInv
BY InitEstablishes, NextKeeps, PTL DEF Spec

LEMMA IndInvImplies == ServerIndInv => ServerInv
<1>. SUFFICES ASSUME ServerIndInv PROVE ServerInv
  OBVIOUS
<1>. QED
  BY DEF ServerIndInv, ServerInv, TypesOK, TypeOK

\* For any number of lines and slots, every slot is free or held by one call
\* that is still being handled, and every reply is true and the only one to its
\* line (bin/hermes-app-mcp.py, serve).
THEOREM SlotsAndRepliesAlways == Spec => []ServerInv
BY ServerIndInvAlways, IndInvImplies, PTL

\* The process never exits in the middle of a reply.
THEOREM NoHalfLineAlways == Spec => []NoHalfLine
<1>1. ServerIndInv => NoHalfLine
  BY DEF ServerIndInv
<1>. QED
  BY <1>1, ServerIndInvAlways, PTL
=============================================================================
