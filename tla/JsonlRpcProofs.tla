--------------------------- MODULE JsonlRpcProofs ---------------------------
(***************************************************************************)
(* Theorems about JsonlRpc, for every set of calls, every length of a line *)
(* and every limit: the pending table and the promises agree, the peer     *)
(* implements RequestPromise, and the engine reads one answer to each of   *)
(* its requests.                                                           *)
(*                                                                         *)
(* The argument is about frames.  A frame of a request, wherever it is on  *)
(* its way, carries an identifier that is out of use or still belongs to   *)
(* that request, because identifiers only grow (OwnedFrames).  So an       *)
(* answer cannot reach another call, however late it comes.                *)
(***************************************************************************)
EXTENDS JsonlRpc, SequenceTheorems, TLAPS

RangeOf(s) == {s[i] : i \in 1 .. Len(s)}

\* What a frame says of the call it belongs to.
Owned(f) ==
    /\ f.kind \in {"request", "notice"} => call[f.of] # "new"
    /\ f.kind = "request" => f.id < nextRequestId /\ pending[f.id] \in {None, f.of}

Known == RangeOf(frames) \cup RangeOf(taken) \cup replied \cup answers \cup ({late} \ {None})

OwnedFrames == \A f \in Known : Owned(f)

FreshIds == \A i \in Ids : pending[i] # None => i < nextRequestId

\* The notifications of a queue wait, and are in it once.
Queued(q, promises) ==
    /\ \A i \in 1 .. Len(q) : q[i].kind = "notice" => promises[q[i].of] = "waiting"
    /\ \A i, j \in 1 .. Len(q) :
         q[i].kind = "notice" /\ q[j].kind = "notice" /\ q[i].of = q[j].of => i = j

QueuedNotices == Queued(frames, call)

OnTheWay ==
    /\ handed => frames # <<>> /\ Head(frames) \in RangeOf(taken)
    /\ closed => frames = <<>>
    /\ answers \subseteq replied
    /\ \A f \in replied : f.kind = "request"

IInv ==
    /\ TypeOK
    /\ OwnedFrames
    /\ FreshIds
    /\ PendingIsWaiting
    /\ QueuedNotices
    /\ OnTheWay

-----------------------------------------------------------------------------
(* Frames and the queue.                                                   *)

LEMMA FrameFacts ==
    ASSUME NEW f \in Frame
    PROVE  /\ f.kind \in {"request", "notice", "result", "error"}
           /\ f.kind = "request" => f.of \in Requests /\ f.id \in Ids
           /\ f.kind = "notice" => f.of \in Notices
           /\ f.kind \in {"result", "error"} => f.of \in Reverse
BY DEF Frame

LEMMA SizeIsNat == ASSUME NEW f \in Frame PROVE Size(f) \in Nat
BY FrameFacts, BytesAssumption DEF Size, Calls

LEMMA NewFrames ==
    /\ \A r \in Requests : nextRequestId \in Ids => RequestFrame(r) \in Frame
    /\ \A n \in Notices : NoticeFrame(n) \in Frame
    /\ \A q \in Reverse : ResultFrame(q) \in Frame /\ ErrorFrame(q) \in Frame
BY DEF Frame, RequestFrame, NoticeFrame, ResultFrame, ErrorFrame

LEMMA RangeAppend ==
    ASSUME NEW S, NEW s \in Seq(S), NEW x \in S
    PROVE  /\ Append(s, x) \in Seq(S)
           /\ RangeOf(Append(s, x)) = RangeOf(s) \cup {x}
<1>1. Append(s, x) \in Seq(S) /\ Len(Append(s, x)) = Len(s) + 1 /\ Len(s) \in Nat
  BY AppendProperties, LenProperties
<1>2. \A i \in 1 .. Len(s) : Append(s, x)[i] = s[i]
  BY AppendProperties
<1>3. Append(s, x)[Len(s) + 1] = x
  BY AppendProperties
<1>4. 1 .. Len(s) + 1 = 1 .. Len(s) \cup {Len(s) + 1}
  BY <1>1
<1> QED
  BY <1>1, <1>2, <1>3, <1>4 DEF RangeOf

LEMMA RangeTail ==
    ASSUME NEW S, NEW s \in Seq(S), s # <<>>
    PROVE  /\ Head(s) \in S /\ Head(s) = s[1] /\ 1 \in 1 .. Len(s) /\ Head(s) \in RangeOf(s)
           /\ Tail(s) \in Seq(S) /\ RangeOf(Tail(s)) \subseteq RangeOf(s)
           /\ \A i \in 1 .. Len(Tail(s)) : i + 1 \in 1 .. Len(s) /\ Tail(s)[i] = s[i + 1]
<1>1. Len(s) \in Nat \ {0}
  BY EmptySeq, LenProperties
<1>2. /\ Head(s) \in S /\ Tail(s) \in Seq(S) /\ Len(Tail(s)) = Len(s) - 1
      /\ \A i \in 1 .. Len(Tail(s)) : Tail(s)[i] = s[i + 1]
  BY HeadTailProperties
<1>3. \A i \in 1 .. Len(Tail(s)) : i + 1 \in 1 .. Len(s)
  BY <1>1, <1>2
<1>4. Head(s) = s[1] /\ 1 \in 1 .. Len(s)
  BY <1>1
<1>5. Head(s) \in RangeOf(s)
  BY <1>4 DEF RangeOf
<1>6. RangeOf(Tail(s)) \subseteq RangeOf(s)
  BY <1>2, <1>3 DEF RangeOf
<1> QED
  BY <1>2, <1>3, <1>4, <1>5, <1>6

\* The queue takes a frame whole or not at all, and only while the peer is open.
LEMMA EnqueueFacts ==
    ASSUME NEW f \in Frame, NEW q \in Seq(Frame), NEW b \in Int, b <= MaxBufferedBytes,
           Enqueue(f, q, b)
    PROVE  /\ buffered' \in Int /\ buffered' <= MaxBufferedBytes
           /\ frames' \in Seq(Frame)
           /\ RangeOf(frames') \subseteq RangeOf(q) \cup {f}
           /\ \/ frames' = q /\ ~Accepts(f, b)
              \/ frames' = Append(q, f) /\ Accepts(f, b)
<1>1. CASE Accepts(f, b)
  <2>1. buffered' = b + Size(f) /\ frames' = Append(q, f)
    BY <1>1 DEF Enqueue
  <2>2. b + Size(f) <= MaxBufferedBytes
    BY <1>1 DEF Accepts
  <2> QED
    BY <1>1, <2>1, <2>2, SizeIsNat, RangeAppend
<1>2. CASE ~Accepts(f, b)
  BY <1>2 DEF Enqueue
<1> QED
  BY <1>1, <1>2

-----------------------------------------------------------------------------
(* Type correctness.                                                       *)

LEMMA InitTypeOK == Init => TypeOK
<1> SUFFICES ASSUME Init PROVE TypeOK
  OBVIOUS
<1>1. frames \in Seq(Frame) /\ taken \in Seq(Frame)
  BY EmptySeq DEF Init
<1>2. nextRequestId \in 1 .. MaxId + 1 /\ buffered \in Int /\ buffered <= MaxBufferedBytes
  BY IdsAssumption, BytesAssumption DEF Init
<1> QED
  BY <1>1, <1>2 DEF Init, TypeOK

LEMMA SettleType ==
    ASSUME TypeOK, NEW c, NEW outcome \in {"waiting", "resolved", "rejected"},
           Settle(c, outcome)
    PROVE  call' \in [Calls -> {"new", "waiting", "resolved", "rejected"}]
BY DEF TypeOK, Settle

LEMMA ForgetType ==
    ASSUME TypeOK, NEW i, Forget(i)
    PROVE  pending' \in [Ids -> Requests \cup {None}] /\ timers' \subseteq Requests
BY DEF TypeOK, Forget

LEMMA TailType ==
    ASSUME TypeOK, frames # <<>>
    PROVE  /\ Head(frames) \in Frame /\ Tail(frames) \in Seq(Frame)
           /\ buffered - Size(Head(frames)) \in Int
           /\ buffered - Size(Head(frames)) <= MaxBufferedBytes
<1>1. Head(frames) \in Frame /\ Tail(frames) \in Seq(Frame)
  BY RangeTail DEF TypeOK
<1>2. Size(Head(frames)) \in Nat
  BY <1>1, SizeIsNat
<1> QED
  BY <1>1, <1>2, BytesAssumption DEF TypeOK

LEMMA NextTypeOK == TypeOK /\ [Next]_vars => TypeOK'
<1> SUFFICES ASSUME TypeOK, [Next]_vars PROVE TypeOK'
  OBVIOUS
<1> USE DEF table, output, stream, engine
<1>0. frames \in Seq(Frame) /\ buffered \in Int /\ buffered <= MaxBufferedBytes
  BY DEF TypeOK
<1>1. ASSUME NEW r \in Requests, Request(r) PROVE TypeOK'
  <2>1. nextRequestId \in Ids /\ nextRequestId' \in 1 .. MaxId + 1
    BY <1>1, IdsAssumption DEF Request, TypeOK, Ids
  <2>2. /\ buffered' \in Int /\ buffered' <= MaxBufferedBytes
        /\ frames' \in Seq(Frame)
    BY <1>0, <1>1, <2>1, NewFrames, EnqueueFacts DEF Request
  <2>3. call' \in [Calls -> {"new", "waiting", "resolved", "rejected"}]
    BY <1>1, SettleType DEF Request
  <2>4. pending' \in [Ids -> Requests \cup {None}] /\ timers' \subseteq Requests
    BY <1>1 DEF Request, TypeOK
  <2> QED
    BY <1>1, <2>1, <2>2, <2>3, <2>4 DEF Request, TypeOK
<1>2. ASSUME NEW r \in Requests, RequestRefused(r) PROVE TypeOK'
  <2>1. nextRequestId' \in 1 .. MaxId + 1
    BY <1>2, IdsAssumption DEF RequestRefused, TypeOK
  <2>2. call' \in [Calls -> {"new", "waiting", "resolved", "rejected"}]
    BY <1>2, SettleType DEF RequestRefused
  <2> QED
    BY <1>2, <2>1, <2>2 DEF RequestRefused, TypeOK
<1>3. ASSUME NEW r \in Requests, TimerFires(r) PROVE TypeOK'
  <2>1. call' \in [Calls -> {"new", "waiting", "resolved", "rejected"}]
    BY <1>3, SettleType DEF TimerFires
  <2>2. pending' \in [Ids -> Requests \cup {None}] /\ timers' \subseteq Requests
    BY <1>3 DEF TimerFires, TypeOK
  <2> QED
    BY <1>3, <2>1, <2>2 DEF TimerFires, TypeOK
<1>4. ASSUME NEW n \in Notices, Notify(n) PROVE TypeOK'
  <2>1. call' \in [Calls -> {"new", "waiting", "resolved", "rejected"}]
    BY <1>4, SettleType DEF Notify
  <2>2. /\ buffered' \in Int /\ buffered' <= MaxBufferedBytes
        /\ frames' \in Seq(Frame)
    BY <1>0, <1>4, NewFrames, EnqueueFacts DEF Notify
  <2> QED
    BY <1>4, <2>1, <2>2 DEF Notify, TypeOK
<1>5. ASSUME NEW c \in Calls, CallAfterClose(c) PROVE TypeOK'
  <2>1. call' \in [Calls -> {"new", "waiting", "resolved", "rejected"}]
    BY <1>5, SettleType DEF CallAfterClose
  <2> QED
    BY <1>5, <2>1 DEF CallAfterClose, TypeOK
<1>6. CASE PipeTakes
  <2>1. taken' \in Seq(Frame)
    BY <1>6, TailType, RangeAppend DEF PipeTakes, TypeOK
  <2> QED
    BY <1>6, <2>1 DEF PipeTakes, TypeOK
<1>7. CASE WriteDone
  <2>1. call' \in [Calls -> {"new", "waiting", "resolved", "rejected"}]
    BY <1>7, SettleType DEF WriteDone, TypeOK
  <2>2. frames' \in Seq(Frame) /\ buffered' \in Int /\ buffered' <= MaxBufferedBytes
    BY <1>7, TailType DEF WriteDone
  <2> QED
    BY <1>7, <2>1, <2>2 DEF WriteDone, TypeOK
<1>8. CASE WriteFails
  <2> DEFINE f == Head(frames)
             rest == buffered - Size(f)
  <2>1. f \in Frame /\ Tail(frames) \in Seq(Frame) /\ rest \in Int /\ rest <= MaxBufferedBytes
    BY <1>8, TailType DEF WriteFails
  <2>2. call' \in [Calls -> {"new", "waiting", "resolved", "rejected"}]
    BY <1>8, SettleType DEF WriteFails, TypeOK
  <2>3. pending' \in [Ids -> Requests \cup {None}] /\ timers' \subseteq Requests
    BY <1>8, ForgetType DEF WriteFails, TypeOK
  <2>4. frames' \in Seq(Frame) /\ buffered' \in Int /\ buffered' <= MaxBufferedBytes
    <3>1. CASE f.kind = "result"
      <4>1. ErrorFrame(f.of) \in Frame
        BY <2>1, <3>1, FrameFacts, NewFrames
      <4>2. Enqueue(ErrorFrame(f.of), Tail(frames), rest)
        BY <1>8, <3>1 DEF WriteFails
      <4> HIDE DEF f, rest
      <4> QED
        BY <2>1, <4>1, <4>2, EnqueueFacts
    <3>2. CASE f.kind # "result"
      BY <1>8, <2>1, <3>2 DEF WriteFails
    <3> QED
      BY <3>1, <3>2
  <2> QED
    BY <1>8, <2>2, <2>3, <2>4 DEF WriteFails, TypeOK
<1>9. ASSUME NEW f \in answers, Response(f) \/ ResponseToNobody(f) PROVE TypeOK'
  <2>1. call' \in [Calls -> {"new", "waiting", "resolved", "rejected"}]
    BY <1>9, SettleType DEF Response, ResponseToNobody, TypeOK
  <2>2. pending' \in [Ids -> Requests \cup {None}] /\ timers' \subseteq Requests
    BY <1>9, ForgetType DEF Response, ResponseToNobody, TypeOK
  <2> QED
    BY <1>9, <2>1, <2>2 DEF Response, ResponseToNobody, TypeOK
<1>10. ASSUME NEW q \in Reverse, ReverseRequest(q) PROVE TypeOK'
  BY <1>10 DEF ReverseRequest, TypeOK
<1>11. ASSUME NEW q \in Reverse,
              ReverseRequestRefused(q) \/ HandlerReturns(q) \/ HandlerThrows(q)
       PROVE  TypeOK'
  <2>1. PICK f \in Frame : Enqueue(f, frames, buffered)
    BY <1>11, NewFrames DEF ReverseRequestRefused, HandlerReturns, HandlerThrows
  <2>2. /\ buffered' \in Int /\ buffered' <= MaxBufferedBytes
        /\ frames' \in Seq(Frame)
    BY <1>0, <2>1, EnqueueFacts
  <2>3. handler' \in [Reverse -> {"none", "running", "done"}]
    BY <1>11 DEF ReverseRequestRefused, HandlerReturns, HandlerThrows, TypeOK
  <2> QED
    BY <1>11, <2>2, <2>3 DEF ReverseRequestRefused, HandlerReturns, HandlerThrows, TypeOK
<1>12. CASE Fail
  <2>1. late' \in Frame \cup {None}
    BY <1>12, TailType DEF Fail
  <2>2. frames' \in Seq(Frame) /\ buffered' \in Int /\ buffered' <= MaxBufferedBytes
    BY <1>12, EmptySeq, BytesAssumption DEF Fail
  <2>3. call' \in [Calls -> {"new", "waiting", "resolved", "rejected"}]
    BY <1>12 DEF Fail, TypeOK
  <2> QED
    BY <1>12, <2>1, <2>2, <2>3 DEF Fail, TypeOK
<1>13. CASE LateWrite
  <2>1. taken' \in Seq(Frame)
    BY <1>13, RangeAppend DEF LateWrite, TypeOK
  <2> QED
    BY <1>13, <2>1 DEF LateWrite, TypeOK
<1>14. ASSUME NEW i \in DOMAIN taken, EngineReplies(i) PROVE TypeOK'
  <2>1. taken[i] \in Frame
    BY <1>14, LenProperties, ElementOfSeq DEF TypeOK
  <2> QED
    BY <1>14, <2>1 DEF EngineReplies, TypeOK
<1>15. CASE UNCHANGED vars
  BY <1>15 DEF vars, TypeOK
<1> QED
  BY <1>1, <1>2, <1>3, <1>4, <1>5, <1>6, <1>7, <1>8, <1>9, <1>10, <1>11, <1>12, <1>13,
     <1>14, <1>15 DEF Next

\* Every variable stays in its type, and the queue within its limit.
THEOREM TypeCorrect == Spec => []TypeOK
<1>1. Init => TypeOK
  BY InitTypeOK
<1>2. TypeOK /\ [Next]_vars => TypeOK'
  BY NextTypeOK
<1> QED
  BY <1>1, <1>2, PTL DEF Spec

-----------------------------------------------------------------------------
(* Frames belong to their calls.                                           *)

\* Identifiers are not given back, calls not unmade, and an entry is made only under
\* the identifier that is given out.
Monotone ==
    /\ nextRequestId <= nextRequestId'
    /\ \A c \in Calls : call[c] # "new" => call'[c] # "new"
    /\ \A i \in Ids :
         pending'[i] \in {None, pending[i]} \/ (i = nextRequestId /\ i < nextRequestId')

LEMMA SettleKeeps ==
    ASSUME TypeOK, NEW c, NEW outcome \in {"waiting", "resolved", "rejected"},
           Settle(c, outcome)
    PROVE  \A d \in Calls : call[d] # "new" => call'[d] # "new"
BY DEF TypeOK, Settle

LEMMA ForgetKeeps ==
    ASSUME TypeOK, NEW i, Forget(i)
    PROVE  \A j \in Ids : pending'[j] \in {None, pending[j]}
BY DEF TypeOK, Forget

LEMMA NextMonotone == TypeOK /\ [Next]_vars => Monotone
<1> SUFFICES ASSUME TypeOK, [Next]_vars PROVE Monotone
  OBVIOUS
<1> USE DEF table, output, stream, engine
<1>0. nextRequestId \in Int
  BY IdsAssumption DEF TypeOK
<1>1. ASSUME NEW r \in Requests, Request(r) PROVE Monotone
  <2>1. \A c \in Calls : call[c] # "new" => call'[c] # "new"
    BY <1>1, SettleKeeps DEF Request
  <2>2. \A i \in Ids : i # nextRequestId => pending'[i] = pending[i]
    BY <1>0, <1>1 DEF Request, TypeOK
  <2> QED
    BY <1>0, <1>1, <2>1, <2>2 DEF Request, Monotone
<1>2. ASSUME NEW r \in Requests, RequestRefused(r) PROVE Monotone
  BY <1>0, <1>2, SettleKeeps DEF RequestRefused, Monotone
<1>3. ASSUME NEW r \in Requests, TimerFires(r) PROVE Monotone
  <2>1. \A c \in Calls : call[c] # "new" => call'[c] # "new"
    BY <1>3, SettleKeeps DEF TimerFires
  <2> QED
    BY <1>0, <1>3, <2>1 DEF TimerFires, Monotone
<1>4. ASSUME NEW n \in Notices, Notify(n) PROVE Monotone
  BY <1>0, <1>4, SettleKeeps DEF Notify, Monotone
<1>5. ASSUME NEW c \in Calls, CallAfterClose(c) PROVE Monotone
  BY <1>0, <1>5, SettleKeeps DEF CallAfterClose, Monotone
<1>6. CASE WriteDone
  BY <1>0, <1>6, SettleKeeps DEF WriteDone, Monotone
<1>7. CASE WriteFails
  <2>1. \A c \in Calls : call[c] # "new" => call'[c] # "new"
    BY <1>7, SettleKeeps DEF WriteFails
  <2>2. \A j \in Ids : pending'[j] \in {None, pending[j]}
    BY <1>7, ForgetKeeps DEF WriteFails
  <2> QED
    BY <1>0, <1>7, <2>1, <2>2 DEF WriteFails, Monotone
<1>8. ASSUME NEW f \in answers, Response(f) PROVE Monotone
  <2>1. \A c \in Calls : call[c] # "new" => call'[c] # "new"
    BY <1>8, SettleKeeps DEF Response
  <2>2. \A j \in Ids : pending'[j] \in {None, pending[j]}
    BY <1>8, ForgetKeeps DEF Response
  <2> QED
    BY <1>0, <1>8, <2>1, <2>2 DEF Response, Monotone
<1>9. CASE Fail
  BY <1>0, <1>9 DEF Fail, Monotone
<1>10. CASE UNCHANGED <<call, nextRequestId, pending>>
  BY <1>0, <1>10 DEF Monotone
<1>11. \/ \E r \in Requests : Request(r) \/ RequestRefused(r) \/ TimerFires(r)
       \/ \E n \in Notices : Notify(n)
       \/ \E c \in Calls : CallAfterClose(c)
       \/ WriteDone \/ WriteFails \/ Fail
       \/ \E f \in answers : Response(f)
       \/ UNCHANGED <<call, nextRequestId, pending>>
  BY DEF Next, PipeTakes, ResponseToNobody, ReverseRequest, ReverseRequestRefused,
     HandlerReturns, HandlerThrows, LateWrite, EngineReplies, vars
<1> QED
  BY <1>1, <1>2, <1>3, <1>4, <1>5, <1>6, <1>7, <1>8, <1>9, <1>10, <1>11

LEMMA OwnedStays ==
    ASSUME TypeOK, TypeOK', Monotone, NEW f \in Frame, Owned(f)
    PROVE  Owned(f)'
<1>1. nextRequestId \in Int /\ nextRequestId' \in Int
  BY IdsAssumption DEF TypeOK
<1>2. f.kind \in {"request", "notice"} => f.of \in Calls
  BY FrameFacts DEF Calls
<1>3. f.kind = "request" => f.id \in Ids /\ f.id \in Int
  BY FrameFacts, IdsAssumption DEF Ids
<1> QED
  BY <1>1, <1>2, <1>3 DEF Owned, Monotone

LEMMA KnownFrames == ASSUME TypeOK PROVE Known \subseteq Frame
<1>1. RangeOf(frames) \subseteq Frame /\ RangeOf(taken) \subseteq Frame
  BY ElementOfSeq DEF TypeOK, RangeOf
<1> QED
  BY <1>1 DEF Known, TypeOK

\* A step adds a frame that is owned, or none.
LEMMA OwnedStep ==
    ASSUME TypeOK, TypeOK', Monotone, OwnedFrames,
           NEW g, Known' \subseteq Known \cup {g}, g \notin Known => Owned(g)'
    PROVE  OwnedFrames'
BY OwnedStays, KnownFrames DEF OwnedFrames

LEMMA NextOwned == IInv /\ [Next]_vars => OwnedFrames'
<1> SUFFICES ASSUME IInv, [Next]_vars PROVE OwnedFrames'
  OBVIOUS
<1> USE DEF table, output, stream, engine
<1>0. TypeOK /\ TypeOK' /\ Monotone /\ OwnedFrames
  BY NextTypeOK, NextMonotone DEF IInv
<1>a. frames \in Seq(Frame) /\ taken \in Seq(Frame) /\ buffered \in Int
      /\ buffered <= MaxBufferedBytes
  BY <1>0 DEF TypeOK
<1>b. ASSUME NEW g, Known' \subseteq Known \cup {g}, g \notin Known => Owned(g)'
      PROVE  OwnedFrames'
  BY <1>0, <1>b, OwnedStep
<1>1. ASSUME NEW r \in Requests, Request(r) PROVE OwnedFrames'
  <2>1. nextRequestId \in Ids
    BY <1>0, <1>1, IdsAssumption DEF Request, TypeOK, Ids
  <2>0. PICK g : g = RequestFrame(r)
    OBVIOUS
  <2>2. RangeOf(frames') \subseteq RangeOf(frames) \cup {g}
    BY <1>a, <1>1, <2>0, <2>1, NewFrames, EnqueueFacts DEF Request
  <2>3. Known' \subseteq Known \cup {g}
    BY <1>1, <2>2 DEF Request, Known
  <2>4. call'[r] = "waiting" /\ pending'[nextRequestId] = r /\ nextRequestId < nextRequestId'
    BY <1>0, <1>1, <2>1, IdsAssumption DEF Request, Settle, TypeOK, Calls, Ids
  <2>5. Owned(g)'
    BY <2>0, <2>4 DEF Owned, RequestFrame
  <2> QED
    BY <1>b, <2>3, <2>5
<1>2. ASSUME NEW n \in Notices, Notify(n) PROVE OwnedFrames'
  <2>1. RangeOf(frames') \subseteq RangeOf(frames) \cup {NoticeFrame(n)}
    BY <1>a, <1>2, NewFrames, EnqueueFacts DEF Notify
  <2>2. Known' \subseteq Known \cup {NoticeFrame(n)}
    BY <1>2, <2>1 DEF Notify, Known
  <2>3. call'[n] # "new"
    BY <1>0, <1>2 DEF Notify, Settle, TypeOK, Calls
  <2>4. Owned(NoticeFrame(n))'
    BY <2>3 DEF Owned, NoticeFrame
  <2> QED
    BY <1>b, <2>2, <2>4
<1>3. ASSUME NEW q \in Reverse,
             ReverseRequestRefused(q) \/ HandlerReturns(q) \/ HandlerThrows(q)
      PROVE  OwnedFrames'
  <2>1. PICK g \in {ResultFrame(q), ErrorFrame(q)} : Enqueue(g, frames, buffered)
    BY <1>3 DEF ReverseRequestRefused, HandlerReturns, HandlerThrows
  <2>2. RangeOf(frames') \subseteq RangeOf(frames) \cup {g}
    BY <1>a, <2>1, NewFrames, EnqueueFacts
  <2>3. Known' \subseteq Known \cup {g}
    BY <1>3, <2>2 DEF ReverseRequestRefused, HandlerReturns, HandlerThrows, Known
  <2>4. Owned(g)'
    BY DEF Owned, ResultFrame, ErrorFrame
  <2> QED
    BY <1>b, <2>3, <2>4
<1>4. CASE PipeTakes
  <2>1. Head(frames) \in RangeOf(frames) /\ Head(frames) \in Frame
    BY <1>a, <1>4, RangeTail DEF PipeTakes
  <2>2. RangeOf(taken') = RangeOf(taken) \cup {Head(frames)}
    BY <1>a, <1>4, <2>1, RangeAppend DEF PipeTakes
  <2>3. Known' \subseteq Known \cup {Head(frames)} /\ Head(frames) \in Known
    BY <1>4, <2>1, <2>2 DEF PipeTakes, Known
  <2> QED
    BY <1>b, <2>3
<1>5. CASE WriteDone
  <2>1. RangeOf(frames') \subseteq RangeOf(frames) /\ Head(frames) \in RangeOf(frames)
    BY <1>a, <1>5, RangeTail DEF WriteDone
  <2>2. Known' \subseteq Known \cup {Head(frames)} /\ Head(frames) \in Known
    BY <1>5, <2>1 DEF WriteDone, Known
  <2> QED
    BY <1>b, <2>2
<1>6. CASE WriteFails
  <2> DEFINE f == Head(frames)
             rest == buffered - Size(f)
  <2>1. /\ f \in Frame /\ Tail(frames) \in Seq(Frame) /\ rest \in Int
        /\ rest <= MaxBufferedBytes
        /\ f \in RangeOf(frames) /\ RangeOf(Tail(frames)) \subseteq RangeOf(frames)
    BY <1>0, <1>a, <1>6, TailType, RangeTail DEF WriteFails
  <2>2. CASE f.kind = "result"
    <3>1. Enqueue(ErrorFrame(f.of), Tail(frames), rest)
      BY <1>6, <2>2 DEF WriteFails
    <3>2. PICK g \in Frame : g = ErrorFrame(f.of)
      BY <2>1, <2>2, FrameFacts, NewFrames
    <3> HIDE DEF f, rest
    <3>3. RangeOf(frames') \subseteq RangeOf(frames) \cup {g}
      BY <2>1, <3>1, <3>2, EnqueueFacts
    <3>4. Known' \subseteq Known \cup {g}
      BY <1>6, <3>3 DEF WriteFails, Known
    <3>5. Owned(g)'
      BY <3>2 DEF Owned, ErrorFrame
    <3> QED
      BY <1>b, <3>4, <3>5
  <2>3. CASE f.kind # "result"
    <3>1. frames' = Tail(frames)
      BY <1>6, <2>3 DEF WriteFails
    <3>2. Known' \subseteq Known \cup {f} /\ f \in Known
      BY <1>6, <2>1, <3>1 DEF WriteFails, Known
    <3> QED
      BY <1>b, <3>2
  <2> QED
    BY <2>2, <2>3
<1>7. ASSUME NEW i \in DOMAIN taken, EngineReplies(i) PROVE OwnedFrames'
  <2>1. taken[i] \in RangeOf(taken)
    BY <1>a, LenProperties DEF RangeOf
  <2>2. Known' \subseteq Known \cup {taken[i]} /\ taken[i] \in Known
    BY <1>7, <2>1 DEF EngineReplies, Known
  <2> QED
    BY <1>b, <2>2
<1>8. CASE Fail
  <2>1. RangeOf(frames') = {}
    BY <1>8, EmptySeq DEF Fail, RangeOf
  <2>2. late' # None => late' \in RangeOf(frames)
    BY <1>a, <1>8, RangeTail DEF Fail
  <2>3. Known' \subseteq Known \cup {late'} /\ (late' # None => late' \in Known)
    BY <1>8, <2>1, <2>2 DEF Fail, Known
  <2>4. Known' \subseteq Known
    BY <1>8, <2>1, <2>2 DEF Fail, Known
  <2> QED
    BY <1>0, <2>4, OwnedStays, KnownFrames DEF OwnedFrames
<1>9. CASE LateWrite
  <2>1. late \in Frame
    BY <1>0, <1>9 DEF LateWrite, TypeOK
  <2>2. RangeOf(taken') = RangeOf(taken) \cup {late}
    BY <1>a, <1>9, <2>1, RangeAppend DEF LateWrite
  <2>3. Known' \subseteq Known
    BY <1>9, <2>2 DEF LateWrite, Known
  <2> QED
    BY <1>0, <2>3, OwnedStays, KnownFrames DEF OwnedFrames
<1>10. CASE /\ UNCHANGED <<frames, taken, replied, late>>
            /\ answers' \subseteq answers
  <2>1. Known' \subseteq Known
    BY <1>10 DEF Known
  <2> QED
    BY <1>0, <2>1, OwnedStays, KnownFrames DEF OwnedFrames
<1>11. \/ \E r \in Requests : Request(r)
       \/ \E n \in Notices : Notify(n)
       \/ \E q \in Reverse : ReverseRequestRefused(q) \/ HandlerReturns(q) \/ HandlerThrows(q)
       \/ PipeTakes \/ WriteDone \/ WriteFails \/ Fail \/ LateWrite
       \/ \E i \in DOMAIN taken : EngineReplies(i)
       \/ UNCHANGED <<frames, taken, replied, late>> /\ answers' \subseteq answers
  BY DEF Next, RequestRefused, TimerFires, CallAfterClose, Response, ResponseToNobody,
     ReverseRequest, vars
<1> QED
  BY <1>1, <1>2, <1>3, <1>4, <1>5, <1>6, <1>7, <1>8, <1>9, <1>10, <1>11

-----------------------------------------------------------------------------
(* The pending table.                                                      *)

LEMMA NextFresh == TypeOK /\ FreshIds /\ [Next]_vars => FreshIds'
<1> SUFFICES ASSUME TypeOK, FreshIds, [Next]_vars PROVE FreshIds'
  OBVIOUS
<1>1. Monotone /\ TypeOK'
  BY NextMonotone, NextTypeOK
<1>2. nextRequestId \in Int /\ nextRequestId' \in Int /\ Ids \subseteq Int
  BY <1>1, IdsAssumption DEF TypeOK, Ids
<1> QED
  BY <1>1, <1>2 DEF FreshIds, Monotone

\* The table is left alone, and whether a request waits.
LEMMA SameWaiting ==
    ASSUME PendingIsWaiting, UNCHANGED <<pending, timers>>,
           \A r \in Requests : call'[r] = "waiting" <=> call[r] = "waiting"
    PROVE  PendingIsWaiting'
BY DEF PendingIsWaiting

\* The promise of an entry is settled when the entry is deleted.
LEMMA SettleWaiting ==
    ASSUME TypeOK, PendingIsWaiting, NEW i \in Ids, pending[i] # None,
           NEW outcome \in {"resolved", "rejected"},
           Settle(pending[i], outcome), Forget(i)
    PROVE  PendingIsWaiting'
<1> DEFINE r == pending[i]
<1>1. r \in Requests /\ call[r] = "waiting"
  BY DEF TypeOK, PendingIsWaiting
<1>2. call' = [call EXCEPT ![r] = outcome] /\ timers' = timers \ {r}
  BY DEF Settle, Forget
<1>3. \A c \in Calls : call'[c] = IF c = r THEN outcome ELSE call[c]
  BY <1>2 DEF TypeOK
<1>4. \A j \in Ids : pending'[j] = IF j = i THEN None ELSE pending[j]
  BY DEF Forget, TypeOK
<1>5. \A j \in Ids : pending[j] = r => j = i
  BY DEF PendingIsWaiting
<1>6. Requests \subseteq Calls
  BY DEF Calls
<1> HIDE DEF r
<1>7. \A s \in Requests : call'[s] = "waiting" <=> \E j \in Ids : pending'[j] = s
  <2>1. \A s \in Requests : s # None
    BY CallsAssumption
  <2> SUFFICES ASSUME NEW s \in Requests
               PROVE  call'[s] = "waiting" <=> \E j \in Ids : pending'[j] = s
    OBVIOUS
  <2>2. CASE s = r
    BY <1>3, <1>4, <1>5, <1>6, <2>1, <2>2
  <2>3. CASE s # r
    <3>1. call'[s] = call[s]
      BY <1>3, <1>6, <2>3
    <3>2. \A j \in Ids : pending'[j] = s <=> pending[j] = s
      BY <1>4, <2>1, <2>3 DEF r
    <3> QED
      BY <3>1, <3>2 DEF PendingIsWaiting
  <2> QED
    BY <2>2, <2>3
<1>8. \A j, k \in Ids : pending'[j] # None /\ pending'[j] = pending'[k] => j = k
  BY <1>4 DEF PendingIsWaiting
<1>9. timers' = {s \in Requests \ Unlimited : call'[s] = "waiting"}
  BY <1>2, <1>3, <1>6 DEF PendingIsWaiting
<1> QED
  BY <1>7, <1>8, <1>9 DEF PendingIsWaiting

LEMMA RequestWaiting ==
    ASSUME TypeOK, FreshIds, PendingIsWaiting, NEW r \in Requests, Request(r)
    PROVE  PendingIsWaiting'
<1> DEFINE n == nextRequestId
<1>1. n \in Ids /\ pending[n] = None
  BY IdsAssumption DEF Request, TypeOK, Ids, FreshIds
<1>2. \A i \in Ids : pending[i] # r
  BY DEF PendingIsWaiting, Request
<1>3. \A i \in Ids : pending'[i] = IF i = n THEN r ELSE pending[i]
  BY DEF Request, TypeOK
<1>4. \A s \in Requests : call'[s] = IF s = r THEN "waiting" ELSE call[s]
  BY DEF Request, Settle, TypeOK, Calls
<1>5. \A s \in Requests : s # None
  BY CallsAssumption
<1>6. timers' = IF r \in Unlimited THEN timers ELSE timers \cup {r}
  BY DEF Request
<1> HIDE DEF n
<1>7. \A s \in Requests : call'[s] = "waiting" <=> \E i \in Ids : pending'[i] = s
  <2> SUFFICES ASSUME NEW s \in Requests
               PROVE  call'[s] = "waiting" <=> \E i \in Ids : pending'[i] = s
    OBVIOUS
  <2>1. CASE s = r
    BY <1>1, <1>3, <1>4, <2>1
  <2>2. CASE s # r
    <3>1. \A i \in Ids : pending'[i] = s <=> pending[i] = s
      BY <1>1, <1>3, <1>5, <2>2
    <3> QED
      BY <1>4, <2>2, <3>1 DEF PendingIsWaiting
  <2> QED
    BY <2>1, <2>2
<1>8. \A i, j \in Ids : pending'[i] # None /\ pending'[i] = pending'[j] => i = j
  BY <1>2, <1>3 DEF PendingIsWaiting
<1>9. timers' = {s \in Requests \ Unlimited : call'[s] = "waiting"}
  BY <1>4, <1>6 DEF PendingIsWaiting, Request
<1> QED
  BY <1>7, <1>8, <1>9 DEF PendingIsWaiting

LEMMA TimeoutWaiting ==
    ASSUME TypeOK, PendingIsWaiting, NEW r \in Requests, TimerFires(r)
    PROVE  PendingIsWaiting'
<1>1. \A s \in Requests : call'[s] = IF s = r THEN "rejected" ELSE call[s]
  BY DEF TimerFires, Settle, TypeOK, Calls
<1>2. \A i \in Ids : pending'[i] = IF pending[i] = r THEN None ELSE pending[i]
  BY DEF TimerFires
<1>3. \A s \in Requests : s # None
  BY CallsAssumption
<1>4. \A s \in Requests : call'[s] = "waiting" <=> \E i \in Ids : pending'[i] = s
  <2> SUFFICES ASSUME NEW s \in Requests
               PROVE  call'[s] = "waiting" <=> \E i \in Ids : pending'[i] = s
    OBVIOUS
  <2>1. CASE s = r
    BY <1>1, <1>2, <1>3, <2>1
  <2>2. CASE s # r
    <3>1. \A i \in Ids : pending'[i] = s <=> pending[i] = s
      BY <1>2, <1>3, <2>2
    <3> QED
      BY <1>1, <2>2, <3>1 DEF PendingIsWaiting
  <2> QED
    BY <2>1, <2>2
<1>5. \A i, j \in Ids : pending'[i] # None /\ pending'[i] = pending'[j] => i = j
  BY <1>2 DEF PendingIsWaiting
<1>6. timers' = {s \in Requests \ Unlimited : call'[s] = "waiting"}
  BY <1>1 DEF PendingIsWaiting, TimerFires
<1> QED
  BY <1>4, <1>5, <1>6 DEF PendingIsWaiting

\* A settled promise of a notification, or of a call that did not wait.
LEMMA OtherWaiting ==
    ASSUME TypeOK, PendingIsWaiting, NEW c \in Calls,
           c \in Notices \/ call[c] # "waiting",
           NEW outcome \in {"waiting", "resolved", "rejected"},
           outcome = "waiting" => c \in Notices,
           Settle(c, outcome), UNCHANGED <<pending, timers>>
    PROVE  PendingIsWaiting'
<1>1. \A r \in Requests : call'[r] = IF r = c THEN outcome ELSE call[r]
  BY DEF Settle, TypeOK, Calls
<1>2. c \in Notices => c \notin Requests
  BY CallsAssumption
<1>3. \A r \in Requests : call'[r] = "waiting" <=> call[r] = "waiting"
  BY <1>1, <1>2
<1> QED
  BY <1>3, SameWaiting

LEMMA NextWaiting == IInv /\ [Next]_vars => PendingIsWaiting'
<1> SUFFICES ASSUME IInv, [Next]_vars PROVE PendingIsWaiting'
  OBVIOUS
<1> USE DEF table, output, stream, engine
<1>0. /\ TypeOK /\ FreshIds /\ PendingIsWaiting
      /\ OwnedFrames /\ QueuedNotices /\ OnTheWay
      /\ frames \in Seq(Frame) /\ Known \subseteq Frame
  BY KnownFrames DEF IInv, TypeOK
<1>1. ASSUME NEW r \in Requests, Request(r) PROVE PendingIsWaiting'
  BY <1>0, <1>1, RequestWaiting
<1>2. ASSUME NEW r \in Requests, TimerFires(r) PROVE PendingIsWaiting'
  BY <1>0, <1>2, TimeoutWaiting
<1>3. ASSUME NEW r \in Requests, RequestRefused(r) PROVE PendingIsWaiting'
  BY <1>0, <1>3, OtherWaiting DEF RequestRefused, Calls
<1>4. ASSUME NEW n \in Notices, Notify(n) PROVE PendingIsWaiting'
  BY <1>0, <1>4, OtherWaiting DEF Notify, Calls
<1>5. ASSUME NEW c \in Calls, CallAfterClose(c) PROVE PendingIsWaiting'
  BY <1>0, <1>5, OtherWaiting DEF CallAfterClose
<1>6. CASE WriteDone
  <2> DEFINE f == Head(frames)
  <2>1. f \in Frame
    BY <1>0, <1>6, RangeTail DEF WriteDone
  <2>2. CASE f.kind = "notice"
    <3>1. f.of \in Notices /\ Settle(f.of, "resolved") /\ UNCHANGED <<pending, timers>>
      BY <1>6, <2>1, <2>2, FrameFacts DEF WriteDone
    <3> QED
      BY <1>0, <3>1, OtherWaiting DEF Calls
  <2>3. CASE f.kind # "notice"
    BY <1>0, <1>6, <2>3, SameWaiting DEF WriteDone
  <2> QED
    BY <2>2, <2>3
<1>7. CASE WriteFails
  <2> DEFINE f == Head(frames)
  <2>1. f \in Frame /\ f \in Known
    BY <1>0, <1>7, RangeTail DEF WriteFails, Known
  <2>2. CASE f.kind = "request" /\ pending[f.id] # None
    <3>1. f.id \in Ids /\ pending[f.id] = f.of
      BY <1>0, <2>1, <2>2, FrameFacts DEF OwnedFrames, Owned
    <3>2. Settle(pending[f.id], "rejected") /\ Forget(f.id)
      BY <1>7, <2>2, <3>1 DEF WriteFails
    <3> QED
      BY <1>0, <2>2, <3>1, <3>2, SettleWaiting
  <2>3. CASE f.kind = "notice"
    <3>1. f.of \in Notices /\ Settle(f.of, "rejected") /\ UNCHANGED <<pending, timers>>
      BY <1>7, <2>1, <2>3, FrameFacts DEF WriteFails
    <3> QED
      BY <1>0, <3>1, OtherWaiting DEF Calls
  <2>4. CASE ~(f.kind = "request" /\ pending[f.id] # None) /\ f.kind # "notice"
    <3>1. UNCHANGED <<call, pending, timers>>
      BY <1>7, <2>4 DEF WriteFails
    <3> QED
      BY <1>0, <3>1, SameWaiting
  <2> QED
    BY <2>2, <2>3, <2>4
<1>8. ASSUME NEW f \in answers, Response(f) PROVE PendingIsWaiting'
  <2>1. f.id \in Ids
    BY <1>0, <1>8, FrameFacts DEF OnTheWay, TypeOK
  <2>2. CASE UNCHANGED <<call, pending, timers>>
    BY <1>0, <2>2, SameWaiting
  <2>3. CASE Forget(f.id) /\ \E outcome \in {"resolved", "rejected"} : Settle(pending[f.id], outcome)
    BY <1>0, <1>8, <2>1, <2>3, SettleWaiting DEF Response
  <2> QED
    BY <1>8, <2>2, <2>3 DEF Response
<1>9. CASE Fail
  <2>1. \A r \in Requests : call'[r] # "waiting"
    BY <1>9 DEF Fail, Calls
  <2>2. \A i \in Ids : pending'[i] = None
    BY <1>9 DEF Fail
  <2>3. timers' = {}
    BY <1>9 DEF Fail
  <2> QED
    BY <2>1, <2>2, <2>3, CallsAssumption DEF PendingIsWaiting
<1>10. CASE UNCHANGED <<call, pending, timers>>
  BY <1>0, <1>10, SameWaiting
<1>11. \/ \E r \in Requests : Request(r) \/ RequestRefused(r) \/ TimerFires(r)
       \/ \E n \in Notices : Notify(n)
       \/ \E c \in Calls : CallAfterClose(c)
       \/ WriteDone \/ WriteFails \/ Fail
       \/ \E f \in answers : Response(f)
       \/ UNCHANGED <<call, pending, timers>>
  BY DEF Next, PipeTakes, ResponseToNobody, ReverseRequest, ReverseRequestRefused,
     HandlerReturns, HandlerThrows, LateWrite, EngineReplies, vars
<1> QED
  BY <1>1, <1>2, <1>3, <1>4, <1>5, <1>6, <1>7, <1>8, <1>9, <1>10, <1>11

-----------------------------------------------------------------------------
(* The notifications in the queue.                                         *)

LEMMA QueuedTail ==
    ASSUME NEW q \in Seq(Frame), q # <<>>, NEW promises, Queued(q, promises)
    PROVE  /\ Queued(Tail(q), promises)
           /\ Head(q).kind = "notice" =>
                /\ promises[Head(q).of] = "waiting"
                /\ \A i \in 1 .. Len(Tail(q)) :
                     Tail(q)[i].kind = "notice" => Tail(q)[i].of # Head(q).of
<1>1. /\ Head(q) = q[1] /\ 1 \in 1 .. Len(q)
      /\ \A i \in 1 .. Len(Tail(q)) : i + 1 \in 1 .. Len(q) /\ Tail(q)[i] = q[i + 1]
  BY RangeTail
<1>2. Len(Tail(q)) \in Nat
  BY RangeTail, LenProperties
<1>3. \A i \in 1 .. Len(Tail(q)) : i \in Int /\ i >= 1
  BY <1>2
<1>4. ASSUME Head(q).kind = "notice", NEW i \in 1 .. Len(Tail(q)), Tail(q)[i].kind = "notice"
      PROVE  Tail(q)[i].of # Head(q).of
  <2>1. i + 1 # 1
    BY <1>3
  <2> QED
    BY <1>1, <1>4, <2>1 DEF Queued
<1>5. ASSUME NEW i \in 1 .. Len(Tail(q)), NEW j \in 1 .. Len(Tail(q)),
             Tail(q)[i].kind = "notice", Tail(q)[j].kind = "notice",
             Tail(q)[i].of = Tail(q)[j].of
      PROVE  i = j
  <2>1. i + 1 = j + 1
    BY <1>1, <1>5 DEF Queued
  <2> QED
    BY <1>3, <2>1
<1>6. \A i \in 1 .. Len(Tail(q)) :
        Tail(q)[i].kind = "notice" => promises[Tail(q)[i].of] = "waiting"
  BY <1>1 DEF Queued
<1>7. Head(q).kind = "notice" => promises[Head(q).of] = "waiting"
  BY <1>1 DEF Queued
<1> QED
  BY <1>4, <1>5, <1>6, <1>7 DEF Queued

LEMMA QueuedAppend ==
    ASSUME NEW q \in Seq(Frame), NEW f \in Frame, NEW promises, Queued(q, promises),
           f.kind = "notice" =>
             /\ promises[f.of] = "waiting"
             /\ \A i \in 1 .. Len(q) : q[i].kind = "notice" => q[i].of # f.of
    PROVE  Queued(Append(q, f), promises)
<1> DEFINE s == Append(q, f)
<1>1. Len(q) \in Nat /\ Len(s) = Len(q) + 1 /\ s[Len(q) + 1] = f
      /\ \A i \in 1 .. Len(q) : s[i] = q[i]
  BY AppendProperties, LenProperties
<1>2. 1 .. Len(s) = 1 .. Len(q) \cup {Len(q) + 1}
  BY <1>1
<1> HIDE DEF s
<1>3. \A i \in 1 .. Len(s) : s[i].kind = "notice" => promises[s[i].of] = "waiting"
  BY <1>1, <1>2 DEF Queued
<1>4. \A i, j \in 1 .. Len(s) :
        s[i].kind = "notice" /\ s[j].kind = "notice" /\ s[i].of = s[j].of => i = j
  <2> SUFFICES ASSUME NEW i \in 1 .. Len(s), NEW j \in 1 .. Len(s),
                      s[i].kind = "notice", s[j].kind = "notice", s[i].of = s[j].of
               PROVE  i = j
    OBVIOUS
  <2>1. CASE i \in 1 .. Len(q) /\ j \in 1 .. Len(q)
    BY <1>1, <2>1 DEF Queued
  <2>2. CASE i = Len(q) + 1 \/ j = Len(q) + 1
    BY <1>1, <1>2, <2>2
  <2> QED
    BY <1>2, <2>1, <2>2
<1>5. Queued(s, promises)
  BY <1>3, <1>4 DEF Queued
<1> QED
  BY <1>5 DEF s

\* Settling a call that has no notification in the queue.
LEMMA QueuedSettle ==
    ASSUME TypeOK, NEW q \in Seq(Frame), Queued(q, call), NEW c \in Calls, NEW outcome,
           Settle(c, outcome),
           \/ c \in Requests
           \/ call[c] # "waiting"
           \/ \A i \in 1 .. Len(q) : q[i].kind = "notice" => q[i].of # c
    PROVE  Queued(q, call')
<1>1. \A d \in Calls : d # c => call'[d] = call[d]
  BY DEF Settle, TypeOK
<1>2. \A i \in 1 .. Len(q) : q[i].kind = "notice" => q[i].of \in Notices
  BY ElementOfSeq, FrameFacts
<1>3. \A i \in 1 .. Len(q) : q[i].kind = "notice" => q[i].of # c
  BY <1>2, CallsAssumption DEF Queued
<1> QED
  BY <1>1, <1>2, <1>3 DEF Queued, Calls

LEMMA QueuedEnqueue ==
    ASSUME NEW q \in Seq(Frame), NEW f \in Frame, NEW b \in Int, b <= MaxBufferedBytes,
           NEW promises, Queued(q, promises), f.kind # "notice", Enqueue(f, q, b)
    PROVE  Queued(frames', promises)
<1>1. frames' = q \/ frames' = Append(q, f)
  BY EnqueueFacts
<1>2. Queued(Append(q, f), promises)
  BY QueuedAppend
<1> QED
  BY <1>1, <1>2

LEMMA NextQueued == IInv /\ [Next]_vars => QueuedNotices'
<1> SUFFICES ASSUME IInv, [Next]_vars PROVE Queued(frames', call')
  BY DEF QueuedNotices, Queued
<1> USE DEF table, output, stream, engine
<1>0. /\ TypeOK /\ Queued(frames, call) /\ frames \in Seq(Frame)
      /\ buffered \in Int /\ buffered <= MaxBufferedBytes
      /\ Requests \subseteq Calls /\ Notices \subseteq Calls
  BY DEF IInv, TypeOK, QueuedNotices, Calls
<1>1. ASSUME NEW r \in Requests, Request(r) PROVE Queued(frames', call')
  <2>1. Queued(frames, call')
    BY <1>0, <1>1, QueuedSettle DEF Request
  <2>2. RequestFrame(r) \in Frame /\ RequestFrame(r).kind # "notice"
    <3>1. nextRequestId \in Ids
      BY <1>0, <1>1, IdsAssumption DEF Request, TypeOK, Ids
    <3> QED
      BY <3>1, NewFrames DEF RequestFrame
  <2>3. Enqueue(RequestFrame(r), frames, buffered)
    BY <1>1 DEF Request
  <2> QED
    BY <1>0, <2>1, <2>2, <2>3, QueuedEnqueue
<1>2. ASSUME NEW n \in Notices, Notify(n) PROVE Queued(frames', call')
  <2>1. call[n] = "new" /\ UNCHANGED closed
    BY <1>2 DEF Notify
  <2>2. Queued(frames, call')
    BY <1>0, <1>2, <2>1, QueuedSettle DEF Notify
  <2>3. CASE ~Accepts(NoticeFrame(n), buffered)
    BY <1>2, <2>2, <2>3 DEF Notify, Enqueue
  <2>4. CASE Accepts(NoticeFrame(n), buffered)
    <3>1. frames' = Append(frames, NoticeFrame(n)) /\ Settle(n, "waiting")
      BY <1>2, <2>4 DEF Notify, Enqueue
    <3>2. call'[n] = "waiting"
      BY <1>0, <3>1 DEF Settle, TypeOK
    <3>3. NoticeFrame(n) \in Frame /\ NoticeFrame(n).of = n
      BY NewFrames DEF NoticeFrame
    <3>4. \A i \in 1 .. Len(frames) : frames[i].kind = "notice" => frames[i].of # n
      BY <1>0, <2>1 DEF Queued
    <3>5. Queued(Append(frames, NoticeFrame(n)), call')
      BY <1>0, <2>2, <3>2, <3>3, <3>4, QueuedAppend
    <3> QED
      BY <3>1, <3>5
  <2> QED
    BY <2>3, <2>4
<1>3. ASSUME NEW r \in Requests, RequestRefused(r) \/ TimerFires(r)
      PROVE  Queued(frames', call')
  BY <1>0, <1>3, QueuedSettle DEF RequestRefused, TimerFires
<1>4. ASSUME NEW c \in Calls, CallAfterClose(c) PROVE Queued(frames', call')
  BY <1>0, <1>4, QueuedSettle DEF CallAfterClose
<1>5. CASE WriteDone
  <2> DEFINE f == Head(frames)
  <2>1. frames' = Tail(frames) /\ Tail(frames) \in Seq(Frame) /\ f \in Frame
    BY <1>0, <1>5, RangeTail DEF WriteDone
  <2>2. Queued(Tail(frames), call)
    BY <1>0, <1>5, QueuedTail DEF WriteDone
  <2>3. CASE f.kind = "notice"
    <3>1. \A i \in 1 .. Len(Tail(frames)) :
            Tail(frames)[i].kind = "notice" => Tail(frames)[i].of # f.of
      BY <1>0, <1>5, <2>3, QueuedTail DEF WriteDone
    <3>2. f.of \in Calls /\ Settle(f.of, "resolved")
      BY <1>0, <1>5, <2>1, <2>3, FrameFacts DEF WriteDone
    <3>3. Queued(Tail(frames), call')
      BY <1>0, <2>1, <2>2, <3>1, <3>2, QueuedSettle
    <3> QED
      BY <2>1, <3>3
  <2>4. CASE f.kind # "notice"
    BY <1>5, <2>1, <2>2, <2>4 DEF WriteDone
  <2> QED
    BY <2>3, <2>4
<1>6. CASE WriteFails
  <2> DEFINE f == Head(frames)
             rest == buffered - Size(f)
             q == Tail(frames)
  <2>1. f \in Frame /\ q \in Seq(Frame) /\ rest \in Int /\ rest <= MaxBufferedBytes
    BY <1>0, <1>6, TailType DEF WriteFails
  <2>2. Queued(q, call)
    BY <1>0, <1>6, QueuedTail DEF WriteFails
  <2>3. Queued(q, call')
    <3>1. CASE f.kind = "request" /\ pending[f.id] # None
      <4>1. f.of \in Requests /\ Settle(f.of, "rejected")
        BY <1>6, <2>1, <3>1, FrameFacts DEF WriteFails
      <4> QED
        BY <1>0, <2>1, <2>2, <4>1, QueuedSettle
    <3>2. CASE f.kind = "notice"
      <4>1. \A i \in 1 .. Len(q) : q[i].kind = "notice" => q[i].of # f.of
        BY <1>0, <1>6, <3>2, QueuedTail DEF WriteFails
      <4>2. f.of \in Calls /\ Settle(f.of, "rejected")
        BY <1>0, <1>6, <2>1, <3>2, FrameFacts DEF WriteFails
      <4> QED
        BY <1>0, <2>1, <2>2, <4>1, <4>2, QueuedSettle
    <3>3. CASE ~(f.kind = "request" /\ pending[f.id] # None) /\ f.kind # "notice"
      <4>1. UNCHANGED call
        BY <1>6, <3>3 DEF WriteFails
      <4> QED
        BY <2>2, <4>1
    <3> QED
      BY <3>1, <3>2, <3>3
  <2>4. CASE f.kind = "result"
    <3>1. Enqueue(ErrorFrame(f.of), q, rest)
      BY <1>6, <2>4 DEF WriteFails
    <3>2. ErrorFrame(f.of) \in Frame /\ ErrorFrame(f.of).kind # "notice"
      BY <2>1, <2>4, FrameFacts, NewFrames DEF ErrorFrame
    <3> HIDE DEF f, rest, q
    <3> QED
      BY <2>1, <2>3, <3>1, <3>2, QueuedEnqueue
  <2>5. CASE f.kind # "result"
    <3>1. frames' = q
      BY <1>6, <2>5 DEF WriteFails
    <3> QED
      BY <2>3, <3>1
  <2> QED
    BY <2>4, <2>5
<1>7. ASSUME NEW f \in answers, Response(f) PROVE Queued(frames', call')
  <2>1. f.id \in Ids
    BY <1>7, FrameFacts DEF IInv, OnTheWay, TypeOK
  <2>2. pending[f.id] \in Requests
    BY <1>0, <1>7, <2>1 DEF Response, TypeOK
  <2> QED
    BY <1>0, <1>7, <2>2, QueuedSettle DEF Response
<1>8. CASE Fail
  <2>1. Len(frames') = 0
    BY <1>8, EmptySeq DEF Fail
  <2>2. \A i \in 1 .. Len(frames') : FALSE
    BY <2>1
  <2> QED
    BY <2>2 DEF Queued
<1>9. ASSUME NEW q \in Reverse,
             ReverseRequestRefused(q) \/ HandlerReturns(q) \/ HandlerThrows(q)
      PROVE  Queued(frames', call')
  <2>1. PICK g \in {ResultFrame(q), ErrorFrame(q)} : Enqueue(g, frames, buffered)
    BY <1>9 DEF ReverseRequestRefused, HandlerReturns, HandlerThrows
  <2>2. g \in Frame /\ g.kind # "notice"
    <3>1. g \in Frame
      BY NewFrames
    <3>2. ResultFrame(q).kind = "result" /\ ErrorFrame(q).kind = "error"
      BY DEF ResultFrame, ErrorFrame
    <3> QED
      BY <3>1, <3>2
  <2>3. UNCHANGED call
    BY <1>9 DEF ReverseRequestRefused, HandlerReturns, HandlerThrows
  <2>4. Queued(frames', call)
    BY <1>0, <2>1, <2>2, QueuedEnqueue
  <2> QED
    BY <2>3, <2>4
<1>10. CASE UNCHANGED <<call, frames>>
  BY <1>0, <1>10
<1>11. \/ \E r \in Requests : Request(r) \/ RequestRefused(r) \/ TimerFires(r)
       \/ \E n \in Notices : Notify(n)
       \/ \E c \in Calls : CallAfterClose(c)
       \/ WriteDone \/ WriteFails \/ Fail
       \/ \E f \in answers : Response(f)
       \/ \E q \in Reverse : ReverseRequestRefused(q) \/ HandlerReturns(q) \/ HandlerThrows(q)
       \/ UNCHANGED <<call, frames>>
  BY DEF Next, PipeTakes, ResponseToNobody, ReverseRequest, LateWrite, EngineReplies, vars
<1> QED
  BY <1>1, <1>2, <1>3, <1>4, <1>5, <1>6, <1>7, <1>8, <1>9, <1>10, <1>11

-----------------------------------------------------------------------------
(* The pipes, and the inductive invariant.                                 *)

\* What a new frame changes in the queue.
LEMMA EnqueueWay ==
    ASSUME NEW f \in Frame, NEW q \in Seq(Frame), NEW b \in Int, b <= MaxBufferedBytes,
           Enqueue(f, q, b)
    PROVE  /\ closed => frames' = q
           /\ q # <<>> => frames' # <<>> /\ Head(frames') = Head(q)
<1>1. \/ frames' = q /\ ~Accepts(f, b)
      \/ frames' = Append(q, f) /\ Accepts(f, b)
  BY EnqueueFacts
<1>2. ASSUME q # <<>> PROVE Append(q, f) # <<>> /\ Head(Append(q, f)) = Head(q)
  <2> DEFINE s == Append(q, f)
  <2>1. Head(q) = q[1] /\ 1 \in 1 .. Len(q)
    BY <1>2, RangeTail
  <2>2. s \in Seq(Frame) /\ s # <<>> /\ s[1] = q[1]
    BY <2>1, AppendProperties
  <2> HIDE DEF s
  <2>3. Head(s) = s[1]
    BY <2>2, RangeTail
  <2>4. s # <<>> /\ Head(s) = Head(q)
    BY <2>1, <2>2, <2>3
  <2> QED
    BY <2>4 DEF s
<1> QED
  BY <1>1, <1>2 DEF Accepts

LEMMA NextOnTheWay == IInv /\ [Next]_vars => OnTheWay'
<1> SUFFICES ASSUME IInv, [Next]_vars PROVE OnTheWay'
  OBVIOUS
<1> USE DEF table, output, stream, engine
<1>0. /\ TypeOK /\ OnTheWay /\ frames \in Seq(Frame) /\ taken \in Seq(Frame)
      /\ buffered \in Int /\ buffered <= MaxBufferedBytes
  BY DEF IInv, TypeOK
<1>1. ASSUME NEW f \in Frame, Enqueue(f, frames, buffered),
             UNCHANGED <<handed, closed, taken, replied, answers>>
      PROVE  OnTheWay'
  <2>1. /\ closed => frames' = frames
        /\ frames # <<>> => frames' # <<>> /\ Head(frames') = Head(frames)
    BY <1>0, <1>1, EnqueueWay
  <2> QED
    BY <1>0, <1>1, <2>1 DEF OnTheWay, RangeOf
<1>2. ASSUME NEW r \in Requests, Request(r) PROVE OnTheWay'
  <2>1. nextRequestId \in Ids
    BY <1>0, <1>2, IdsAssumption DEF Request, TypeOK, Ids
  <2> QED
    BY <1>1, <1>2, <2>1, NewFrames DEF Request
<1>3. ASSUME NEW n \in Notices, Notify(n) PROVE OnTheWay'
  BY <1>1, <1>3, NewFrames DEF Notify
<1>4. ASSUME NEW q \in Reverse,
             ReverseRequestRefused(q) \/ HandlerReturns(q) \/ HandlerThrows(q)
      PROVE  OnTheWay'
  <2>1. PICK g \in {ResultFrame(q), ErrorFrame(q)} : Enqueue(g, frames, buffered)
    BY <1>4 DEF ReverseRequestRefused, HandlerReturns, HandlerThrows
  <2>2. UNCHANGED <<handed, closed, taken, replied, answers>>
    BY <1>4 DEF ReverseRequestRefused, HandlerReturns, HandlerThrows
  <2> QED
    BY <1>1, <2>1, <2>2, NewFrames
<1>5. CASE PipeTakes
  <2>1. RangeOf(taken') = RangeOf(taken) \cup {Head(frames)}
    BY <1>0, <1>5, RangeAppend, RangeTail DEF PipeTakes
  <2> QED
    BY <1>0, <1>5, <2>1 DEF PipeTakes, OnTheWay
<1>6. CASE WriteDone
  BY <1>0, <1>6 DEF WriteDone, OnTheWay
<1>7. CASE WriteFails
  BY <1>0, <1>7 DEF WriteFails, OnTheWay
<1>8. CASE Fail
  BY <1>0, <1>8 DEF Fail, OnTheWay
<1>9. CASE LateWrite
  <2>1. RangeOf(taken') = RangeOf(taken) \cup {late}
    BY <1>0, <1>9, RangeAppend DEF LateWrite, TypeOK
  <2> QED
    BY <1>0, <1>9, <2>1 DEF LateWrite, OnTheWay
<1>10. ASSUME NEW i \in DOMAIN taken, EngineReplies(i) PROVE OnTheWay'
  <2>1. UNCHANGED <<frames, handed, closed, taken>>
    BY <1>10 DEF EngineReplies
  <2>2. /\ replied' = replied \cup {taken[i]} /\ answers' = answers \cup {taken[i]}
        /\ taken[i].kind = "request"
    BY <1>10 DEF EngineReplies
  <2> QED
    BY <1>0, <2>1, <2>2 DEF OnTheWay, RangeOf
<1>11. CASE UNCHANGED <<frames, handed, closed, taken, replied>> /\ answers' \subseteq answers
  BY <1>0, <1>11 DEF OnTheWay, RangeOf
<1>12. \/ \E r \in Requests : Request(r)
       \/ \E n \in Notices : Notify(n)
       \/ \E q \in Reverse : ReverseRequestRefused(q) \/ HandlerReturns(q) \/ HandlerThrows(q)
       \/ PipeTakes \/ WriteDone \/ WriteFails \/ Fail \/ LateWrite
       \/ \E i \in DOMAIN taken : EngineReplies(i)
       \/ UNCHANGED <<frames, handed, closed, taken, replied>> /\ answers' \subseteq answers
  BY DEF Next, RequestRefused, TimerFires, CallAfterClose, Response, ResponseToNobody,
     ReverseRequest, vars
<1> QED
  BY <1>2, <1>3, <1>4, <1>5, <1>6, <1>7, <1>8, <1>9, <1>10, <1>11, <1>12

LEMMA InitIInv == Init => IInv
<1> SUFFICES ASSUME Init PROVE IInv
  OBVIOUS
<1>1. TypeOK
  BY InitTypeOK
<1>2. \A i \in 1 .. Len(frames) : FALSE
  <2>1. Len(frames) = 0
    BY EmptySeq DEF Init
  <2> QED
    BY <2>1
<1>3. RangeOf(frames) = {} /\ RangeOf(taken) = {}
  BY <1>2 DEF RangeOf, Init
<1>4. OwnedFrames
  BY <1>3 DEF OwnedFrames, Known, Init
<1>5. PendingIsWaiting
  BY CallsAssumption DEF PendingIsWaiting, Init, Calls
<1>6. QueuedNotices
  BY <1>2 DEF QueuedNotices, Queued
<1>7. FreshIds /\ OnTheWay
  BY DEF FreshIds, OnTheWay, Init
<1> QED
  BY <1>1, <1>4, <1>5, <1>6, <1>7 DEF IInv

LEMMA NextIInv == IInv /\ [Next]_vars => IInv'
<1> SUFFICES ASSUME IInv, [Next]_vars PROVE IInv'
  OBVIOUS
<1>1. TypeOK' /\ FreshIds'
  BY NextTypeOK, NextFresh DEF IInv
<1>2. OwnedFrames' /\ PendingIsWaiting' /\ QueuedNotices' /\ OnTheWay'
  BY NextOwned, NextWaiting, NextQueued, NextOnTheWay
<1> QED
  BY <1>1, <1>2 DEF IInv

\* The inductive invariant.
THEOREM InvariantHolds == Spec => []IInv
<1>1. Init => IInv
  BY InitIInv
<1>2. IInv /\ [Next]_vars => IInv'
  BY NextIInv
<1> QED
  BY <1>1, <1>2, PTL DEF Spec

\* Every caller that waits has one entry in the table and every entry a caller that
\* waits; timeouts are armed exactly while they are needed.
THEOREM PendingAgrees == Spec => []PendingIsWaiting
<1>1. IInv => PendingIsWaiting
  BY DEF IInv
<1> QED
  BY <1>1, InvariantHolds, PTL

-----------------------------------------------------------------------------
(* The refinement.                                                         *)

Served ==
    {f.of : f \in replied}
        \cup {taken[i].of : i \in {j \in DOMAIN taken : taken[j].kind = "notice"}}

\* A step on the pipes that gives the engine a frame serves a notification, or nothing.
LEMMA TakenServes ==
    ASSUME TypeOK, NEW f \in Frame, taken' = Append(taken, f), UNCHANGED replied
    PROVE  Served' = Served \cup (IF f.kind = "notice" THEN {f.of} ELSE {})
<1>1. /\ Len(taken) \in Nat /\ DOMAIN taken = 1 .. Len(taken)
      /\ DOMAIN taken' = 1 .. Len(taken) + 1
      /\ taken'[Len(taken) + 1] = f
      /\ \A i \in 1 .. Len(taken) : taken'[i] = taken[i]
  BY AppendProperties, LenProperties DEF TypeOK
<1>2. DOMAIN taken' = DOMAIN taken \cup {Len(taken) + 1}
  BY <1>1
<1> QED
  BY <1>1, <1>2 DEF Served

LEMMA SameServed == ASSUME UNCHANGED <<replied, taken>> PROVE Served' = Served
BY DEF Served

PromiseStep == [Promise!Next]_<<call, Served, ~closed>>

LEMMA AskStep ==
    ASSUME NEW c \in Calls, call[c] = "new",
           Settle(c, "rejected") \/ (~closed /\ Settle(c, "waiting")),
           Served' = Served, UNCHANGED closed
    PROVE  PromiseStep
<1>1. Promise!Ask(c)
  BY DEF Promise!Ask, Promise!Settle, Settle, Served
<1> QED
  BY <1>1 DEF PromiseStep, Promise!Next

LEMMA ServeStep ==
    ASSUME NEW c \in Calls, call[c] # "new", Served' = Served \cup {c},
           UNCHANGED <<call, closed>>
    PROVE  PromiseStep
<1>1. CASE c \in Served
  <2>1. UNCHANGED <<call, Served, ~closed>>
    BY <1>1
  <2> QED
    BY <2>1 DEF PromiseStep
<1>2. CASE c \notin Served
  <2>1. Promise!Serve(c)
    BY <1>2 DEF Promise!Serve, Served
  <2> QED
    BY <2>1 DEF PromiseStep, Promise!Next
<1> QED
  BY <1>1, <1>2

LEMMA ResolveStep ==
    ASSUME NEW c \in Calls, ~closed, call[c] = "waiting", c \in Served,
           Settle(c, "resolved"), Served' = Served, UNCHANGED closed
    PROVE  PromiseStep
<1>1. Promise!Resolve(c)
  BY DEF Promise!Resolve, Promise!Settle, Settle, Served
<1> QED
  BY <1>1 DEF PromiseStep, Promise!Next

LEMMA RejectStep ==
    ASSUME NEW c \in Calls, call[c] = "waiting", Settle(c, "rejected"),
           Served' = Served, UNCHANGED closed
    PROVE  PromiseStep
<1>1. Promise!Reject(c)
  BY DEF Promise!Reject, Promise!Settle, Settle, Served
<1> QED
  BY <1>1 DEF PromiseStep, Promise!Next

LEMMA StutterStep ==
    ASSUME UNCHANGED <<call, closed>>, Served' = Served PROVE PromiseStep
BY DEF PromiseStep

\* A frame given to the engine, now or after the connection ended.
LEMMA TakenStep ==
    ASSUME TypeOK, OwnedFrames, NEW f \in Frame, f \in Known, taken' = Append(taken, f),
           UNCHANGED <<call, closed, replied>>
    PROVE  PromiseStep
<1>1. CASE f.kind = "notice"
  <2>1. f.of \in Calls /\ call[f.of] # "new"
    BY <1>1, FrameFacts DEF OwnedFrames, Owned, Calls
  <2>2. Served' = Served \cup {f.of}
    BY <1>1, TakenServes
  <2> QED
    BY <2>1, <2>2, ServeStep
<1>2. CASE f.kind # "notice"
  <2>1. Served' = Served
    BY <1>2, TakenServes
  <2> QED
    BY <2>1, StutterStep
<1> QED
  BY <1>1, <1>2

LEMMA NextPromise == IInv /\ [Next]_vars => PromiseStep
<1> SUFFICES ASSUME IInv, [Next]_vars PROVE PromiseStep
  OBVIOUS
<1> USE DEF table, output, stream, engine
<1>0. /\ TypeOK /\ PendingIsWaiting /\ OwnedFrames /\ OnTheWay /\ Queued(frames, call)
      /\ frames \in Seq(Frame) /\ taken \in Seq(Frame)
      /\ Requests \subseteq Calls /\ Notices \subseteq Calls
      /\ Known \subseteq Frame
  BY KnownFrames DEF IInv, TypeOK, QueuedNotices, Calls
<1>1. ASSUME NEW r \in Requests, Request(r) \/ RequestRefused(r) PROVE PromiseStep
  BY <1>0, <1>1, SameServed, AskStep DEF Request, RequestRefused
<1>2. ASSUME NEW r \in Requests, TimerFires(r) PROVE PromiseStep
  <2>1. call[r] = "waiting"
    BY <1>0, <1>2 DEF TimerFires, PendingIsWaiting
  <2> QED
    BY <1>0, <1>2, <2>1, SameServed, RejectStep DEF TimerFires
<1>3. ASSUME NEW n \in Notices, Notify(n) PROVE PromiseStep
  BY <1>0, <1>3, SameServed, AskStep DEF Notify
<1>4. ASSUME NEW c \in Calls, CallAfterClose(c) PROVE PromiseStep
  BY <1>4, SameServed, AskStep DEF CallAfterClose
<1>5. CASE PipeTakes
  <2>1. Head(frames) \in Frame /\ Head(frames) \in Known
    BY <1>0, <1>5, RangeTail DEF PipeTakes, Known
  <2> QED
    BY <1>0, <1>5, <2>1, TakenStep DEF PipeTakes
<1>6. CASE LateWrite
  <2>1. late \in Frame /\ late \in Known
    BY <1>0, <1>6 DEF LateWrite, Known
  <2> QED
    BY <1>0, <1>6, <2>1, TakenStep DEF LateWrite
<1>7. CASE WriteDone
  <2> DEFINE f == Head(frames)
  <2>0. f \in Frame /\ Served' = Served /\ UNCHANGED closed
    BY <1>0, <1>7, RangeTail, SameServed DEF WriteDone
  <2>1. CASE f.kind = "notice"
    <3>1. f.of \in Calls /\ Settle(f.of, "resolved")
      BY <1>0, <1>7, <2>0, <2>1, FrameFacts DEF WriteDone
    <3>2. call[f.of] = "waiting"
      BY <1>0, <1>7, <2>1, QueuedTail DEF WriteDone
    <3>3. f \in RangeOf(taken) /\ ~closed
      BY <1>0, <1>7 DEF WriteDone, OnTheWay
    <3>4. f.of \in Served
      <4>1. PICK i \in 1 .. Len(taken) : taken[i] = f
        BY <3>3 DEF RangeOf
      <4>2. i \in DOMAIN taken
        BY <1>0, <4>1, LenProperties
      <4> QED
        BY <2>1, <4>1, <4>2 DEF Served
    <3> QED
      BY <2>0, <3>1, <3>2, <3>3, <3>4, ResolveStep
  <2>2. CASE f.kind # "notice"
    BY <1>7, <2>0, <2>2, StutterStep DEF WriteDone
  <2> QED
    BY <2>1, <2>2
<1>8. CASE WriteFails
  <2> DEFINE f == Head(frames)
  <2>0. f \in Frame /\ f \in Known /\ Served' = Served /\ UNCHANGED closed
    BY <1>0, <1>8, RangeTail, SameServed DEF WriteFails, Known
  <2>1. CASE f.kind = "request" /\ pending[f.id] # None
    <3>1. f.id \in Ids /\ pending[f.id] = f.of /\ f.of \in Requests
      BY <1>0, <2>0, <2>1, FrameFacts DEF OwnedFrames, Owned
    <3>2. call[f.of] = "waiting"
      BY <1>0, <3>1 DEF PendingIsWaiting
    <3>3. Settle(f.of, "rejected")
      BY <1>8, <2>1 DEF WriteFails
    <3> QED
      BY <1>0, <2>0, <3>1, <3>2, <3>3, RejectStep
  <2>2. CASE f.kind = "notice"
    <3>1. f.of \in Calls /\ Settle(f.of, "rejected")
      BY <1>0, <1>8, <2>0, <2>2, FrameFacts DEF WriteFails
    <3>2. call[f.of] = "waiting"
      BY <1>0, <1>8, <2>2, QueuedTail DEF WriteFails
    <3> QED
      BY <2>0, <3>1, <3>2, RejectStep
  <2>3. CASE ~(f.kind = "request" /\ pending[f.id] # None) /\ f.kind # "notice"
    <3>1. UNCHANGED call
      BY <1>8, <2>3 DEF WriteFails
    <3> QED
      BY <2>0, <3>1, StutterStep
  <2> QED
    BY <2>1, <2>2, <2>3
<1>9. ASSUME NEW f \in answers, Response(f) PROVE PromiseStep
  <2>0. /\ f \in replied /\ f \in Known /\ f.kind = "request" /\ f.id \in Ids
        /\ ~closed /\ UNCHANGED closed /\ Served' = Served
    BY <1>0, <1>9, FrameFacts, SameServed DEF OnTheWay, Known, Response
  <2>1. /\ pending[f.id] = f.of /\ f.of \in Requests
        /\ call[f.of] = "waiting"
    BY <1>0, <1>9, <2>0, FrameFacts DEF OwnedFrames, Owned, Response, PendingIsWaiting
  <2>2. f.of \in Served
    BY <2>0 DEF Served
  <2>3. CASE Settle(f.of, "resolved")
    BY <1>0, <2>0, <2>1, <2>2, <2>3, ResolveStep
  <2>4. CASE Settle(f.of, "rejected")
    BY <1>0, <2>0, <2>1, <2>4, RejectStep
  <2>5. CASE UNCHANGED call
    BY <2>0, <2>5, StutterStep
  <2> QED
    BY <1>9, <2>1, <2>3, <2>4, <2>5 DEF Response
<1>10. CASE Fail
  <2>1. Served' = Served
    BY <1>10, SameServed DEF Fail
  <2>2. Promise!End
    BY <1>10, <2>1 DEF Fail, Promise!End, Served
  <2> QED
    BY <2>2 DEF PromiseStep, Promise!Next
<1>11. ASSUME NEW i \in DOMAIN taken, EngineReplies(i) PROVE PromiseStep
  <2>1. taken[i] \in Frame /\ taken[i] \in Known /\ taken[i].kind = "request"
    <3>1. i \in 1 .. Len(taken)
      BY <1>0, LenProperties
    <3> QED
      BY <1>0, <1>11, <3>1 DEF EngineReplies, Known, RangeOf
  <2>2. taken[i].of \in Calls /\ call[taken[i].of] # "new"
    BY <1>0, <2>1, FrameFacts DEF OwnedFrames, Owned
  <2>3. Served' = Served \cup {taken[i].of} /\ UNCHANGED <<call, closed>>
    BY <1>11 DEF EngineReplies, Served
  <2> QED
    BY <2>2, <2>3, ServeStep
<1>12. CASE UNCHANGED <<call, closed, taken, replied>>
  BY <1>12, SameServed, StutterStep
<1>13. \/ \E r \in Requests : Request(r) \/ RequestRefused(r) \/ TimerFires(r)
       \/ \E n \in Notices : Notify(n)
       \/ \E c \in Calls : CallAfterClose(c)
       \/ PipeTakes \/ LateWrite \/ WriteDone \/ WriteFails \/ Fail
       \/ \E f \in answers : Response(f)
       \/ \E i \in DOMAIN taken : EngineReplies(i)
       \/ UNCHANGED <<call, closed, taken, replied>>
  BY DEF Next, ResponseToNobody, ReverseRequest, ReverseRequestRefused, HandlerReturns,
     HandlerThrows, vars
<1> QED
  BY <1>1, <1>2, <1>3, <1>4, <1>5, <1>6, <1>7, <1>8, <1>9, <1>10, <1>11, <1>12, <1>13

\* The peer keeps what the services rely on: a request is settled once, resolved by
\* its own answer only, and none waits when the connection has ended.
THEOREM ImplementsPromise == Spec => KeepsPromise
<1>1. Init => Promise!Init
  <2> SUFFICES ASSUME Init PROVE Promise!Init
    OBVIOUS
  <2>1. DOMAIN taken = {}
    BY EmptySeq, LenProperties DEF Init
  <2> QED
    BY <2>1 DEF Init, Promise!Init
<1>2. IInv /\ [Next]_vars => [Promise!Next]_(Promise!vars)
  BY NextPromise DEF PromiseStep, Promise!vars, Served
<1> QED
  BY <1>1, <1>2, InvariantHolds, PTL DEF Spec, KeepsPromise, Promise!Spec

-----------------------------------------------------------------------------
(* One answer to each request of the engine.  What the engine has not read *)
(* yet is the queue without a frame the pipe has taken.                    *)

Unread == IF handed THEN Tail(frames) ELSE frames

ReverseOf(s) == {s[i].of : i \in 1 .. Len(s)} \cap Reverse

OnceEach(s) ==
    \A i, j \in 1 .. Len(s) : s[i].of \in Reverse /\ s[i].of = s[j].of => i = j

\* An answer is on its way once, or has been read, and its handler has returned.
AnswerInv ==
    /\ OnceEach(Unread) /\ OnceEach(taken)
    /\ ReverseOf(Unread) \cap ReverseOf(taken) = {}
    /\ ReverseOf(Unread) \cup ReverseOf(taken) \subseteq {q \in Reverse : handler[q] = "done"}
    /\ late # None =>
         /\ closed
         /\ late.of \in Reverse => late.of \notin ReverseOf(taken) /\ handler[late.of] = "done"

LEMMA OnceAppend ==
    ASSUME NEW s \in Seq(Frame), NEW f \in Frame, OnceEach(s),
           f.of \in Reverse => f.of \notin ReverseOf(s)
    PROVE  /\ OnceEach(Append(s, f))
           /\ ReverseOf(Append(s, f)) = ReverseOf(s) \cup ({f.of} \cap Reverse)
<1> DEFINE t == Append(s, f)
<1>1. Len(s) \in Nat /\ Len(t) = Len(s) + 1 /\ t[Len(s) + 1] = f
      /\ \A i \in 1 .. Len(s) : t[i] = s[i]
  BY AppendProperties, LenProperties
<1>2. 1 .. Len(t) = 1 .. Len(s) \cup {Len(s) + 1}
  BY <1>1
<1> HIDE DEF t
<1>3. ASSUME NEW i \in 1 .. Len(t), NEW j \in 1 .. Len(t),
             t[i].of \in Reverse, t[i].of = t[j].of
      PROVE  i = j
  <2>1. CASE i \in 1 .. Len(s) /\ j \in 1 .. Len(s)
    BY <1>1, <1>3, <2>1 DEF OnceEach
  <2>2. \A k \in 1 .. Len(s) : t[k].of \in Reverse => t[k].of # f.of
    BY <1>1 DEF ReverseOf
  <2>3. CASE i = Len(s) + 1 \/ j = Len(s) + 1
    BY <1>1, <1>2, <1>3, <2>2, <2>3
  <2> QED
    BY <1>2, <2>1, <2>3
<1>4. ReverseOf(t) = ReverseOf(s) \cup ({f.of} \cap Reverse)
  BY <1>1, <1>2 DEF ReverseOf
<1>5. OnceEach(t)
  BY <1>3 DEF OnceEach
<1> QED
  BY <1>4, <1>5 DEF t

LEMMA OnceTail ==
    ASSUME NEW s \in Seq(Frame), s # <<>>, OnceEach(s)
    PROVE  /\ OnceEach(Tail(s))
           /\ ReverseOf(Tail(s)) \subseteq ReverseOf(s) \ {Head(s).of}
           /\ Head(s).of \in Reverse => Head(s).of \in ReverseOf(s)
<1> DEFINE t == Tail(s)
<1>1. /\ Head(s) = s[1] /\ 1 \in 1 .. Len(s)
      /\ \A i \in 1 .. Len(t) : i + 1 \in 1 .. Len(s) /\ t[i] = s[i + 1]
  BY RangeTail
<1>2. Len(t) \in Nat
  BY RangeTail, LenProperties
<1> HIDE DEF t
<1>3. ASSUME NEW i \in 1 .. Len(t), NEW j \in 1 .. Len(t),
             t[i].of \in Reverse, t[i].of = t[j].of
      PROVE  i = j
  <2>1. i + 1 = j + 1
    BY <1>1, <1>3 DEF OnceEach
  <2> QED
    BY <1>2, <2>1
<1>4. ASSUME NEW i \in 1 .. Len(t), t[i].of \in Reverse
      PROVE  t[i].of \in ReverseOf(s) /\ t[i].of # Head(s).of
  <2>1. i + 1 # 1
    BY <1>2
  <2> QED
    BY <1>1, <1>4, <2>1 DEF OnceEach, ReverseOf
<1>5. OnceEach(t) /\ ReverseOf(t) \subseteq ReverseOf(s) \ {Head(s).of}
  BY <1>3, <1>4 DEF OnceEach, ReverseOf
<1>6. Head(s).of \in Reverse => Head(s).of \in ReverseOf(s)
  BY <1>1 DEF ReverseOf
<1> QED
  BY <1>5, <1>6 DEF t

LEMMA UnreadFrames ==
    ASSUME TypeOK, OnTheWay
    PROVE  /\ Unread \in Seq(Frame) /\ frames \in Seq(Frame) /\ taken \in Seq(Frame)
           /\ ~handed => Unread = frames
           /\ handed => frames # <<>> /\ Unread = Tail(frames)
BY RangeTail DEF TypeOK, OnTheWay, Unread

\* A frame joins the end of what is unread, whether or not the first is being written.
LEMMA EnqueueUnread ==
    ASSUME TypeOK, OnTheWay, NEW f \in Frame, Enqueue(f, frames, buffered), UNCHANGED handed
    PROVE  Unread' \in {Unread, Append(Unread, f)} /\ (closed => Unread' = Unread)
<1>1. frames \in Seq(Frame) /\ buffered \in Int /\ buffered <= MaxBufferedBytes
  BY DEF TypeOK
<1>2. \/ frames' = frames /\ ~Accepts(f, buffered)
      \/ frames' = Append(frames, f) /\ Accepts(f, buffered)
  BY <1>1, EnqueueFacts
<1>3. CASE frames' = frames
  BY <1>3 DEF Unread
<1>4. CASE frames' = Append(frames, f) /\ ~closed
  <2>1. ASSUME frames # <<>> PROVE Tail(Append(frames, f)) = Append(Tail(frames), f)
    BY <1>1, <2>1, SMT
  <2> QED
    BY <1>4, <2>1 DEF Unread, OnTheWay
<1> QED
  BY <1>2, <1>3, <1>4 DEF Accepts

LEMMA FrameJoins ==
    ASSUME TypeOK, OnTheWay, AnswerInv, NEW f \in Frame,
           Unread' \in {Unread, Append(Unread, f)}, UNCHANGED <<taken, late, closed>>,
           \A q \in Reverse : handler[q] = "done" => handler'[q] = "done",
           f.of \in Reverse => handler[f.of] # "done" /\ handler'[f.of] = "done"
    PROVE  AnswerInv'
<1>1. Unread \in Seq(Frame)
  BY UnreadFrames
<1>2. f.of \in Reverse => f.of \notin ReverseOf(Unread) \cup ReverseOf(taken)
  BY DEF AnswerInv
<1>3. /\ OnceEach(Unread')
      /\ ReverseOf(Unread') \subseteq ReverseOf(Unread) \cup ({f.of} \cap Reverse)
  <2>1. CASE Unread' = Unread
    BY <2>1 DEF AnswerInv
  <2>2. CASE Unread' = Append(Unread, f)
    BY <1>1, <1>2, <2>2, OnceAppend DEF AnswerInv
  <2> QED
    BY <2>1, <2>2
<1>4. OnceEach(taken') /\ ReverseOf(taken') = ReverseOf(taken)
  BY DEF AnswerInv
<1> QED
  BY <1>2, <1>3, <1>4 DEF AnswerInv

LEMMA NewFrameJoins ==
    ASSUME TypeOK, OnTheWay, AnswerInv, NEW f \in Frame, Enqueue(f, frames, buffered),
           UNCHANGED <<handed, taken, late, closed>>,
           \A q \in Reverse : handler[q] = "done" => handler'[q] = "done",
           f.of \in Reverse => handler[f.of] # "done" /\ handler'[f.of] = "done"
    PROVE  AnswerInv'
BY EnqueueUnread, FrameJoins

\* A result that cannot be written is taken out of the queue before its error joins it.
LEMMA WriteFailsOnce ==
    ASSUME TypeOK, OnTheWay, AnswerInv, WriteFails
    PROVE  AnswerInv'
<1> DEFINE f == Head(frames)
           rest == Tail(frames)
<1>1. /\ frames \in Seq(Frame) /\ frames # <<>> /\ ~handed /\ Unread = frames
      /\ UNCHANGED <<handed, taken, late, closed, handler>>
  BY UnreadFrames DEF WriteFails
<1>2. f \in Frame /\ rest \in Seq(Frame)
  BY <1>1, RangeTail
<1>3. /\ OnceEach(rest) /\ ReverseOf(rest) \subseteq ReverseOf(frames) \ {f.of}
      /\ f.of \in Reverse => f.of \in ReverseOf(frames)
  BY <1>1, OnceTail DEF AnswerInv
<1>4. f.kind = "result" => ErrorFrame(f.of) \in Frame /\ ErrorFrame(f.of).of = f.of
  BY <1>2, FrameFacts, NewFrames DEF ErrorFrame
<1>5. \/ frames' = rest
      \/ f.kind = "result" /\ frames' = Append(rest, ErrorFrame(f.of))
  BY DEF WriteFails, Enqueue
<1> HIDE DEF f, rest
<1>6. OnceEach(frames') /\ ReverseOf(frames') \subseteq ReverseOf(frames)
  <2>1. CASE frames' = rest
    BY <1>3, <2>1
  <2>2. CASE f.kind = "result" /\ frames' = Append(rest, ErrorFrame(f.of))
    BY <1>2, <1>3, <1>4, <2>2, OnceAppend
  <2> QED
    BY <1>5, <2>1, <2>2
<1>7. Unread' = frames'
  BY <1>1 DEF Unread
<1>8. OnceEach(taken') /\ ReverseOf(taken') = ReverseOf(taken)
  BY <1>1 DEF AnswerInv
<1> QED
  BY <1>1, <1>6, <1>7, <1>8 DEF AnswerInv

LEMMA NextAnswers == IInv /\ AnswerInv /\ [Next]_vars => AnswerInv'
<1> SUFFICES ASSUME IInv, AnswerInv, [Next]_vars PROVE AnswerInv'
  OBVIOUS
<1> USE DEF table, output, stream, engine
<1>0. /\ TypeOK /\ OnTheWay
      /\ Unread \in Seq(Frame) /\ frames \in Seq(Frame) /\ taken \in Seq(Frame)
  BY UnreadFrames DEF IInv
<1>1. ASSUME NEW r \in Requests, Request(r) PROVE AnswerInv'
  <2>1. RequestFrame(r) \in Frame /\ RequestFrame(r).of = r
    BY <1>0, <1>1, IdsAssumption, NewFrames DEF Request, TypeOK, Ids, RequestFrame
  <2> QED
    BY <1>0, <1>1, <2>1, NewFrameJoins, CallsAssumption DEF Request, Calls
<1>2. ASSUME NEW n \in Notices, Notify(n) PROVE AnswerInv'
  <2>1. NoticeFrame(n) \in Frame /\ NoticeFrame(n).of = n
    BY NewFrames DEF NoticeFrame
  <2> QED
    BY <1>0, <1>2, <2>1, NewFrameJoins, CallsAssumption DEF Notify, Calls
<1>3. ASSUME NEW q \in Reverse,
             ReverseRequestRefused(q) \/ HandlerReturns(q) \/ HandlerThrows(q)
      PROVE  AnswerInv'
  <2>1. PICK g \in {ResultFrame(q), ErrorFrame(q)} : Enqueue(g, frames, buffered)
    BY <1>3 DEF ReverseRequestRefused, HandlerReturns, HandlerThrows
  <2>2. g \in Frame /\ g.of = q
    <3>1. ResultFrame(q) \in Frame /\ ErrorFrame(q) \in Frame
      BY NewFrames
    <3>2. ResultFrame(q).of = q /\ ErrorFrame(q).of = q
      BY DEF ResultFrame, ErrorFrame
    <3> QED
      BY <3>1, <3>2
  <2>3. /\ handler[q] # "done" /\ handler' = [handler EXCEPT ![q] = "done"]
        /\ UNCHANGED <<handed, taken, late, closed>>
    BY <1>3 DEF ReverseRequestRefused, HandlerReturns, HandlerThrows
  <2>4. handler'[q] = "done" /\ \A p \in Reverse : handler[p] = "done" => handler'[p] = "done"
    BY <1>0, <2>3 DEF TypeOK
  <2> QED
    BY <1>0, <2>1, <2>2, <2>3, <2>4, NewFrameJoins
<1>4. ASSUME NEW q \in Reverse, ReverseRequest(q) PROVE AnswerInv'
  <2>1. UNCHANGED <<Unread, taken, late, closed>>
    BY <1>4 DEF ReverseRequest, Unread
  <2>2. \A p \in Reverse : handler[p] = "done" => handler'[p] = "done"
    BY <1>0, <1>4 DEF ReverseRequest, TypeOK
  <2>3. OnceEach(Unread') /\ OnceEach(taken')
        /\ ReverseOf(Unread') = ReverseOf(Unread) /\ ReverseOf(taken') = ReverseOf(taken)
    BY <2>1 DEF AnswerInv
  <2> QED
    BY <2>1, <2>2, <2>3 DEF AnswerInv
<1>5. CASE PipeTakes
  <2> DEFINE f == Head(frames)
  <2>1. /\ ~handed /\ Unread = frames /\ frames # <<>>
        /\ Unread' = Tail(frames) /\ taken' = Append(taken, f)
        /\ UNCHANGED <<late, closed, handler>>
    BY <1>5, UnreadFrames, <1>0 DEF PipeTakes, Unread
  <2>2. f \in Frame
    BY <1>0, <2>1, RangeTail
  <2>3. /\ OnceEach(Unread') /\ ReverseOf(Unread') \subseteq ReverseOf(Unread) \ {f.of}
        /\ f.of \in Reverse => f.of \in ReverseOf(Unread)
    BY <1>0, <2>1, OnceTail DEF AnswerInv
  <2> HIDE DEF f
  <2>4. OnceEach(taken') /\ ReverseOf(taken') = ReverseOf(taken) \cup ({f.of} \cap Reverse)
    BY <1>0, <2>1, <2>2, <2>3, OnceAppend DEF AnswerInv
  <2>5. late = None
    BY <1>0, <2>1 DEF AnswerInv, OnTheWay
  <2> QED
    BY <2>1, <2>3, <2>4, <2>5 DEF AnswerInv
<1>6. CASE WriteDone
  <2>1. Unread' = Unread /\ UNCHANGED <<taken, late, closed, handler>>
    BY <1>6 DEF WriteDone, Unread
  <2> QED
    BY <2>1 DEF AnswerInv
<1>7. CASE WriteFails
  BY <1>0, <1>7, WriteFailsOnce
<1>8. CASE Fail
  <2>1. /\ Unread' = <<>> /\ late' \in {None, Head(Unread)} /\ closed'
        /\ late' # None => Unread # <<>>
        /\ UNCHANGED <<taken, handler>>
    BY <1>8 DEF Fail, Unread
  <2>2. Len(Unread') = 0
    BY <2>1
  <2>3. OnceEach(Unread') /\ ReverseOf(Unread') = {}
    BY <2>2 DEF OnceEach, ReverseOf
  <2>4. late' # None /\ late'.of \in Reverse => late'.of \in ReverseOf(Unread)
    BY <1>0, <2>1, OnceTail DEF AnswerInv
  <2>5. OnceEach(taken') /\ ReverseOf(taken') = ReverseOf(taken)
    BY <2>1 DEF AnswerInv
  <2> QED
    BY <2>1, <2>3, <2>4, <2>5 DEF AnswerInv
<1>9. CASE LateWrite
  <2>1. late # None /\ late \in Frame /\ late' = None /\ taken' = Append(taken, late)
        /\ UNCHANGED <<frames, handed, closed, handler>>
    BY <1>0, <1>9 DEF LateWrite, TypeOK
  <2>2. Unread' = Unread
    BY <2>1 DEF Unread
  <2>3. closed /\ frames = <<>> /\ ~handed /\ Unread = <<>>
    BY <1>0, <2>1 DEF AnswerInv, OnTheWay, Unread
  <2>4. ReverseOf(Unread) = {}
    <3>1. Len(Unread) = 0
      BY <2>3
    <3> QED
      BY <3>1 DEF ReverseOf
  <2>5. OnceEach(taken') /\ ReverseOf(taken') = ReverseOf(taken) \cup ({late.of} \cap Reverse)
    BY <1>0, <2>1, OnceAppend DEF AnswerInv
  <2> QED
    BY <2>1, <2>2, <2>4, <2>5 DEF AnswerInv
<1>10. CASE UNCHANGED <<frames, handed, taken, late, closed, handler>>
  <2>1. UNCHANGED Unread
    BY <1>10 DEF Unread
  <2> QED
    BY <1>10, <2>1 DEF AnswerInv
<1>11. \/ \E r \in Requests : Request(r)
       \/ \E n \in Notices : Notify(n)
       \/ \E q \in Reverse : ReverseRequestRefused(q) \/ HandlerReturns(q) \/ HandlerThrows(q)
       \/ \E q \in Reverse : ReverseRequest(q)
       \/ PipeTakes \/ WriteDone \/ WriteFails \/ Fail \/ LateWrite
       \/ UNCHANGED <<frames, handed, taken, late, closed, handler>>
  BY DEF Next, RequestRefused, TimerFires, CallAfterClose, Response, ResponseToNobody,
     EngineReplies, vars
<1> QED
  BY <1>1, <1>2, <1>3, <1>4, <1>5, <1>6, <1>7, <1>8, <1>9, <1>10, <1>11

\* The engine reads at most one answer to each of its requests, whatever was refused,
\* failed to be written, or was still in the stream when the peer closed.
THEOREM EngineReadsOneAnswer == Spec => []OneAnswer
<1>1. Init => AnswerInv
  <2> SUFFICES ASSUME Init PROVE AnswerInv
    OBVIOUS
  <2>1. Unread = <<>> /\ taken = <<>> /\ late = None
    BY DEF Init, Unread
  <2>2. Len(Unread) = 0 /\ Len(taken) = 0
    BY <2>1
  <2>3. OnceEach(Unread) /\ OnceEach(taken) /\ ReverseOf(Unread) = {} /\ ReverseOf(taken) = {}
    BY <2>2 DEF OnceEach, ReverseOf
  <2> QED
    BY <2>1, <2>3 DEF AnswerInv
<1>2. IInv /\ AnswerInv => OneAnswer
  <2> SUFFICES ASSUME IInv, AnswerInv PROVE OneAnswer
    OBVIOUS
  <2>1. DOMAIN taken = 1 .. Len(taken)
    BY LenProperties DEF IInv, TypeOK
  <2> QED
    BY <2>1 DEF AnswerInv, OnceEach, OneAnswer
<1> QED
  BY <1>1, <1>2, NextAnswers, InvariantHolds, PTL DEF Spec
=============================================================================
