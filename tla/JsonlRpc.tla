------------------------------ MODULE JsonlRpc ------------------------------
(***************************************************************************)
(* The JSON-RPC peer on the pipes of the agent engine: JsonlRpcPeer of     *)
(* src/main/runtime/jsonlRpc.ts, from its construction to its end.         *)
(*                                                                         *)
(* frames is the frame being written followed by the write queue: the code *)
(* starts the next write as soon as the last one ends, so #currentWrite is *)
(* Head(frames).  An action is one task of the event loop: a call, a       *)
(* chunk of input, a write callback, a timer or an event of a stream, with *)
(* the microtasks it leads to.  Messages are abstracted to whom they       *)
(* belong to; a batch of lines in one chunk is several actions.            *)
(***************************************************************************)
EXTENDS Integers, Sequences

CONSTANTS
    Requests,          \* calls of request()
    Unlimited,         \* those made with timeoutMs null
    Notices,           \* calls of notify()
    Reverse,           \* requests the engine makes, such as approvals
    Bytes,             \* the length of the line of each of them
    ErrorBytes,        \* the length of an error response
    MaxLineBytes,
    MaxBufferedBytes,  \* maxBufferedWriteBytes
    MaxId,             \* bound: identifiers (MAX_SAFE_INTEGER, never reached)
    None               \* undefined

Calls == Requests \cup Notices
Ids == 1 .. MaxId

ASSUME CallsAssumption ==
    /\ Unlimited \subseteq Requests
    /\ Requests \cap Notices = {} /\ Calls \cap Reverse = {}
    /\ None \notin Requests
ASSUME BytesAssumption ==
    /\ Bytes \in [Calls \cup Reverse -> Nat \ {0}] /\ ErrorBytes \in Nat \ {0}
    /\ MaxLineBytes \in Nat /\ MaxBufferedBytes \in Nat
ASSUME IdsAssumption == MaxId \in Nat

VARIABLES
    call,           \* the promise each call returned
    nextRequestId,  \* #nextRequestId
    pending,        \* #pending: the request that waits under each identifier
    timers,         \* requests whose timeout is armed
    frames,         \* #currentWrite and #writeQueue
    buffered,       \* #bufferedWriteBytes
    handed,         \* the stream has taken the frame being written
    broken,         \* a write has failed
    late,           \* a frame the stream still held when the peer closed
    closed,         \* #closedError is set
    handler,        \* the handler of each reverse request
    taken,          \* the engine's input
    replied,        \* the requests the engine has answered
    answers         \* its answers that the peer has not read yet

table == <<nextRequestId, pending, timers>>
output == <<frames, buffered>>
stream == <<handed, broken, late, closed, taken>>
engine == <<replied, answers>>
vars == <<call, table, output, stream, handler, engine>>

Frame ==
    [kind : {"request"}, of : Requests, id : Ids]
        \cup [kind : {"notice"}, of : Notices, id : {0}]
        \cup [kind : {"result", "error"}, of : Reverse, id : {0}]

TypeOK ==
    /\ call \in [Calls -> {"new", "waiting", "resolved", "rejected"}]
    /\ nextRequestId \in 1 .. MaxId + 1
    /\ pending \in [Ids -> Requests \cup {None}]
    /\ timers \subseteq Requests
    /\ frames \in Seq(Frame) /\ taken \in Seq(Frame)
    /\ buffered \in Int /\ buffered <= MaxBufferedBytes
    /\ handed \in BOOLEAN /\ broken \in BOOLEAN /\ closed \in BOOLEAN
    /\ late \in Frame \cup {None}
    /\ handler \in [Reverse -> {"none", "running", "done"}]
    /\ replied \subseteq Frame /\ answers \subseteq Frame

Init ==
    /\ call = [c \in Calls |-> "new"]
    /\ nextRequestId = 1 /\ pending = [i \in Ids |-> None] /\ timers = {}
    /\ frames = <<>> /\ buffered = 0
    /\ handed = FALSE /\ broken = FALSE /\ late = None /\ closed = FALSE
    /\ handler = [q \in Reverse |-> "none"]
    /\ taken = <<>> /\ replied = {} /\ answers = {}

-----------------------------------------------------------------------------
(* Building blocks.                                                        *)

RequestFrame(r) == [kind |-> "request", of |-> r, id |-> nextRequestId]
NoticeFrame(n) == [kind |-> "notice", of |-> n, id |-> 0]
ResultFrame(q) == [kind |-> "result", of |-> q, id |-> 0]
ErrorFrame(q) == [kind |-> "error", of |-> q, id |-> 0]

Size(f) == IF f.kind = "error" THEN ErrorBytes ELSE Bytes[f.of]

Settle(c, outcome) == call' = [call EXCEPT ![c] = outcome]

\* A write callback that failed, or an answer, ends the request that still waits.
Forget(i) == pending' = [pending EXCEPT ![i] = None] /\ timers' = timers \ {pending[i]}

\* #enqueue takes the frame, or rejects it: closed, too long, or the queue full.
Accepts(f, bytes) ==
    ~closed /\ Size(f) <= MaxLineBytes /\ bytes + Size(f) <= MaxBufferedBytes

\* The queue and its bytes become q and b, with f added when it is accepted.
Enqueue(f, q, b) ==
    IF Accepts(f, b) THEN frames' = Append(q, f) /\ buffered' = b + Size(f)
    ELSE frames' = q /\ buffered' = b

-----------------------------------------------------------------------------
(* Calls of the services.                                                  *)

\* Fault: the lowest identifier that nobody waits under is used again.
Fault_RequestReusesId(r) ==
    /\ call[r] = "new" /\ ~closed
    /\ \E i \in Ids :
         LET f == [kind |-> "request", of |-> r, id |-> i]
         IN /\ pending[i] = None /\ \A j \in Ids : j < i => pending[j] # None
            /\ Accepts(f, buffered)
            /\ pending' = [pending EXCEPT ![i] = r]
            /\ Enqueue(f, frames, buffered)
    /\ timers' = IF r \in Unlimited THEN timers ELSE timers \cup {r}
    /\ Settle(r, "waiting")
    /\ UNCHANGED <<nextRequestId, stream, handler, engine>>

Request(r) ==
    /\ call[r] = "new" /\ ~closed /\ nextRequestId <= MaxId
    /\ nextRequestId' = nextRequestId + 1
    /\ Accepts(RequestFrame(r), buffered)
    /\ pending' = [pending EXCEPT ![nextRequestId] = r]
    /\ timers' = IF r \in Unlimited THEN timers ELSE timers \cup {r}
    /\ Settle(r, "waiting")
    /\ Enqueue(RequestFrame(r), frames, buffered)
    /\ UNCHANGED <<stream, handler, engine>>

\* The entry made for a request that the queue refuses is taken back at once.
RequestRefused(r) ==
    /\ call[r] = "new" /\ ~closed /\ nextRequestId <= MaxId
    /\ ~Accepts(RequestFrame(r), buffered)
    /\ nextRequestId' = nextRequestId + 1
    /\ Settle(r, "rejected")
    /\ UNCHANGED <<pending, timers, output, stream, handler, engine>>

Notify(n) ==
    /\ call[n] = "new" /\ ~closed
    /\ Settle(n, IF Accepts(NoticeFrame(n), buffered) THEN "waiting" ELSE "rejected")
    /\ Enqueue(NoticeFrame(n), frames, buffered)
    /\ UNCHANGED <<table, stream, handler, engine>>

CallAfterClose(c) ==
    /\ call[c] = "new" /\ closed
    /\ Settle(c, "rejected")
    /\ UNCHANGED <<table, output, stream, handler, engine>>

TimerFires(r) ==
    /\ r \in timers
    /\ timers' = timers \ {r}
    /\ pending' = [i \in Ids |-> IF pending[i] = r THEN None ELSE pending[i]]
    /\ Settle(r, "rejected")
    /\ UNCHANGED <<nextRequestId, output, stream, handler, engine>>

-----------------------------------------------------------------------------
(* Writing.                                                                *)

\* The pipe takes the frame being written; the engine may read it from now on.
PipeTakes ==
    /\ frames # <<>> /\ ~handed /\ ~broken
    /\ handed' = TRUE
    /\ taken' = Append(taken, Head(frames))
    /\ UNCHANGED <<call, table, output, broken, late, closed, handler, engine>>

\* The callback of a write that succeeded starts the next one.
WriteDone ==
    /\ frames # <<>> /\ handed
    /\ frames' = Tail(frames)
    /\ buffered' = buffered - Size(Head(frames))
    /\ handed' = FALSE
    /\ IF Head(frames).kind = "notice" THEN Settle(Head(frames).of, "resolved")
       ELSE UNCHANGED call
    /\ UNCHANGED <<table, broken, late, closed, taken, handler, engine>>

\* A write fails, and so does every later one.  The request is withdrawn if it still
\* waits; for a result that could not be written an error response is queued.
WriteFails ==
    /\ frames # <<>> /\ ~handed
    /\ broken' = TRUE
    /\ LET f == Head(frames)
           rest == buffered - Size(f)
       IN /\ CASE f.kind = "request" /\ pending[f.id] # None ->
                    Settle(f.of, "rejected") /\ Forget(f.id)
               [] f.kind = "notice" -> Settle(f.of, "rejected") /\ UNCHANGED <<pending, timers>>
               [] OTHER -> UNCHANGED <<call, pending, timers>>
          /\ IF f.kind = "result" THEN Enqueue(ErrorFrame(f.of), Tail(frames), rest)
             ELSE frames' = Tail(frames) /\ buffered' = rest
    /\ UNCHANGED <<nextRequestId, handed, late, closed, taken, handler, engine>>

-----------------------------------------------------------------------------
(* Reading.                                                                *)

\* Fault: a malformed answer disarms the timeout.
Fault_MalformedClearsTimer(f) ==
    /\ f \in answers /\ ~closed
    /\ answers' = answers \ {f}
    /\ pending[f.id] # None
    /\ \/ Forget(f.id) /\ \E outcome \in {"resolved", "rejected"} : Settle(pending[f.id], outcome)
       \/ timers' = timers \ {pending[f.id]} /\ UNCHANGED <<call, pending>>
    /\ UNCHANGED <<nextRequestId, output, stream, handler, replied>>

\* #handleResponse: a result, an error, or an answer that is not well formed and
\* leaves the request waiting.
Response(f) ==
    /\ f \in answers /\ ~closed
    /\ answers' = answers \ {f}
    /\ pending[f.id] # None
    /\ \/ Forget(f.id) /\ \E outcome \in {"resolved", "rejected"} : Settle(pending[f.id], outcome)
       \/ UNCHANGED <<call, pending, timers>>
    /\ UNCHANGED <<nextRequestId, output, stream, handler, replied>>

\* The request has timed out or was withdrawn.
ResponseToNobody(f) ==
    /\ f \in answers /\ ~closed
    /\ answers' = answers \ {f}
    /\ pending[f.id] = None
    /\ UNCHANGED <<call, table, output, stream, handler, replied>>

ReverseRequest(q) ==
    /\ handler[q] = "none" /\ ~closed
    /\ handler' = [handler EXCEPT ![q] = "running"]
    /\ UNCHANGED <<call, table, output, stream, engine>>

\* No handler is registered, the parameters are invalid, or the line is no message.
ReverseRequestRefused(q) ==
    /\ handler[q] = "none" /\ ~closed
    /\ handler' = [handler EXCEPT ![q] = "done"]
    /\ Enqueue(ErrorFrame(q), frames, buffered)
    /\ UNCHANGED <<call, table, stream, engine>>

\* Fault: the error response is sent whatever became of the result.
Fault_AnswerTwice(q) ==
    /\ handler[q] = "running"
    /\ handler' = [handler EXCEPT ![q] = "done"]
    /\ Accepts(ResultFrame(q), buffered)
    /\ Enqueue(ErrorFrame(q), Append(frames, ResultFrame(q)),
               buffered + Size(ResultFrame(q)))
    /\ UNCHANGED <<call, table, stream, engine>>

\* The handler returns, perhaps long after the connection ended.  An error response
\* replaces a result that is refused.
HandlerReturns(q) ==
    /\ handler[q] = "running"
    /\ handler' = [handler EXCEPT ![q] = "done"]
    /\ Enqueue(IF Accepts(ResultFrame(q), buffered) THEN ResultFrame(q) ELSE ErrorFrame(q),
               frames, buffered)
    /\ UNCHANGED <<call, table, stream, engine>>

HandlerThrows(q) ==
    /\ handler[q] = "running"
    /\ handler' = [handler EXCEPT ![q] = "done"]
    /\ Enqueue(ErrorFrame(q), frames, buffered)
    /\ UNCHANGED <<call, table, stream, engine>>

-----------------------------------------------------------------------------
(* The end of the connection, and the engine.                              *)

\* #fail: end of file, an error or the end of a stream, a line that is too long, or
\* close().  The stream may still hold the frame that was being written.
Fail ==
    /\ ~closed
    /\ closed' = TRUE
    /\ call' = [c \in Calls |-> IF call[c] = "waiting" THEN "rejected" ELSE call[c]]
    /\ pending' = [i \in Ids |-> None] /\ timers' = {}
    /\ late' = IF frames = <<>> \/ handed \/ broken THEN None ELSE Head(frames)
    /\ frames' = <<>> /\ buffered' = 0 /\ handed' = FALSE
    /\ UNCHANGED <<nextRequestId, broken, taken, handler, engine>>

\* The pipe takes that frame.  Its callback finds that it is no longer current.
LateWrite ==
    /\ late # None
    /\ late' = None /\ taken' = Append(taken, late)
    /\ UNCHANGED <<call, table, output, handed, broken, closed, handler, engine>>

\* The engine answers a request it was given, in any order and at any time.
EngineReplies(i) ==
    /\ i \in DOMAIN taken /\ taken[i].kind = "request" /\ taken[i] \notin replied
    /\ replied' = replied \cup {taken[i]} /\ answers' = answers \cup {taken[i]}
    /\ UNCHANGED <<call, table, output, stream, handler>>

Next ==
    \/ \E r \in Requests : Request(r) \/ RequestRefused(r) \/ TimerFires(r)
    \/ \E n \in Notices : Notify(n)
    \/ \E c \in Calls : CallAfterClose(c)
    \/ PipeTakes \/ WriteDone \/ WriteFails
    \/ \E f \in answers : Response(f) \/ ResponseToNobody(f)
    \/ \E q \in Reverse :
         ReverseRequest(q) \/ ReverseRequestRefused(q) \/ HandlerReturns(q) \/ HandlerThrows(q)
    \/ Fail \/ LateWrite
    \/ \E i \in DOMAIN taken : EngineReplies(i)

Spec == Init /\ [][Next]_vars

\* Node fires the timeouts.  Nothing is owed by the engine, the pipes and the user.
FairSpec == Spec /\ \A r \in Requests : WF_vars(TimerFires(r))

-----------------------------------------------------------------------------
(* Properties.                                                             *)

\* Every caller that waits is in the table under one identifier, and nobody else is,
\* through refusals, failed writes, timeouts, late answers and the end: no request is
\* forgotten and no entry leaks.  A timeout is armed exactly while it is needed.
PendingIsWaiting ==
    /\ \A r \in Requests : call[r] = "waiting" <=> \E i \in Ids : pending[i] = r
    /\ \A i, j \in Ids : pending[i] # None /\ pending[i] = pending[j] => i = j
    /\ timers = {r \in Requests \ Unlimited : call[r] = "waiting"}

\* The engine reads at most one answer to each of its requests, also when the result
\* was refused, failed to be written or came after an error: an approval is not
\* answered twice.
OneAnswer ==
    \A i, j \in DOMAIN taken :
        taken[i].of \in Reverse /\ taken[i].of = taken[j].of => i = j

\* A request with a timeout settles, whatever the engine and the pipes do.
RequestsSettle ==
    \A r \in Requests \ Unlimited :
        (call[r] = "waiting") ~> (call[r] \in {"resolved", "rejected"})

Promise == INSTANCE RequestPromise WITH
    served <- {f.of : f \in replied}
                \cup {taken[i].of : i \in {j \in DOMAIN taken : taken[j].kind = "notice"}},
    open <- ~closed

\* docs/PROTOCOL.md: each request settles once, resolved by its own answer only, and
\* the end of the connection rejects all that are not finished.
KeepsPromise == Promise!Spec
=============================================================================
