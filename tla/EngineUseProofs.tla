--------------------------- MODULE EngineUseProofs ---------------------------
(***************************************************************************)
(* Theorems about what the agent engine is used for, and what the user     *)
(* sees of it: Terminals and Turns, which count their work in the          *)
(* supervisor, Account and Integrations, which follow its phases,          *)
(* TerminalCanvas, Permissions and Goals, which show what it says, and     *)
(* Logs, where its lines are kept.                                         *)
(***************************************************************************)
EXTENDS Account, Integrations, Terminals, Turns, TerminalCanvas, Permissions, Goals,
        Logs, SequencesExt, SequenceTheorems, FiniteSetTheorems, WellFoundedInduction, TLAPS

-----------------------------------------------------------------------------
(* The engine.                                                             *)

\* Each start has a number, and an engine is ready once its start is over.
EngineInv ==
    /\ EngineTypeOK
    /\ phase = "ready" => settled /\ generation > 0
    /\ ~settled => generation > 0

LEMMA EngineInitInv == EngineInit => EngineInv
BY LifecycleAssumption DEF EngineInit, EngineInv, EngineTypeOK, EnginePhases

LEMMA EngineStepInv ==
    ASSUME EngineInv, [EngineNext]_engine
    PROVE  EngineInv'
<1> USE LifecycleAssumption DEF EngineInv, EngineTypeOK, EnginePhases
<1>1. CASE BeginStart
  <2>1. generation' \in 0 .. MaxGeneration /\ generation' > 0
    BY <1>1 DEF BeginStart
  <2>2. phase' = "starting" /\ settled' \in BOOLEAN
    BY <1>1 DEF BeginStart
  <2> QED
    BY <2>1, <2>2
<1>2. CASE StartSucceeds
  BY <1>2 DEF StartSucceeds
<1>3. CASE StartFails
  BY <1>3 DEF StartFails
<1>4. CASE Leave
  BY <1>4 DEF Leave
<1>5. CASE UNCHANGED engine
  BY <1>5 DEF engine
<1> QED
  BY <1>1, <1>2, <1>3, <1>4, <1>5 DEF EngineNext

-----------------------------------------------------------------------------
(* Terminals.                                                              *)

TermDataOK ==
    /\ session \in [Terms -> Open \cup {"new", "removed"}]
    /\ exec \subseteq Terms /\ closing \subseteq Terms /\ told \subseteq Terms
    /\ processCount \in Nat

\* A request in flight is that of a session that was begun and has not ended; one whose
\* end was asked for has been told.
EndIsTold ==
    /\ \A t \in exec :
         /\ session[t] \notin {"new", "exited", "failed"}
         /\ session[t] \in {"terminating", "removed"} => t \in told
    /\ closing \subseteq told

\* While the requests of a closed connection fail, the count is still theirs or already 0.
CountsProcesses ==
    \/ processCount = Cardinality(exec)
    \/ ConnectionLost /\ processCount = 0

TermInv == TermDataOK /\ EndIsTold /\ CountsProcesses

LEMMA TermInitInv == TermInit => TermInv
BY FS_EmptySet DEF TermInit, TermInv, TermDataOK, EndIsTold, CountsProcesses, Open

LEMMA SettleInv ==
    ASSUME TermInv, NEW t \in exec, NEW s \in {"exited", "failed"}, Settle(t, s),
           UNCHANGED <<engine, closing, told>>
    PROVE  TermInv'
<1> USE DEF TermInv, TermDataOK, engine
<1>1. IsFiniteSet(exec) /\ Cardinality(exec) \in Nat
  BY TermsAssumption, FS_Subset, FS_CardinalityType
<1>2. exec' = exec \ {t} /\ Cardinality(exec') = Cardinality(exec) - 1 /\ Cardinality(exec') \in Nat
  BY <1>1, FS_RemoveElement, FS_CardinalityType DEF Settle
<1>3. TermDataOK'
  BY <1>2 DEF Settle, Decremented, Open
<1>4. EndIsTold'
  BY <1>2 DEF EndIsTold, Settle, Open
<1>5. CountsProcesses'
  <2>1. CASE processCount = Cardinality(exec)
    BY <1>1, <1>2, <2>1 DEF CountsProcesses, Settle, Decremented
  <2>2. CASE ConnectionLost /\ processCount = 0
    <3>1. processCount' = 0
      BY <2>2 DEF Settle, Decremented
    <3>2. CASE exec' = {}
      BY <3>1, <3>2, FS_EmptySet DEF CountsProcesses
    <3>3. CASE exec' # {}
      BY <2>2, <3>1, <3>3 DEF CountsProcesses, ConnectionLost
    <3> QED
      BY <3>2, <3>3
  <2> QED
    BY <2>1, <2>2 DEF CountsProcesses
<1> QED
  BY <1>3, <1>4, <1>5

LEMMA TermStepInv == TermInv /\ [TermNext]_termVars => TermInv'
<1> SUFFICES ASSUME TermInv, [TermNext]_termVars PROVE TermInv'
  OBVIOUS
<1> USE DEF TermInv, TermDataOK, engine
<1>0. IsFiniteSet(exec) /\ Cardinality(exec) \in Nat
  BY TermsAssumption, FS_Subset, FS_CardinalityType
<1>a. UNCHANGED <<engine, exec, processCount>> => CountsProcesses'
  BY DEF CountsProcesses, ConnectionLost
<1>1. ASSUME NEW t \in Terms, Create(t) PROVE TermInv'
  <2>1. CASE phase = "ready"
    <3>1. /\ session' = [session EXCEPT ![t] = "starting"] /\ session[t] = "new"
          /\ exec' = exec \cup {t} /\ processCount' = processCount + 1
          /\ UNCHANGED <<engine, closing, told>>
      BY <1>1, <2>1 DEF Create, SetStatus
    <3>2. t \notin exec
      BY <3>1 DEF EndIsTold
    <3>3. Cardinality(exec') = Cardinality(exec) + 1
      BY <1>0, <3>1, <3>2, FS_AddElement
    <3>4. CountsProcesses'
      BY <2>1, <3>1, <3>3 DEF CountsProcesses, ConnectionLost
    <3>5. EndIsTold'
      BY <3>1 DEF EndIsTold
    <3> QED
      BY <3>1, <3>4, <3>5 DEF Open
  <2>2. CASE phase # "ready"
    BY <1>1, <1>a, <2>2 DEF Create, SetStatus, Open, EndIsTold
  <2> QED
    BY <2>1, <2>2
<1>2. ASSUME NEW t \in Terms, Output(t) PROVE TermInv'
  BY <1>2, <1>a DEF Output, SetStatus, Open, EndIsTold
<1>3. ASSUME NEW t \in Terms, ExecEnds(t) \/ ExecRejected(t) PROVE TermInv'
  BY <1>3, SettleInv DEF ExecEnds, ExecRejected
<1>4. ASSUME NEW t \in Terms, Terminate(t) PROVE TermInv'
  BY <1>4, <1>a DEF Terminate, SetStatus, Open, EndIsTold
<1>5. ASSUME NEW t \in Terms, Close(t) PROVE TermInv'
  BY <1>5, <1>a DEF Close, Active, SetStatus, Open, EndIsTold
<1>6. ASSUME NEW t \in Terms, CloseEnds(t) PROVE TermInv'
  BY <1>6, <1>a DEF CloseEnds, SetStatus, Open, EndIsTold
<1>7. CASE EngineStep
  <2>1. /\ processCount = Cardinality(exec) /\ UNCHANGED <<session, exec, closing, told>>
        /\ \/ processCount' = processCount
           \/ processCount' = 0 /\ phase' # "ready"
    BY <1>7 DEF EngineStep, CountsProcesses, Leave
  <2>2. CountsProcesses'
    <3>1. CASE processCount' = processCount
      BY <2>1, <3>1 DEF CountsProcesses
    <3>2. CASE processCount' = 0 /\ phase' # "ready"
      BY <2>1, <3>2, FS_EmptySet DEF CountsProcesses, ConnectionLost
    <3> QED
      BY <2>1, <3>1, <3>2
  <2> QED
    BY <2>1, <2>2 DEF EndIsTold
<1>8. CASE UNCHANGED termVars
  BY <1>8, <1>a DEF termVars, EndIsTold
<1> QED
  BY <1>1, <1>2, <1>3, <1>4, <1>5, <1>6, <1>7, <1>8 DEF TermNext

\* The supervisor counts the processes that run, and those without a session are told to end.
THEOREM ProcessesAreCounted == TermSpec => []ProcessesAreAccountedFor
<1>1. TermInv => ProcessesAreAccountedFor
  BY DEF TermInv, CountsProcesses, EndIsTold, ProcessesAreAccountedFor
<1> QED
  BY <1>1, TermInitInv, TermStepInv, PTL DEF TermSpec

-----------------------------------------------------------------------------
(* Turns: the engine and the count.                                        *)

LEMMA TurnMovesEngine ==
    ASSUME [TurnNext]_turnVars PROVE [EngineNext]_engine
<1>1. ASSUME NEW u \in TurnIds, NEW t \in Threads, NEW s \in BOOLEAN, StartTurn(u, t, s)
      PROVE  [EngineNext]_engine
  BY <1>1 DEF StartTurn, EngineNext
<1>2. CASE TurnsEngineReady \/ TurnsEngineNotReady
  BY <1>2 DEF TurnsEngineReady, TurnsEngineNotReady, EngineNext
<1>3. CASE UNCHANGED turnVars
  BY <1>3 DEF turnVars
<1> QED
  BY <1>1, <1>2, <1>3
  DEF TurnNext, Compact, TurnAsked, EngineRuns, TurnAnswered, TurnRefused, TurnTimedOut,
      Resumed, TurnStarted, EngineEndsTurn, TurnCompleted, RequestApproval, ResolveApproval,
      HandoffBegins, HandoffEnds

TurnDataOK ==
    /\ call \in [TurnIds -> {"idle", "start", "asked", "resume", "ok", "failed", "none"}]
    /\ run \in [TurnIds -> {"none", "running", "over", "lost"}]
    /\ heard \in [TurnIds -> {"none", "started", "completed"}]
    /\ turnCount \in Nat

\* The turns that are counted are at most those asked for whose end was not heard: an end
\* may be heard before the answer to the request.
Counted == {u \in TurnIds : call[u] \in {"asked", "ok"} /\ heard[u] # "completed"}

HeardInOrder ==
    \A u \in TurnIds :
        /\ run[u] = "none" => heard[u] = "none"
        /\ heard[u] = "started" => u \in activeTurns
        /\ call[u] \in {"idle", "start", "resume"} => run[u] = "none"

CountInv == TurnDataOK /\ HeardInOrder /\ turnCount <= Cardinality(Counted)

LEMMA CountedFinite == IsFiniteSet(Counted) /\ Cardinality(Counted) \in Nat
<1>1. Counted \in SUBSET TurnIds
  BY DEF Counted
<1> QED
  BY <1>1, TurnsAssumption, FS_Subset, FS_CardinalityType

\* A turn that joins or leaves those counted.
LEMMA OneMoreCounted ==
    ASSUME NEW u, u \notin Counted, Counted' = Counted \cup {u}
    PROVE  Cardinality(Counted') = Cardinality(Counted) + 1
BY CountedFinite, FS_AddElement

LEMMA OneLessCounted ==
    ASSUME NEW u, u \in Counted, Counted' = Counted \ {u}
    PROVE  Cardinality(Counted') = Cardinality(Counted) - 1
BY CountedFinite, FS_RemoveElement

LEMMA CountInitInv == TurnInit => CountInv
<1> SUFFICES ASSUME TurnInit PROVE CountInv
  OBVIOUS
<1>1. TurnDataOK /\ HeardInOrder /\ turnCount = 0
  BY DEF TurnInit, TurnDataOK, HeardInOrder
<1> QED
  BY <1>1, CountedFinite DEF CountInv

\* Asking for a turn counts it.
LEMMA AskKeepsCount ==
    ASSUME CountInv, NEW u \in TurnIds, call[u] \in {"start", "resume"}, AskTurn(u),
           UNCHANGED <<run, heard, activeTurns>>
    PROVE  CountInv'
<1> USE DEF CountInv, TurnDataOK
<1>1. TurnDataOK' /\ HeardInOrder'
  BY DEF AskTurn, MoveCall, HeardInOrder
<1>2. u \notin Counted
  BY DEF Counted
<1>3. CASE phase = "ready" /\ heard[u] # "completed"
  <2>1. call' = [call EXCEPT ![u] = "asked"] /\ heard' = heard
    BY <1>3 DEF AskTurn, MoveCall
  <2>2. \A v \in TurnIds : v \in Counted' <=> v \in Counted \/ v = u
    BY <1>3, <2>1 DEF Counted
  <2>3. Counted' = Counted \cup {u}
    BY <2>2 DEF Counted
  <2>4. Cardinality(Counted') = Cardinality(Counted) + 1
    BY <1>2, <2>3, OneMoreCounted
  <2>5. turnCount' = turnCount + 1
    BY <1>3 DEF AskTurn
  <2> QED
    BY <1>1, <2>4, <2>5, CountedFinite
<1>4. CASE phase # "ready"
  <2>1. Counted' = Counted
    BY <1>4 DEF AskTurn, MoveCall, Counted
  <2> QED
    BY <1>1, <1>4, <2>1 DEF AskTurn
<1>5. heard[u] # "completed"
  BY DEF HeardInOrder
<1> QED
  BY <1>1, <1>3, <1>4, <1>5

\* A request that ends without a turn, or whose end is not known, is counted back.
LEMMA BackKeepsCount ==
    ASSUME CountInv, NEW u \in TurnIds, NEW pc \in {"failed", "resume", "none"},
           call[u] = "asked", pc = "resume" => run[u] = "none", CountBack(u, pc),
           UNCHANGED <<run, heard, activeTurns>>
    PROVE  CountInv'
<1> USE DEF CountInv, TurnDataOK
<1>1. call' = [call EXCEPT ![u] = pc] /\ turnCount' = Less(turnCount)
  BY DEF CountBack, MoveCall
<1>2. TurnDataOK' /\ HeardInOrder'
  BY <1>1 DEF HeardInOrder, Less
<1>3. Counted' = Counted \ {u}
  <2>1. \A v \in TurnIds : v \in Counted' <=> v \in Counted /\ v # u
    BY <1>1 DEF Counted
  <2> QED
    BY <2>1 DEF Counted
<1>4. CASE u \in Counted
  <2>1. Cardinality(Counted') = Cardinality(Counted) - 1 /\ Cardinality(Counted') \in Nat
    BY <1>3, <1>4, OneLessCounted, CountedFinite, FS_RemoveElement, FS_CardinalityType
  <2> QED
    BY <1>1, <1>2, <2>1, CountedFinite DEF Less
<1>5. CASE u \notin Counted
  <2>1. Counted' = Counted
    BY <1>3, <1>5
  <2> QED
    BY <1>1, <1>2, <2>1, CountedFinite DEF Less
<1> QED
  BY <1>4, <1>5

\* A turn that completes is counted back, once.
LEMMA CompletedKeepsCount ==
    ASSUME CountInv, NEW u \in TurnIds, TurnCompleted(u)
    PROVE  CountInv'
<1> USE DEF CountInv, TurnDataOK
<1>1. /\ heard[u] = "started" /\ heard' = [heard EXCEPT ![u] = "completed"]
      /\ activeTurns' = activeTurns \ {u} /\ run[u] = "over" /\ UNCHANGED <<call, run>>
      /\ turnCount' = Less(turnCount)
  BY DEF TurnCompleted, HeardInOrder
<1>2. TurnDataOK' /\ HeardInOrder'
  BY <1>1 DEF HeardInOrder, Less
<1>3. Counted' = Counted \ {u}
  <2>1. \A v \in TurnIds : v \in Counted' <=> v \in Counted /\ v # u
    BY <1>1 DEF Counted
  <2> QED
    BY <2>1 DEF Counted
<1>4. CASE u \in Counted
  <2>1. Cardinality(Counted') = Cardinality(Counted) - 1 /\ Cardinality(Counted') \in Nat
    BY <1>3, <1>4, OneLessCounted, CountedFinite, FS_RemoveElement, FS_CardinalityType
  <2> QED
    BY <1>1, <1>2, <2>1, CountedFinite DEF Less
<1>5. CASE u \notin Counted
  <2>1. Counted' = Counted
    BY <1>3, <1>5
  <2> QED
    BY <1>1, <1>2, <2>1, CountedFinite DEF Less
<1> QED
  BY <1>4, <1>5

\* The end of a connection counts back the requests that fail with it.
LEMMA LossKeepsCount ==
    ASSUME CountInv, TurnsEngineNotReady
    PROVE  CountInv'
<1> USE DEF CountInv, TurnDataOK
<1> DEFINE failing == {u \in TurnIds : call[u] \in {"asked", "resume"}}
           askedFor == {u \in failing : call[u] = "asked"}
           back == Cardinality(askedFor)
<1>1. /\ call' = [u \in TurnIds |-> IF u \in failing THEN "failed" ELSE call[u]]
      /\ turnCount' = IF turnCount > back THEN turnCount - back ELSE 0
      /\ run' = [u \in TurnIds |->
                   IF run[u] \in {"running", "over"} /\ heard[u] # "completed" THEN "lost"
                   ELSE IF run[u] = "none" /\ call[u] = "none" THEN "lost" ELSE run[u]]
      /\ UNCHANGED <<heard, activeTurns>>
  BY DEF TurnsEngineNotReady
<1>2. askedFor \in SUBSET TurnIds /\ Counted \subseteq TurnIds
  BY DEF Counted
<1>3. IsFiniteSet(askedFor) /\ back \in Nat
  BY <1>2, TurnsAssumption, FS_Subset, FS_CardinalityType
<1>4. Counted \subseteq Counted' \cup askedFor
  BY <1>1 DEF Counted
<1>5. Counted' \in SUBSET Counted
  BY <1>1 DEF Counted
<1>6. IsFiniteSet(Counted') /\ Cardinality(Counted') \in Nat
  BY <1>5, CountedFinite, FS_Subset, FS_CardinalityType
<1>7. Cardinality(Counted) <= Cardinality(Counted') + back
  <2>1. /\ IsFiniteSet(Counted' \cup askedFor)
        /\ Cardinality(Counted' \cup askedFor)
             = Cardinality(Counted') + back - Cardinality(Counted' \cap askedFor)
    BY <1>3, <1>6, FS_Union
  <2>2. Cardinality(Counted' \cap askedFor) \in Nat
    BY <1>6, FS_Intersection, FS_CardinalityType
  <2>3. Cardinality(Counted) <= Cardinality(Counted' \cup askedFor)
    BY <1>4, <2>1, FS_Subset
  <2> QED
    BY <1>3, <1>6, <2>1, <2>2, <2>3, CountedFinite
<1>8. turnCount' \in Nat /\ turnCount' <= Cardinality(Counted')
  <2> HIDE DEF back
  <2> QED
    BY <1>1, <1>3, <1>6, <1>7, CountedFinite
<1>9. TurnDataOK'
  BY <1>1, <1>8
<1>10. HeardInOrder'
  BY <1>1 DEF HeardInOrder
<1> QED
  BY <1>8, <1>9, <1>10

LEMMA CountStepInv == CountInv /\ [TurnNext]_turnVars => CountInv'
<1> SUFFICES ASSUME CountInv, [TurnNext]_turnVars PROVE CountInv'
  OBVIOUS
<1> USE DEF CountInv, TurnDataOK, turnState
<1>a. ASSUME call' = call \/ \E u \in TurnIds, pc \in {"start", "none"} :
                call[u] = "idle" /\ call' = [call EXCEPT ![u] = pc],
             UNCHANGED <<heard, turnCount>>
      PROVE  turnCount' <= Cardinality(Counted')
  <2>1. Counted' = Counted
    BY <1>a DEF Counted
  <2> QED
    BY <1>a, <2>1
<1>1. ASSUME NEW u \in TurnIds, NEW t \in Threads, Compact(u, t) PROVE CountInv'
  BY <1>1, <1>a DEF Compact, MoveCall, HeardInOrder
<1>2. ASSUME NEW u \in TurnIds, NEW t \in Threads, NEW s \in BOOLEAN, StartTurn(u, t, s)
      PROVE  CountInv'
  BY <1>2, <1>a DEF StartTurn, MoveCall, HeardInOrder
<1>3. ASSUME NEW u \in TurnIds, TurnAsked(u) PROVE CountInv'
  BY <1>3, AskKeepsCount DEF TurnAsked
<1>4. ASSUME NEW u \in TurnIds, EngineRuns(u) PROVE CountInv'
  BY <1>4, <1>a DEF EngineRuns, HeardInOrder
<1>5. ASSUME NEW u \in TurnIds, TurnAnswered(u) PROVE CountInv'
  <2>1. call' = [call EXCEPT ![u] = "ok"] /\ call[u] = "asked"
        /\ UNCHANGED <<run, heard, activeTurns, turnCount>>
    BY <1>5 DEF TurnAnswered, MoveCall
  <2>2. Counted' = Counted
    BY <2>1 DEF Counted
  <2> QED
    BY <2>1, <2>2 DEF HeardInOrder
<1>6. ASSUME NEW u \in TurnIds, TurnRefused(u) \/ TurnTimedOut(u) PROVE CountInv'
  BY <1>6, BackKeepsCount DEF TurnRefused, TurnTimedOut
<1>7. ASSUME NEW u \in TurnIds, Resumed(u) PROVE CountInv'
  <2>1. CASE call' = [call EXCEPT ![u] = "failed"] /\ UNCHANGED turnCount
    <3>1. Counted' = Counted
      BY <1>7, <2>1 DEF Resumed, Counted
    <3> QED
      BY <1>7, <2>1, <3>1 DEF Resumed, HeardInOrder
  <2> QED
    BY <1>7, <2>1, AskKeepsCount DEF Resumed, MoveCall
<1>8. ASSUME NEW u \in TurnIds, TurnStarted(u) PROVE CountInv'
  <2>1. Counted' = Counted
    BY <1>8 DEF TurnStarted, Counted
  <2> QED
    BY <1>8, <2>1 DEF TurnStarted, HeardInOrder
<1>9. ASSUME NEW u \in TurnIds, EngineEndsTurn(u) PROVE CountInv'
  BY <1>9, <1>a DEF EngineEndsTurn, HeardInOrder
<1>10. ASSUME NEW u \in TurnIds, TurnCompleted(u) PROVE CountInv'
  BY <1>10, CompletedKeepsCount
<1>11. CASE UNCHANGED turnState
  BY <1>11, <1>a DEF HeardInOrder
<1>12. CASE TurnsEngineNotReady
  BY <1>12, LossKeepsCount
<1> QED
  BY <1>1, <1>2, <1>3, <1>4, <1>5, <1>6, <1>7, <1>8, <1>9, <1>10, <1>11, <1>12
  DEF TurnNext, RequestApproval, ResolveApproval, HandoffBegins, HandoffEnds,
      TurnsEngineReady, turnVars

\* The supervisor never puts off a restart for a turn that nobody asks for or runs.
THEOREM NoTurnIsPhantom == TurnSpec => []NoPhantomTurn
<1>1. CountInv => NoPhantomTurn
  <2> SUFFICES ASSUME CountInv PROVE NoPhantomTurn
    OBVIOUS
  <2> DEFINE all == {u \in TurnIds : call[u] = "asked" \/ (call[u] = "ok" /\ heard[u] # "completed")}
  <2>1. all \in SUBSET TurnIds /\ Counted \in SUBSET all
    BY DEF Counted
  <2>2. IsFiniteSet(all) /\ Cardinality(all) \in Nat
    BY <2>1, TurnsAssumption, FS_Subset, FS_CardinalityType
  <2>3. Cardinality(Counted) <= Cardinality(all)
    BY <2>1, <2>2, FS_Subset
  <2> HIDE DEF all
  <2>4. turnCount <= Cardinality(all)
    BY <2>2, <2>3, CountedFinite DEF CountInv, TurnDataOK
  <2> QED
    BY <2>4 DEF all, NoPhantomTurn
<1> QED
  BY <1>1, CountInitInv, CountStepInv, PTL DEF TurnSpec

-----------------------------------------------------------------------------
(* Turns: approvals.                                                       *)

ApprovalDataOK ==
    /\ asked \in 0 .. MaxAsks
    /\ waiting \subseteq Approvals /\ shown \subseteq Approvals
    /\ resolvers \in [RequestIds -> Approvals \cup {None}]

\* What the present engine waits for has one of the numbers that it has used.
WaitingIsOfThisEngine ==
    /\ waiting # {} => phase = "ready"
    /\ \A a \in waiting : a.id < asked

\* A card is of an earlier engine, or has a number that the present one has used.
CardsByAge ==
    /\ \A b \in shown :
         b.born < generation \/ (settled /\ b.born = generation /\ b.id < asked)
    /\ \A a \in waiting : a.born = generation

ApprovalInv ==
    EngineInv /\ ApprovalDataOK /\ WaitingIsOfThisEngine /\ CardsByAge /\ EngineCanBeAnswered

LEMMA ApprovalInitInv == TurnInit => ApprovalInv
<1> SUFFICES ASSUME TurnInit PROVE ApprovalInv
  OBVIOUS
<1>1. asked \in 0 .. MaxAsks
  BY ServiceBoundsAssumption DEF TurnInit
<1> QED
  BY <1>1, EngineInitInv
  DEF TurnInit, ApprovalInv, ApprovalDataOK, WaitingIsOfThisEngine, CardsByAge,
      EngineCanBeAnswered

\* The approval that the engine asks for next.
LEMMA NewApproval ==
    ASSUME EngineInv, ApprovalDataOK, NEW u \in TurnIds, phase = "ready", asked < MaxAsks,
           NEW a, a = [id |-> asked, turn |-> u, born |-> generation]
    PROVE  a \in Approvals /\ a.id = asked /\ asked \in RequestIds
<1>1. asked \in RequestIds
  BY ServiceBoundsAssumption DEF ApprovalDataOK, RequestIds
<1>2. generation \in 1 .. MaxGeneration
  BY LifecycleAssumption DEF EngineInv, EngineTypeOK
<1> QED
  BY <1>1, <1>2 DEF Approvals

LEMMA RequestInv ==
    ASSUME ApprovalInv, NEW u \in TurnIds, RequestApproval(u)
    PROVE  ApprovalInv'
<1> USE DEF ApprovalInv, ApprovalDataOK
<1> DEFINE a == [id |-> asked, turn |-> u, born |-> generation]
<1>1. a \in Approvals /\ a.id = asked /\ asked \in RequestIds
  BY NewApproval DEF RequestApproval
<1>2. /\ waiting' = waiting \cup {a} /\ shown' = shown \cup {a}
      /\ resolvers' = [resolvers EXCEPT ![a.id] = a] /\ asked' = asked + 1
      /\ phase = "ready" /\ asked < MaxAsks /\ UNCHANGED engine
  BY DEF RequestApproval, Enqueue
<1>9. a.born = generation
  OBVIOUS
<1> HIDE DEF a
<1>3. EngineInv'
  BY <1>2, EngineStepInv
<1>4. ApprovalDataOK'
  BY <1>1, <1>2, ServiceBoundsAssumption
<1>5. /\ \A b \in waiting : b.id \in RequestIds /\ b.id < asked /\ b.id \in Int
      /\ \A b \in waiting \cup shown : b.id \in Int /\ b.born \in Int
  BY ServiceBoundsAssumption, LifecycleAssumption
  DEF WaitingIsOfThisEngine, Approvals, RequestIds
<1>6. asked \in Int /\ generation \in Int /\ settled
  BY <1>2, LifecycleAssumption DEF EngineInv, EngineTypeOK
<1>10. \A b \in shown : b.born < generation \/ (b.born = generation /\ b.id < asked)
  BY DEF CardsByAge
<1>11. CardsByAge'
  <2>1. \A b \in shown' : b.born < generation \/ (b.born = generation /\ b.id < asked + 1)
    BY <1>1, <1>2, <1>5, <1>6, <1>9, <1>10
  <2>2. \A b \in waiting' : b.born = generation
    BY <1>2, <1>9 DEF CardsByAge
  <2> QED
    BY <1>2, <1>6, <2>1, <2>2 DEF CardsByAge, engine
<1>7. WaitingIsOfThisEngine'
  BY <1>1, <1>2, <1>5, <1>6 DEF WaitingIsOfThisEngine, engine
<1>8. EngineCanBeAnswered'
  <2>1. \A b \in waiting : b \in shown /\ resolvers[b.id] = b /\ b.id # asked
    BY <1>5, <1>6 DEF EngineCanBeAnswered
  <2>2. \A b \in waiting' : b \in shown' /\ resolvers'[b.id] = b
    BY <1>1, <1>2, <1>5, <2>1
  <2>3. \A b \in shown : b.id = asked => b.born < generation
    BY <1>5, <1>6, <1>10
  <2>4. \A c \in waiting' : \A b \in shown' \ {c} : b.id = c.id => b.born < c.born
    <3>1. SUFFICES ASSUME NEW c \in waiting', NEW b \in shown' \ {c}, b.id = c.id
                   PROVE  b.born < c.born
      OBVIOUS
    <3>2. CASE c = a
      BY <1>1, <1>2, <1>9, <2>3, <3>1, <3>2
    <3>3. CASE c \in waiting /\ b \in shown
      BY <3>1, <3>3 DEF EngineCanBeAnswered
    <3>4. CASE c \in waiting /\ b = a
      BY <1>1, <2>1, <3>1, <3>4
    <3> QED
      BY <1>2, <3>2, <3>3, <3>4
  <2> QED
    BY <2>2, <2>4 DEF EngineCanBeAnswered
<1> QED
  BY <1>3, <1>4, <1>7, <1>8, <1>11

LEMMA ResolveInv ==
    ASSUME ApprovalInv, NEW a \in shown, ResolveApproval(a)
    PROVE  ApprovalInv'
<1> USE DEF ApprovalInv, ApprovalDataOK
<1>1. /\ waiting' = waiting \ {resolvers[a.id]} /\ shown' = {b \in shown : b.id # a.id}
      /\ resolvers' = [resolvers EXCEPT ![a.id] = None] /\ UNCHANGED <<engine, asked>>
  BY DEF ResolveApproval
<1>2. EngineInv'
  BY <1>1, EngineStepInv
<1>3. \A b \in Approvals : b.id \in RequestIds
  BY DEF Approvals
<1>4. \A b \in waiting' : b \in waiting /\ b.id # a.id
  BY <1>1 DEF EngineCanBeAnswered
<1>5. ApprovalDataOK' /\ WaitingIsOfThisEngine'
  BY <1>1 DEF WaitingIsOfThisEngine, engine
<1>6. EngineCanBeAnswered'
  BY <1>1, <1>3, <1>4 DEF EngineCanBeAnswered
<1>7. CardsByAge'
  BY <1>1, <1>4 DEF CardsByAge, engine
<1> QED
  BY <1>2, <1>5, <1>6, <1>7

\* A step that neither asks nor answers keeps the invariant when it leaves the approvals and
\* does not move an engine that waits for one.
LEMMA QuietApprovals ==
    ASSUME ApprovalInv, EngineInv', waiting' \subseteq waiting, UNCHANGED <<shown, resolvers>>,
           asked' = asked \/ (asked' = 0 /\ waiting = {}), waiting # {} => phase' = phase,
           CardsByAge'
    PROVE  ApprovalInv'
<1>1. asked' \in 0 .. MaxAsks
  BY ServiceBoundsAssumption DEF ApprovalInv, ApprovalDataOK
<1> QED
  BY <1>1
  DEF ApprovalInv, ApprovalDataOK, WaitingIsOfThisEngine, EngineCanBeAnswered

\* A start makes every card one of an earlier engine; its end changes nothing of them.
LEMMA EngineAgesCards ==
    ASSUME ApprovalInv, [EngineNext]_engine, waiting' \subseteq waiting, UNCHANGED shown,
           generation' # generation => waiting' = {},
           asked' = asked \/ (asked' = 0 /\ StartSucceeds)
    PROVE  CardsByAge'
<1> USE DEF ApprovalInv, EngineInv, EngineTypeOK
<1>1. \A b \in shown : b.born \in Int /\ b.id \in Int
  BY LifecycleAssumption, ServiceBoundsAssumption DEF ApprovalDataOK, Approvals, RequestIds
<1>2. generation \in Int
  BY LifecycleAssumption
<1>3. \A a \in waiting' : a.born = generation'
  BY DEF CardsByAge
<1>4. CASE BeginStart
  <2>1. generation' = generation + 1 /\ shown' = shown
    BY <1>4 DEF BeginStart
  <2>2. \A b \in shown : b.born < generation + 1
    BY <1>1, <1>2 DEF CardsByAge
  <2> QED
    BY <1>3, <2>1, <2>2 DEF CardsByAge
<1>5. CASE StartSucceeds
  BY <1>3, <1>5 DEF StartSucceeds, CardsByAge
<1>6. CASE asked' = asked /\ (StartFails \/ Leave \/ UNCHANGED engine)
  BY <1>3, <1>6 DEF StartFails, Leave, engine, CardsByAge
<1> QED
  BY <1>4, <1>5, <1>6 DEF EngineNext

LEMMA ApprovalStepInv == ApprovalInv /\ [TurnNext]_turnVars => ApprovalInv'
<1> SUFFICES ASSUME ApprovalInv, [TurnNext]_turnVars PROVE ApprovalInv'
  OBVIOUS
<1> USE DEF approvals
<1>1. EngineInv'
  BY TurnMovesEngine, EngineStepInv DEF ApprovalInv
<1>10. [EngineNext]_engine
  BY TurnMovesEngine
<1>2. CASE UNCHANGED <<engine, approvals>>
  <2>1. CardsByAge'
    BY <1>2 DEF ApprovalInv, CardsByAge, engine
  <2> QED
    BY <1>1, <1>2, <2>1, QuietApprovals DEF engine
<1>3. ASSUME NEW u \in TurnIds, NEW t \in Threads, NEW s \in BOOLEAN, StartTurn(u, t, s)
      PROVE  ApprovalInv'
  <2>1. UNCHANGED engine \/ phase # "ready"
    BY <1>3 DEF StartTurn
  <2>2. UNCHANGED approvals
    BY <1>3 DEF StartTurn
  <2>3. UNCHANGED engine \/ waiting = {}
    BY <2>1 DEF ApprovalInv, WaitingIsOfThisEngine
  <2>4. CardsByAge'
    BY <1>10, <2>2, <2>3, EngineAgesCards DEF engine
  <2> QED
    BY <1>1, <2>2, <2>3, <2>4, QuietApprovals DEF engine
<1>4. ASSUME NEW u \in TurnIds, EngineEndsTurn(u) PROVE ApprovalInv'
  <2>1. waiting' \subseteq waiting /\ UNCHANGED <<engine, asked, shown, resolvers>>
    BY <1>4 DEF EngineEndsTurn
  <2>2. CardsByAge'
    BY <2>1 DEF ApprovalInv, CardsByAge, engine
  <2> QED
    BY <1>1, <2>1, <2>2, QuietApprovals DEF engine
<1>5. ASSUME NEW u \in TurnIds, RequestApproval(u) PROVE ApprovalInv'
  BY <1>5, RequestInv
<1>6. ASSUME NEW a \in shown, ResolveApproval(a) PROVE ApprovalInv'
  BY <1>6, ResolveInv
<1>7. CASE TurnsEngineReady
  <2>1. phase # "ready"
    BY <1>7 DEF TurnsEngineReady, StartSucceeds, ApprovalInv, EngineInv
  <2>2. waiting = {}
    BY <2>1 DEF ApprovalInv, WaitingIsOfThisEngine
  <2>3. StartSucceeds /\ asked' = 0 /\ UNCHANGED <<waiting, shown, resolvers>>
    BY <1>7 DEF TurnsEngineReady
  <2>4. CardsByAge'
    BY <1>10, <2>2, <2>3, EngineAgesCards
  <2> QED
    BY <1>1, <2>2, <2>3, <2>4, QuietApprovals
<1>8. CASE TurnsEngineNotReady
  <2>1. waiting' = {} /\ UNCHANGED <<asked, shown, resolvers>>
    BY <1>8 DEF TurnsEngineNotReady
  <2>2. CardsByAge'
    BY <1>10, <2>1, EngineAgesCards
  <2> QED
    BY <1>1, <2>1, <2>2
    DEF ApprovalInv, ApprovalDataOK, WaitingIsOfThisEngine, EngineCanBeAnswered
<1>9. CASE UNCHANGED turnVars
  BY <1>2, <1>9 DEF turnVars
<1> QED
  BY <1>2, <1>3, <1>4, <1>5, <1>6, <1>7, <1>8, <1>9
  DEF TurnNext, Compact, TurnAsked, EngineRuns, TurnAnswered, TurnRefused, TurnTimedOut,
      Resumed, TurnStarted, TurnCompleted, HandoffBegins, HandoffEnds

\* Whatever earlier engines left behind, the present one gets the answer that is given to
\* what it asks; it gets none to another card, but for one of an earlier engine.
THEOREM EngineIsAnswered == TurnSpec => []EngineCanBeAnswered
<1>1. ApprovalInv => EngineCanBeAnswered
  BY DEF ApprovalInv
<1> QED
  BY <1>1, ApprovalInitInv, ApprovalStepInv, PTL DEF TurnSpec

-----------------------------------------------------------------------------
(* The account: types.                                                     *)

LEMMA BeginStartType ==
    ASSUME EngineTypeOK, BeginStart
    PROVE  EngineTypeOK' /\ phase' = "starting"
<1>1. generation' \in 0 .. MaxGeneration
  BY LifecycleAssumption DEF EngineTypeOK, BeginStart
<1>2. phase' = "starting" /\ settled' \in BOOLEAN
  BY DEF BeginStart
<1> QED
  BY <1>1, <1>2 DEF EngineTypeOK, EnginePhases

LEMMA AccInitTypeOK == AccInit => AccTypeOK
<1> SUFFICES ASSUME AccInit PROVE AccTypeOK
  OBVIOUS
<1>1. EngineTypeOK
  BY LifecycleAssumption DEF AccInit, EngineInit, EngineTypeOK, EnginePhases
<1>2. accCall \in [Calls -> {"idle", "done"}]
  BY DEF AccInit
<1>3. born \in [Logins -> 0 .. MaxGeneration]
  BY LifecycleAssumption DEF AccInit
<1> QED
  BY <1>1, <1>2, <1>3 DEF AccInit, AccTypeOK

\* A call of start() leaves the engine as it is, or not ready.
LEMMA CallStartEngine ==
    ASSUME EngineTypeOK, CallStart
    PROVE  /\ EngineTypeOK'
           /\ UNCHANGED engine \/ (phase # "ready" /\ phase' # "ready")
<1>1. CASE UNCHANGED engine
  BY <1>1 DEF EngineTypeOK, engine
<1>2. CASE phase # "ready" /\ BeginStart
  BY <1>2, BeginStartType
<1> QED
  BY <1>1, <1>2 DEF CallStart

LEMMA RefreshAccountType ==
    ASSUME AccTypeOK, pending' \in Logins \cup {None},
           NEW status \in {"loading", accStatus}, RefreshAccount(status)
    PROVE  /\ accStatus' \in {"loading", "loginPending", accStatus}
           /\ refreshing' \in {"start", refreshing}
           /\ EngineTypeOK'
           /\ UNCHANGED engine \/ (phase # "ready" /\ phase' # "ready")
BY CallStartEngine DEF RefreshAccount, BeginRefresh, AccTypeOK, engine, EngineTypeOK

LEMMA AccStepTypeOK == AccTypeOK /\ [AccNext]_accVars => AccTypeOK'
<1> SUFFICES ASSUME AccTypeOK, [AccNext]_accVars PROVE AccTypeOK'
  OBVIOUS
<1> USE DEF AccTypeOK, panel, Asking, Calls, Starters
<1>0. UNCHANGED engine => EngineTypeOK'
  BY DEF engine, EngineTypeOK
<1>1. CASE RefreshAsks \/ RefreshFails \/ ChatgptRead \/ LimitsRead
  BY <1>0, <1>1 DEF RefreshAsks, RefreshFails, ChatgptRead, LimitsRead, RefreshEnds, Show, SignedIn
<1>2. CASE AccountRefreshWanted
  BY <1>2, CallStartEngine DEF AccountRefreshWanted, BeginRefresh
<1>3. ASSUME NEW a \in BOOLEAN, AccountRead(a) PROVE AccTypeOK'
  BY <1>0, <1>3 DEF AccountRead, RefreshEnds, Show, SignedIn
<1>4. ASSUME NEW c \in Starters, LoginBegins(c) PROVE AccTypeOK'
  BY <1>4, CallStartEngine DEF LoginBegins, Move
<1>5. ASSUME NEW c \in Starters, LoginAsks(c) \/ LoginFails(c) PROVE AccTypeOK'
  BY <1>0, <1>5 DEF LoginAsks, LoginFails, Move
<1>6. ASSUME NEW c \in Starters, EngineOpensLogin(c) PROVE AccTypeOK'
  <2>1. born' \in [Logins -> 0 .. MaxGeneration]
    BY <1>6 DEF EngineOpensLogin, EngineTypeOK
  <2> QED
    BY <1>0, <1>6, <2>1 DEF EngineOpensLogin, Move
<1>7. CASE KeyAccepted
  BY <1>7, RefreshAccountType DEF KeyAccepted, Move
<1>8. ASSUME NEW l \in Logins,
             LoginOffered(l) \/ LoginMalformed(l) \/ BrowserOpens(l) \/ LoginAborted(l)
      PROVE  AccTypeOK'
  BY <1>0, <1>8 DEF LoginOffered, LoginMalformed, BrowserOpens, LoginAborted, Move
<1>9. CASE Cancel("cancel") \/ Cancel("logout") \/ CancelEnds \/ LogoutAsks
  BY <1>0, <1>9 DEF Cancel, CancelEnds, ForgetPending, SignedIn, LogoutAsks, Move
<1>10. CASE LogoutBegins
  BY <1>10, CallStartEngine DEF LogoutBegins, Move
<1>11. CASE LogoutCancelled
  BY <1>0, <1>11, CallStartEngine DEF LogoutCancelled, ForgetPending, SignedIn, Move
<1>12. CASE LogoutAnswered
  <2>1. CASE RefreshAccount(accStatus) /\ Move("logout", "refresh") /\ pending' = pending
    BY <1>12, <2>1, RefreshAccountType DEF LogoutAnswered, Move
  <2> QED
    BY <1>0, <1>12, <2>1 DEF LogoutAnswered, Move
<1>13. ASSUME NEW l \in Logins, NEW success \in BOOLEAN, LoginCompleted(l, success)
       PROVE  AccTypeOK'
  <2>1. CASE success
    BY <1>13, <2>1, RefreshAccountType DEF LoginCompleted
  <2> QED
    BY <1>0, <1>13, <2>1 DEF LoginCompleted
<1>14. CASE AccountEngineReady
  BY <1>14 DEF AccountEngineReady, StartSucceeds, EngineTypeOK, EnginePhases, BeginRefresh
<1>15. CASE AccountEngineNotReady
  <2>1. EngineTypeOK'
    BY <1>15, BeginStartType
    DEF AccountEngineNotReady, StartFails, Leave, EngineTypeOK, EnginePhases
  <2> QED
    BY <1>15, <2>1 DEF AccountEngineNotReady
<1>16. CASE UNCHANGED accVars
  BY <1>0, <1>16 DEF accVars
<1> QED
  BY <1>1, <1>2, <1>3, <1>4, <1>5, <1>6, <1>7, <1>8, <1>9, <1>10, <1>11, <1>12, <1>13,
     <1>14, <1>15, <1>16 DEF AccNext

-----------------------------------------------------------------------------
(* The login that is pending.                                              *)

\* A call whose answer is there runs on before the engine can leave.
ServedByThisEngine ==
    /\ \A c \in Calls : accCall[c] = "served" => phase = "ready"
    /\ \A l \in Logins : accCall[l] = "served" => born[l] = generation

AccInv == AccTypeOK /\ ServedByThisEngine /\ LoginIsOfThisEngine

LEMMA AccInitInv == AccInit => AccInv
<1> SUFFICES ASSUME AccInit PROVE AccInv
  OBVIOUS
<1>1. \A c \in Calls : accCall[c] # "served"
  BY DEF AccInit
<1>2. Logins \subseteq Calls
  BY DEF Calls, Starters
<1> QED
  BY <1>1, <1>2, AccInitTypeOK
  DEF AccInit, AccInv, ServedByThisEngine, LoginIsOfThisEngine

\* A step that opens no login keeps the invariant when it also leaves the engine or finds
\* it not ready, serves no call, and makes no other login pending.
LEMMA QuietStep ==
    ASSUME AccInv, AccTypeOK', born' = born,
           \A c \in Calls : accCall'[c] = "served" => accCall[c] = "served",
           pending' \in {pending, None},
           UNCHANGED engine \/ (phase # "ready" /\ phase' # "ready")
    PROVE  AccInv'
<1> USE DEF AccInv, AccTypeOK, engine
<1>1. ServedByThisEngine'
  BY DEF ServedByThisEngine, Calls, Starters
<1>2. LoginIsOfThisEngine'
  BY DEF LoginIsOfThisEngine
<1> QED
  BY <1>1, <1>2

LEMMA AccStepInv == AccInv /\ [AccNext]_accVars => AccInv'
<1> SUFFICES ASSUME AccInv, [AccNext]_accVars PROVE AccInv'
  OBVIOUS
<1>0. AccTypeOK /\ AccTypeOK'
  BY AccStepTypeOK DEF AccInv
<1>a. AccTypeOK => EngineTypeOK
  BY DEF AccTypeOK
<1>b. \A c \in Calls, pc \in {"answer", "refuse", "abort", "cancel", "idle", "start", "browser",
                              "refresh", "done"} :
        Move(c, pc) => \A d \in Calls : accCall'[d] = "served" => accCall[d] = "served"
  BY <1>0 DEF AccTypeOK, Move
<1>c. RefreshEnds => \A d \in Calls : accCall'[d] = "served" => accCall[d] = "served"
  BY <1>0 DEF AccTypeOK, RefreshEnds
<1>d. Starters \subseteq Calls /\ Logins \subseteq Calls /\ {"cancel", "logout", "key"} \subseteq Calls
  BY DEF Starters, Calls
<1>1. CASE RefreshAsks \/ RefreshFails \/ ChatgptRead \/ LimitsRead
  BY <1>0, <1>1, <1>c, QuietStep DEF RefreshAsks, RefreshFails, ChatgptRead, LimitsRead, RefreshEnds
<1>2. CASE AccountRefreshWanted
  BY <1>0, <1>a, <1>2, CallStartEngine, QuietStep DEF AccountRefreshWanted
<1>3. ASSUME NEW a \in BOOLEAN, AccountRead(a) PROVE AccInv'
  BY <1>0, <1>3, <1>c, QuietStep DEF AccountRead, RefreshEnds
<1>4. ASSUME NEW c \in Starters, LoginBegins(c) PROVE AccInv'
  BY <1>0, <1>a, <1>b, <1>d, <1>4, CallStartEngine, QuietStep DEF LoginBegins
<1>5. ASSUME NEW c \in Starters, LoginAsks(c) \/ LoginFails(c) PROVE AccInv'
  BY <1>0, <1>b, <1>d, <1>5, QuietStep DEF LoginAsks, LoginFails
<1>6. ASSUME NEW c \in Starters, EngineOpensLogin(c) PROVE AccInv'
  <2>1. /\ phase = "ready" /\ UNCHANGED <<engine, pending>>
        /\ accCall' = [accCall EXCEPT ![c] = "served"]
        /\ born' = [l \in Logins |-> IF l = c THEN generation ELSE born[l]]
    BY <1>6 DEF EngineOpensLogin, Move
  <2>2. ServedByThisEngine'
    BY <1>0, <1>d, <2>1 DEF ServedByThisEngine, AccInv, AccTypeOK, engine
  <2>3. LoginIsOfThisEngine'
    BY <1>0, <2>1 DEF LoginIsOfThisEngine, AccInv, AccTypeOK, engine
  <2> QED
    BY <1>0, <2>2, <2>3 DEF AccInv
<1>7. CASE KeyAccepted
  BY <1>0, <1>b, <1>d, <1>7, RefreshAccountType, QuietStep DEF KeyAccepted, AccTypeOK
<1>8. ASSUME NEW l \in Logins, LoginOffered(l) PROVE AccInv'
  <2>1. /\ UNCHANGED <<engine, born>> /\ pending' = l /\ accCall[l] = "served"
        /\ \A d \in Calls : accCall'[d] = "served" => accCall[d] = "served"
    BY <1>b, <1>d, <1>8 DEF LoginOffered
  <2>2. ServedByThisEngine'
    BY <1>0, <1>d, <2>1 DEF ServedByThisEngine, AccInv, engine
  <2>3. LoginIsOfThisEngine'
    BY <1>d, <2>1 DEF LoginIsOfThisEngine, ServedByThisEngine, AccInv, engine
  <2> QED
    BY <1>0, <2>2, <2>3 DEF AccInv
<1>9. ASSUME NEW l \in Logins, LoginMalformed(l) \/ BrowserOpens(l) \/ LoginAborted(l)
      PROVE  AccInv'
  BY <1>0, <1>b, <1>d, <1>9, QuietStep DEF LoginMalformed, BrowserOpens, LoginAborted
<1>10. CASE Cancel("cancel") \/ Cancel("logout") \/ CancelEnds \/ LogoutAsks
  BY <1>0, <1>b, <1>d, <1>10, QuietStep DEF Cancel, CancelEnds, ForgetPending, LogoutAsks
<1>11. CASE LogoutBegins
  BY <1>0, <1>a, <1>b, <1>d, <1>11, CallStartEngine, QuietStep DEF LogoutBegins
<1>12. CASE LogoutCancelled
  BY <1>0, <1>a, <1>b, <1>d, <1>12, CallStartEngine, QuietStep DEF LogoutCancelled, ForgetPending
<1>13. CASE LogoutAnswered
  <2>1. CASE RefreshAccount(accStatus) /\ Move("logout", "refresh") /\ pending' = pending
    BY <1>0, <1>b, <1>d, <1>13, <2>1, RefreshAccountType, QuietStep DEF LogoutAnswered, AccTypeOK
  <2> QED
    BY <1>0, <1>b, <1>d, <1>13, <2>1, QuietStep DEF LogoutAnswered
<1>14. ASSUME NEW l \in Logins, NEW success \in BOOLEAN, LoginCompleted(l, success)
       PROVE  AccInv'
  <2>1. CASE success
    BY <1>0, <1>14, <2>1, RefreshAccountType, QuietStep DEF LoginCompleted
  <2> QED
    BY <1>0, <1>14, <2>1, QuietStep DEF LoginCompleted
<1>15. CASE AccountEngineReady
  <2>1. \A c \in Calls : accCall'[c] # "served"
    BY <1>15 DEF AccountEngineReady, NoAccountRequest, Asking
  <2> QED
    BY <1>0, <1>d, <1>15, <2>1
    DEF AccountEngineReady, AccInv, ServedByThisEngine, LoginIsOfThisEngine
<1>16. CASE AccountEngineNotReady
  <2>1. (\A c \in Calls : accCall'[c] # "served") /\ phase' # "ready"
    BY <1>16 DEF AccountEngineNotReady, NoneServed, BeginStart, StartFails, Leave
  <2> QED
    BY <1>0, <1>d, <2>1 DEF AccInv, ServedByThisEngine, LoginIsOfThisEngine
<1>17. CASE UNCHANGED accVars
  BY <1>0, <1>17, QuietStep DEF accVars
<1> QED
  BY <1>1, <1>2, <1>3, <1>4, <1>5, <1>6, <1>7, <1>8, <1>9, <1>10, <1>11, <1>12, <1>13,
     <1>14, <1>15, <1>16, <1>17 DEF AccNext

\* A login that is pending on a ready engine was opened by this engine.
THEOREM LoginsEndWithTheirEngine == AccSpec => []LoginIsOfThisEngine
<1>1. AccInv => LoginIsOfThisEngine
  BY DEF AccInv
<1> QED
  BY <1>1, AccInitInv, AccStepInv, PTL DEF AccSpec

-----------------------------------------------------------------------------
(* The integrations: questions and the keys they are filed under.           *)

\* A key files the question it was made for, in the list and with the resolver.
FiledUnderItsKey ==
    /\ \A e \in questions : e.key = e.of
    /\ \A k \in DOMAIN resolver : resolver[k] = k

WaitingIsShown == \A q \in waitingFor : \E e \in questions : e.of = q

IntInv == FiledUnderItsKey /\ WaitingIsShown

LEMMA AskInv == ASSUME IntInv, Ask PROVE IntInv'
<1> DEFINE q == [id |-> askedSoFar, born |-> generation]
<1>1. /\ waitingFor' = waitingFor \cup {q}
      /\ resolver' = [j \in DOMAIN resolver \cup {q} |-> IF j = q THEN q ELSE resolver[j]]
      /\ questions' = questions \cup {[key |-> q, of |-> q]}
  BY DEF Ask, RequestKey
<1> HIDE DEF q
<1>2. FiledUnderItsKey'
  <2>1. \A e \in questions' : e.key = e.of
    BY <1>1 DEF IntInv, FiledUnderItsKey
  <2>2. ASSUME NEW k \in DOMAIN resolver' PROVE resolver'[k] = k
    BY <1>1 DEF IntInv, FiledUnderItsKey
  <2> QED
    BY <2>1, <2>2 DEF FiledUnderItsKey
<1>3. ASSUME NEW w \in waitingFor' PROVE \E e \in questions' : e.of = w
  <2>1. CASE w = q
    <3> DEFINE e == [key |-> q, of |-> q]
    <3>1. e \in questions' /\ e.of = q
      BY <1>1
    <3> QED
      BY <2>1, <3>1
  <2>2. CASE w \in waitingFor
    BY <1>1, <2>2 DEF IntInv, WaitingIsShown
  <2> QED
    BY <1>1, <2>1, <2>2
<1> QED
  BY <1>2, <1>3 DEF IntInv, WaitingIsShown

LEMMA ForgottenKey ==
    ASSUME IntInv, NEW k, resolver' = Forgotten(k)
    PROVE  \A j \in DOMAIN resolver' : resolver'[j] = j
BY DEF IntInv, FiledUnderItsKey, Forgotten

\* What is left waiting is filed under another key than the one that was answered.
LEMMA ResolveKeepsRest == ASSUME IntInv, NEW e, Resolve(e) PROVE IntInv'
<1>1. /\ e \in questions /\ resolver[e.key] = e.key
      /\ waitingFor' = waitingFor \ {resolver[e.key]}
      /\ resolver' = Forgotten(e.key)
      /\ questions' = {f \in questions : f.key # e.key}
  BY DEF Resolve, IntInv, FiledUnderItsKey
<1>2. FiledUnderItsKey'
  BY <1>1, ForgottenKey DEF IntInv, FiledUnderItsKey
<1>3. ASSUME NEW w \in waitingFor' PROVE \E f \in questions' : f.of = w
  <2>1. w \in waitingFor /\ w # e.key
    BY <1>1
  <2>2. PICK f \in questions : f.of = w
    BY <2>1 DEF IntInv, WaitingIsShown
  <2>3. f.key # e.key
    BY <2>1, <2>2 DEF IntInv, FiledUnderItsKey
  <2> QED
    BY <1>1, <2>2, <2>3
<1> QED
  BY <1>2, <1>3 DEF IntInv, WaitingIsShown

LEMMA IntStepInv == IntInv /\ [IntNext]_intVars => IntInv'
<1> SUFFICES ASSUME IntInv, [IntNext]_intVars PROVE IntInv'
  OBVIOUS
<1>1. ASSUME UNCHANGED dialogue PROVE IntInv'
  BY <1>1 DEF dialogue, IntInv, FiledUnderItsKey, WaitingIsShown
<1>2. ASSUME NEW c \in Slots,
             \/ \E p \in Inventories : Load(c, p)
             \/ InventoryRefreshWanted(c) \/ LoadAsks(c) \/ LoadAnswered(c) \/ LoadFails(c)
             \/ TimerFires(c) \/ Write(c) \/ ChangeAnswered(c) \/ ChangeFails(c)
             \/ \E roots \in SUBSET Roots : ChangeRoots(c, roots)
      PROVE  IntInv'
  <2>1. UNCHANGED dialogue
    BY <1>2 DEF Load, InventoryRefreshWanted, LoadAsks, LoadAnswered, LoadFails, TimerFires,
                Write, ChangeAnswered, ChangeFails, ChangeRoots
  <2> QED
    BY <1>1, <2>1
<1>3. ASSUME \/ ChangeAnnounced
             \/ \E p \in Inventories, trusted \in BOOLEAN : SetProjectTrust(p, trusted)
      PROVE  IntInv'
  BY <1>1, <1>3 DEF ChangeAnnounced, SetProjectTrust
<1>4. ASSUME NEW e \in questions, ResolveTooLong(e) PROVE IntInv'
  <2>1. FiledUnderItsKey'
    BY <1>4, ForgottenKey DEF ResolveTooLong, IntInv, FiledUnderItsKey
  <2> QED
    BY <1>4, <2>1 DEF ResolveTooLong, IntInv, WaitingIsShown
<1>5. CASE IntegrationsEngineReady
  BY <1>5 DEF IntegrationsEngineReady, IntInv, FiledUnderItsKey, WaitingIsShown
<1>6. CASE IntegrationsEngineNotReady
  BY <1>6 DEF IntegrationsEngineNotReady, IntInv, FiledUnderItsKey, WaitingIsShown
<1>7. CASE UNCHANGED intVars
  BY <1>1, <1>7 DEF intVars
<1> QED
  BY <1>2, <1>3, <1>4, <1>5, <1>6, <1>7, AskInv, ResolveKeepsRest DEF IntNext

\* Whatever the engines before this one asked and however their questions were left, what the
\* present engine waits for is shown and an answer resolves the request that was shown.
THEOREM QuestionsGetTheirAnswer == IntSpec => []AnswersReachTheirRequest
<1>1. IntInit => IntInv
  BY DEF IntInit, IntInv, FiledUnderItsKey, WaitingIsShown
<1>2. IntInv => AnswersReachTheirRequest
  BY DEF IntInv, FiledUnderItsKey, WaitingIsShown, AnswersReachTheirRequest
<1> QED
  BY <1>1, <1>2, IntStepInv, PTL DEF IntSpec

-----------------------------------------------------------------------------
(* The canvas of a terminal.  A terminal that is there shows what the        *)
(* effects say they have written, and that is the output of the last render  *)
(* once they have run.                                                       *)

ShellText == Seq(Chunks)

CanvasTypes ==
    /\ tabs \in Seq(Shells)
    /\ printed \in [Shells -> ShellText]
    /\ latest \in ShellText /\ rendered \in ShellText

CanvasInv ==
    /\ CanvasTypes
    /\ xterm => screen = rendered
    /\ ScreenShowsSession

\* What is written after what was shown is the new output, cut or continued.
LEMMA WrittenIsNew ==
    ASSUME NEW old \in ShellText, NEW new \in ShellText
    PROVE  Written(old, old, new) = new
BY DEF Written, IsPrefix, ShellText

LEMMA OutputIsText ==
    ASSUME CanvasTypes
    PROVE  OutputOf(ShownShell) \in ShellText
<1>1. ShownShell \in Shells \cup {NoShell}
    BY DEF CanvasTypes, ShownShell, ToSet
<1> QED
    BY <1>1 DEF CanvasTypes, OutputOf, ShellText

LEMMA CanvasStart == CanvasInit => CanvasInv
BY DEF CanvasInit, CanvasInv, CanvasTypes, ShellText, ScreenShowsSession

LEMMA CanvasKept == CanvasInv /\ [CanvasNext]_canvasVars => CanvasInv'
<1> SUFFICES ASSUME CanvasInv, [CanvasNext]_canvasVars PROVE CanvasInv'
    OBVIOUS
<1> USE DEF CanvasInv, ScreenShowsSession
\* Snapshots and the user leave the component as it is.
<1>1. CASE CanvasTypes' /\ UNCHANGED canvas
    BY <1>1 DEF canvas
<1>2. ASSUME NEW s \in Shells, Created(s) PROVE CanvasInv'
    BY <1>1, <1>2 DEF Created, CanvasTypes, ShellText, canvas
<1>3. ASSUME NEW s \in Shells, NEW chunk \in Chunks, Prints(s, chunk) PROVE CanvasInv'
  <2> DEFINE all == Append(printed[s], chunk)
             text == SubSeq(all, IF Len(all) > MaxTail THEN 2 ELSE 1, Len(all))
  <2>1. all \in ShellText /\ Len(all) \in Nat
    BY <1>3 DEF CanvasTypes, ShellText
  <2>2. text \in ShellText
    BY <2>1 DEF ShellText
  <2>3. printed' = [printed EXCEPT ![s] = text] /\ UNCHANGED <<tabs, canvas>>
    BY <1>3 DEF Prints
  <2> HIDE DEF text
  <2>4. CanvasTypes'
    BY <2>2, <2>3 DEF CanvasTypes, canvas
  <2> QED
    BY <1>1, <2>3, <2>4
<1>4. ASSUME NEW s \in Shells, Cleared(s) PROVE CanvasInv'
    BY <1>1, <1>4 DEF Cleared, CanvasTypes, ShellText, canvas
<1>5. ASSUME NEW s \in Shells, Select(s) PROVE CanvasInv'
    BY <1>1, <1>5 DEF Select, CanvasTypes, canvas
<1>6. ASSUME NEW s \in Shells, NEW next \in Shells \cup {NoShell}, Closed(s, next)
      PROVE CanvasInv'
  <2>1. PICK n \in DOMAIN tabs : tabs' = RemoveAt(tabs, n)
    BY <1>6 DEF Closed
  <2>2. tabs' \in Seq(Shells)
    BY <2>1 DEF RemoveAt, CanvasTypes
  <2>3. CanvasTypes' /\ UNCHANGED canvas
    BY <1>6, <2>2 DEF Closed, CanvasTypes, canvas
  <2> QED
    BY <1>1, <2>3
<1>7. CASE Render
    BY <1>7, OutputIsText DEF Render, CanvasTypes
<1>8. CASE SessionEffect
    BY <1>8 DEF SessionEffect, CanvasTypes, ShellText
<1>9. CASE OutputEffect
  <2>1. CASE xterm /\ latest # rendered
    BY <1>9, <2>1, WrittenIsNew DEF OutputEffect, CanvasTypes
  <2>2. CASE ~(xterm /\ latest # rendered)
    BY <1>9, <2>2 DEF OutputEffect, CanvasTypes
  <2> QED
    BY <2>1, <2>2
<1>10. CASE XtermLoaded
    BY <1>10 DEF XtermLoaded, CanvasTypes
<1>11. CASE XtermFails
    BY <1>11 DEF XtermFails, CanvasTypes
<1>12. CASE UNCHANGED canvasVars
    BY <1>12 DEF canvasVars, CanvasTypes
<1> QED
    BY <1>2, <1>3, <1>4, <1>5, <1>6, <1>7, <1>8, <1>9, <1>10, <1>11, <1>12 DEF CanvasNext

\* When the effects have run, a terminal that is there shows the output of the session
\* that was drawn (TerminalPanel.tsx), for any number of sessions and any length of
\* output, cut, cleared or continued between two renders.
THEOREM ScreenFollowsSession == CanvasSpec => []ScreenShowsSession
<1>1. CanvasInv => ScreenShowsSession
    BY DEF CanvasInv
<1> QED
    BY <1>1, CanvasStart, CanvasKept, PTL DEF CanvasSpec

-----------------------------------------------------------------------------
(* A request for permissions.  The network is asked for first and once, so   *)
(* the identifiers of the options differ and an answer names one of them.    *)

\* A list of which no element is the network.
IsPlain(items) ==
    /\ items \in Seq({items[i] : i \in DOMAIN items})
    /\ \A i \in DOMAIN items : items[i].section # "network"

LEMMA PlainIf ==
    ASSUME NEW n \in Nat, NEW items, DOMAIN items = 1 .. n,
           items = [i \in 1 .. n |-> items[i]],
           \A i \in 1 .. n : items[i].section # "network"
    PROVE  IsPlain(items)
BY DEF IsPlain

LEMMA PlainConcat ==
    ASSUME NEW s, NEW t, IsPlain(s), IsPlain(t)
    PROVE  IsPlain(s \o t)
<1> DEFINE S == {s[i] : i \in DOMAIN s} \cup {t[i] : i \in DOMAIN t}
<1>1. s \in Seq(S) /\ t \in Seq(S)
    BY SeqMonotonic DEF IsPlain
<1>2. s \o t \in Seq(S) /\ Len(s \o t) = Len(s) + Len(t)
      /\ \A i \in 1 .. Len(s) + Len(t) :
           (s \o t)[i] = IF i <= Len(s) THEN s[i] ELSE t[i - Len(s)]
    BY <1>1, ConcatProperties
<1>3. DOMAIN s = 1 .. Len(s) /\ DOMAIN t = 1 .. Len(t) /\ Len(s) \in Nat /\ Len(t) \in Nat
    BY <1>1
<1>4. DOMAIN (s \o t) = 1 .. Len(s) + Len(t)
      /\ s \o t = [i \in 1 .. Len(s) + Len(t) |-> (s \o t)[i]]
  <2>1. s \o t \in [1 .. Len(s \o t) -> S]
    BY <1>2, LenProperties
  <2> QED
    BY <1>2, <2>1
<1>5. \A i \in 1 .. Len(s) + Len(t) : (s \o t)[i].section # "network"
    BY <1>2, <1>3 DEF IsPlain
<1> QED
    BY <1>3, <1>4, <1>5, PlainIf

LEMMA LegacyIsPlain ==
    ASSUME NEW section \in {"legacyRead", "legacyWrite"}, NEW access,
           NEW targets \in UpTo(Targets, MaxListed)
    PROVE  IsPlain(LegacyList(section, access, targets))
<1>1. PICK n \in Nat : targets \in [1 .. n -> Targets]
    BY PermissionsAssumption DEF UpTo
<1> QED
    BY <1>1, PlainIf DEF LegacyList, Item

LEMMA KnownIsPlain ==
    ASSUME NEW entries \in UpTo(PermissionEntries, MaxEntries)
    PROVE  IsPlain(Known(entries))
<1> DEFINE kept == {i \in DOMAIN entries : entries[i].access # "none" /\ entries[i].target # NoTarget}
<1>1. PICK n \in Nat : DOMAIN entries = 1 .. n
    BY PermissionsAssumption DEF UpTo
<1>2. IsFiniteSet(kept)
  <2>1. IsFiniteSet(1 .. n)
    BY <1>1, FS_Interval
  <2>2. kept \subseteq 1 .. n
    BY <1>1
  <2> QED
    BY <2>1, <2>2, FS_Subset
<1>3. Cardinality(kept) \in Nat
    BY <1>2, FS_CardinalityType
<1>4. Known(entries) = [m \in 1 .. Cardinality(kept) |->
          LET e == entries[CHOOSE i \in kept : Cardinality({j \in kept : j <= i}) = m]
          IN Item("entry", e.access, e.target)]
    BY DEF Known
<1>5. \A m \in 1 .. Cardinality(kept) : Known(entries)[m].section # "network"
    BY <1>4 DEF Item
<1> HIDE DEF kept
<1>6. DOMAIN Known(entries) = 1 .. Cardinality(kept)
      /\ Known(entries) = [m \in 1 .. Cardinality(kept) |-> Known(entries)[m]]
    BY <1>4
<1> QED
    BY <1>3, <1>5, <1>6, PlainIf

\* What is asked for is a list whose first element alone may be the network.
LEMMA NetworkIsFirst ==
    ASSUME NEW p \in Profiles
    PROVE  /\ Len(Asked(p)) \in Nat /\ DOMAIN Asked(p) = 1 .. Len(Asked(p))
           /\ \A i \in DOMAIN Asked(p) : i # 1 => Asked(p)[i].section # "network"
<1> DEFINE a == IF p.network THEN <<Item("network", "network", NoTarget)>> ELSE <<>>
           b == LegacyList("legacyRead", "read", p.read)
           c == LegacyList("legacyWrite", "write", p.write)
           d == Known(p.entries)
           e == b \o (c \o d)
           S == {Item("network", "network", NoTarget)} \cup {b[i] : i \in DOMAIN b}
                  \cup {c[i] : i \in DOMAIN c} \cup {d[i] : i \in DOMAIN d}
                  \cup {e[i] : i \in DOMAIN e}
<1>1. IsPlain(b) /\ IsPlain(c) /\ IsPlain(d)
    BY LegacyIsPlain, KnownIsPlain DEF Profiles
<1>2. IsPlain(e)
    BY <1>1, PlainConcat
<1>3. a \in Seq(S) /\ Len(a) \in {0, 1}
  <2>1. CASE p.network
    BY <2>1
  <2>2. CASE ~p.network
    BY <2>2
  <2> QED
    BY <2>1, <2>2
<1> HIDE DEF a, b, c, d
<1>4. b \in Seq(S) /\ c \in Seq(S) /\ d \in Seq(S) /\ e \in Seq(S)
    BY <1>1, <1>2, SeqMonotonic, SMTT(30) DEF IsPlain
<1>5. Asked(p) = ((a \o b) \o c) \o d
    BY DEF Asked, a, b, c, d
<1> HIDE DEF S
<1>6. ((a \o b) \o c) \o d = a \o e
  <2>1. (a \o b) \o c = a \o (b \o c)
    BY <1>3, <1>4, ConcatAssociative, SMTT(30)
  <2>2. b \o c \in Seq(S)
    BY <1>4, ConcatProperties
  <2> DEFINE f == b \o c
  <2>3. (a \o f) \o d = a \o (f \o d)
    <3>1. a \in Seq(S) /\ d \in Seq(S) /\ f \in Seq(S)
      BY <1>3, <1>4, <2>2
    <3> HIDE DEF f
    <3> QED
      BY <3>1, ConcatAssociative
  <2>4. (b \o c) \o d = b \o (c \o d)
    BY <1>4, ConcatAssociative
  <2> QED
    BY <2>1, <2>3, <2>4 DEF e
<1> HIDE DEF e
<1>7. /\ a \o e \in Seq(S) /\ Len(a \o e) = Len(a) + Len(e)
      /\ \A i \in 1 .. Len(a) + Len(e) :
           (a \o e)[i] = IF i <= Len(a) THEN a[i] ELSE e[i - Len(a)]
    BY <1>3, <1>4, ConcatProperties
<1>8. Len(a) \in Nat /\ Len(e) \in Nat /\ DOMAIN e = 1 .. Len(e)
    BY <1>3, <1>4
<1>9. Asked(p) \in Seq(S) /\ Len(Asked(p)) \in Nat /\ DOMAIN Asked(p) = 1 .. Len(Asked(p))
    BY <1>5, <1>6, <1>7, LenProperties
<1>10. ASSUME NEW i \in 1 .. Len(a) + Len(e), i # 1
       PROVE  Asked(p)[i].section # "network"
  <2>1. i - Len(a) \in DOMAIN e /\ ~(i <= Len(a))
    <3>1. Len(a) = 0 \/ Len(a) = 1
      BY <1>3
    <3>2. i \in Nat /\ 2 <= i /\ i <= Len(a) + Len(e)
      BY <1>8, <1>10
    <3>4. ~(i <= Len(a))
      BY <3>1, <3>2
    <3>5. Len(e) \in Nat
      BY <1>8
    <3>3. i - Len(a) \in 1 .. Len(e)
      BY <3>1, <3>2, <3>5
    <3> QED
      BY <1>8, <3>3, <3>4
  <2>2. Asked(p)[i] = e[i - Len(a)]
    BY <1>5, <1>6, <1>7, <2>1
  <2> QED
    BY <1>2, <2>1, <2>2 DEF IsPlain
<1>11. DOMAIN Asked(p) = 1 .. Len(a) + Len(e)
    BY <1>5, <1>6, <1>7, <1>9
<1> QED
    BY <1>9, <1>10, <1>11

\* The options: no two have one identifier, and each stands for what was asked for.
LEMMA OptionsDiffer ==
    ASSUME NEW p \in Profiles
    PROVE  LET options == ParsePermissionRequest(p) IN
           /\ \A i, j \in DOMAIN options : options[i].id = options[j].id => i = j
           /\ \A i \in DOMAIN options : options[i].item \in ToSet(Asked(p))
<1> DEFINE items == Asked(p)
           n == IF Len(items) < MaxPermissionOptions THEN Len(items) ELSE MaxPermissionOptions
<1>1. n \in Nat /\ 1 .. n \subseteq DOMAIN items
    BY NetworkIsFirst, PermissionsAssumption
<1>2. \A i \in 1 .. n : i # 1 => items[i].section # "network"
    BY <1>1, NetworkIsFirst
<1>3. ParsePermissionRequest(p) = [i \in 1 .. n |-> [id |-> OptionId(items, i), item |-> items[i]]]
    BY DEF ParsePermissionRequest
<1> HIDE DEF n, items
<1>4. ASSUME NEW i \in 1 .. n, NEW j \in 1 .. n, OptionId(items, i) = OptionId(items, j)
      PROVE  i = j
    BY <1>1, <1>2, <1>4 DEF OptionId
<1>5. \A i \in 1 .. n : items[i] \in ToSet(items)
    BY <1>1 DEF ToSet
<1> QED
    BY <1>3, <1>4, <1>5 DEF items

PermissionInv ==
    /\ profile \in Profiles
    /\ card = <<>> \/ card = ParsePermissionRequest(profile)
    /\ parsed = <<>> \/ parsed = card
    /\ ticked \subseteq OptionIds(card)
    /\ decision = "none" => reply.granted = {} /\ reply.scope # "session"
    /\ decision # "none" => parsed = <<>> /\ card # <<>>
    /\ GrantIsWhatWasShown

LEMMA NothingShown == ToSet(<<>>) = {}
BY DEF ToSet

LEMMA PermissionStart == PermissionInit => PermissionInv
BY NothingShown DEF PermissionInit, PermissionInv, GrantIsWhatWasShown, NoReply, Accepted, OptionIds

\* An identifier of the panel leads to the option that was shown with it.
LEMMA OptionIsFound ==
    ASSUME NEW p \in Profiles, NEW i \in DOMAIN ParsePermissionRequest(p)
    PROVE  LET options == ParsePermissionRequest(p) IN
           OptionFor(options, options[i].id) = options[i].item
<1> DEFINE options == ParsePermissionRequest(p)
<1>1. \A j, k \in DOMAIN options : options[j].id = options[k].id => j = k
    BY OptionsDiffer
<1> HIDE DEF options
<1>2. i \in DOMAIN options
    BY DEF options
<1>3. i <= i
    BY NetworkIsFirst, PermissionsAssumption DEF ParsePermissionRequest
<1> DEFINE last == CHOOSE k \in DOMAIN options :
                     /\ options[k].id = options[i].id
                     /\ \A j \in DOMAIN options : options[j].id = options[i].id => j <= k
<1>4. last = i
    BY <1>1, <1>2, <1>3
<1>5. OptionFor(options, options[i].id) = options[last].item
    BY DEF OptionFor
<1> QED
    BY <1>4, <1>5 DEF options

LEMMA PermissionKept == PermissionInv /\ [PermissionNext]_permissionVars => PermissionInv'
<1> SUFFICES ASSUME PermissionInv, [PermissionNext]_permissionVars PROVE PermissionInv'
    OBVIOUS
<1> DEFINE options == ParsePermissionRequest(profile)
<1>0. \A i \in DOMAIN options : options[i].item \in ToSet(Asked(profile))
    BY OptionsDiffer DEF PermissionInv
<1>1. CASE RequestPermissionsApproval
    BY <1>0, <1>1, NothingShown
       DEF RequestPermissionsApproval, PermissionInv, GrantIsWhatWasShown, Accepted, NoReply, ToSet, OptionIds
<1>2. ASSUME NEW id \in PermissionIds, Toggle(id) PROVE PermissionInv'
    BY <1>2 DEF Toggle, PermissionInv, GrantIsWhatWasShown, Accepted
<1>3. ASSUME NEW answer \in {"accept", "acceptForSession", "decline", "cancel", "disposed"},
             Decide(answer)
      PROVE  PermissionInv'
  <2>1. /\ parsed = options /\ card = options /\ card # <<>>
        /\ decision' = answer /\ parsed' = <<>> /\ UNCHANGED <<profile, card, ticked>>
        /\ reply' = PermissionApprovalResult(answer, options, ticked)
    BY <1>3 DEF Decide, PermissionInv
  <2>2. CASE answer \in {"decline", "cancel", "disposed"}
    BY <2>1, <2>2 DEF PermissionInv, GrantIsWhatWasShown, Accepted, PermissionApprovalResult
  <2>3. CASE answer \in {"accept", "acceptForSession"}
    <3>1. /\ reply'.granted = {OptionFor(options, id) : id \in ticked}
          /\ reply'.scope = IF answer = "acceptForSession" THEN "session" ELSE "turn"
      BY <2>1, <2>3 DEF PermissionApprovalResult
    <3>2. \A i \in DOMAIN options : OptionFor(options, options[i].id) = options[i].item
      BY OptionIsFound DEF PermissionInv
    <3>3. {OptionFor(options, id) : id \in ticked}
            = {o.item : o \in {q \in ToSet(options) : q.id \in ticked}}
      BY <2>1, <3>2 DEF PermissionInv, OptionIds, ToSet
    <3> QED
      BY <2>1, <2>3, <3>1, <3>3 DEF PermissionInv, GrantIsWhatWasShown, Accepted
  <2> QED
    BY <2>2, <2>3
<1>4. CASE UNCHANGED permissionVars
    BY <1>4 DEF permissionVars, PermissionInv, GrantIsWhatWasShown, Accepted
<1> QED
    BY <1>1, <1>2, <1>3, <1>4 DEF PermissionNext

\* What the user saw selected when they accepted is what the engine gets, and what the
\* panel shows was asked for as it stands (parsePermissionRequest and
\* permissionApprovalResult): for profiles of any length, and options cut at any number.
THEOREM GrantsAreWhatWasShown == PermissionSpec => []GrantIsWhatWasShown
<1>1. PermissionInv => GrantIsWhatWasShown
    BY DEF PermissionInv
<1> QED
    BY <1>1, PermissionStart, PermissionKept, PTL DEF PermissionSpec

\* The least-number principle, for a set: induction by the least counterexample.
LEMMA LeastExists ==
    ASSUME NEW T, T \subseteq Nat, T # {}
    PROVE  \E x \in T : \A y \in T : x <= y
<1> DEFINE R == OpToRel(<, Nat)
<1>1. IsWellFoundedOn(R, Nat)
    BY NatLessThanWellFounded
<1>2. R = {ss \in Nat \X Nat : ss[1] < ss[2]}
    BY DEF OpToRel
<1> HIDE DEF R
<1>3. PICK x \in T : \A y \in T : ~(<<y, x>> \in R)
    BY <1>1, WFMin
<1>4. ASSUME NEW y \in T PROVE x <= y
  <2>1. x \in Nat /\ y \in Nat /\ ~(<<y, x>> \in R)
    BY <1>3
  <2>2. <<y, x>> \in Nat \X Nat /\ <<y, x>>[1] = y /\ <<y, x>>[2] = x
    BY <2>1
  <2>3. ~(y < x)
    BY <1>2, <2>1, <2>2
  <2> QED
    BY <2>1, <2>3
<1> QED
    BY <1>4

LEMMA GreatestExists ==
    ASSUME NEW n \in Nat, NEW T, T \subseteq 0 .. n, T # {}
    PROVE  \E x \in T : \A y \in T : y <= x
<1> DEFINE U == {n - y : y \in T}
<1>1. U \subseteq Nat /\ U # {}
  <2>1. \A y \in T : n - y \in Nat
    OBVIOUS
  <2> QED
    BY <2>1
<1>2. PICK u \in U : \A v \in U : u <= v
    BY <1>1, LeastExists
<1>3. PICK x \in T : u = n - x
    OBVIOUS
<1>4. ASSUME NEW y \in T PROVE y <= x
  <2>1. n - y \in U
    OBVIOUS
  <2>2. u <= n - y
    BY <1>2, <2>1
  <2>3. n \in Nat /\ x \in Nat /\ y \in Nat
    OBVIOUS
  <2> HIDE DEF U
  <2> QED
    BY <1>3, <2>2, <2>3
<1> QED
    BY <1>4

-----------------------------------------------------------------------------
(* The goal of a conversation.  Each line of the engine that no announcement *)
(* follows gives the goal it holds, or nothing; when no announcement is on   *)
(* its way, what is shown was the last one.                                  *)

GoalLines == [to : GoalCalls \cup {"everyone"}, goal : Nat \cup {None}]

Announces(n) == goalWire[n].to = "everyone"
LastAnnounced(n) == \A m \in DOMAIN goalWire : m > n => ~Announces(m)

GoalInv ==
    /\ goalWire \in Seq(GoalLines) /\ goalHeld \in Nat
    /\ \A n \in DOMAIN goalWire : Announces(n) => goalWire[n].goal # None
    /\ \A n \in DOMAIN goalWire :
         goalWire[n].goal # None /\ LastAnnounced(n) => goalWire[n].goal = goalHeld
    /\ (\A n \in DOMAIN goalWire : ~Announces(n)) /\ goalShown # None
         => goalShown = goalHeld \/ goalOvertaken \/ goalMissed

LEMMA GoalStart == GoalInit => GoalInv
BY DEF GoalInit, GoalInv, GoalLines, Announces, LastAnnounced

\* The last of the places in a chunk is one of them.
LEMMA LatestIsLast ==
    ASSUME NEW n \in Nat, NEW places, places \subseteq 1 .. n, places # {}
    PROVE  Latest(places) \in places /\ \A m \in places : m <= Latest(places)
<1>1. \E k \in places : \A m \in places : m <= k
  <2>1. places \subseteq 0 .. n
    OBVIOUS
  <2> QED
    BY <2>1, GreatestExists
<1> QED
    BY <1>1 DEF Latest

\* What the engine appends: lines with nothing new, or such as end with an announcement
\* of the goal it now holds and an answer that agrees with it.
LEMMA EngineSays ==
    ASSUME GoalInv, NEW lines \in Seq(GoalLines), goalWire' = goalWire \o lines,
           goalHeld' \in Nat, UNCHANGED <<goalShown, goalOvertaken, goalMissed>>,
           \A k \in DOMAIN lines : lines[k].goal \in {None, goalHeld'},
           \A k \in DOMAIN lines : lines[k].to = "everyone" => lines[k].goal # None,
           goalHeld' # goalHeld => \E k \in DOMAIN lines : lines[k].to = "everyone"
    PROVE  GoalInv'
<1> DEFINE a == Len(goalWire)
           b == Len(lines)
<1>1. /\ a \in Nat /\ b \in Nat /\ goalWire \in Seq(GoalLines)
      /\ DOMAIN goalWire = 1 .. a /\ DOMAIN lines = 1 .. b
    BY DEF GoalInv
<1>2. /\ goalWire' \in Seq(GoalLines) /\ Len(goalWire') = a + b
      /\ \A n \in 1 .. a + b : goalWire'[n] = IF n <= a THEN goalWire[n] ELSE lines[n - a]
    BY <1>1, ConcatProperties
<1>3. DOMAIN goalWire' = 1 .. a + b
    BY <1>1, <1>2, LenProperties
<1>4. ASSUME NEW n \in 1 .. a PROVE n \in DOMAIN goalWire' /\ goalWire'[n] = goalWire[n]
    BY <1>1, <1>2, <1>3
<1>5. ASSUME NEW k \in 1 .. b
      PROVE  a + k \in DOMAIN goalWire' /\ goalWire'[a + k] = lines[k] /\ a + k > a
  <2>1. a + k \in 1 .. a + b /\ ~(a + k <= a) /\ (a + k) - a = k /\ a + k > a
    BY <1>1
  <2> QED
    BY <1>2, <1>3, <2>1
<1>6. ASSUME NEW n \in DOMAIN goalWire'
      PROVE  n \in 1 .. a \/ \E k \in 1 .. b : n = a + k
  <2>1. n \in 1 .. a + b
    BY <1>3, <1>6
  <2>2. CASE n > a
    <3>1. n - a \in 1 .. b /\ n = a + (n - a)
      BY <1>1, <2>1, <2>2
    <3> QED
      BY <3>1
  <2> QED
    BY <1>1, <2>1, <2>2
<1> HIDE DEF a, b
<1>7. \A n \in DOMAIN goalWire' : Announces(n)' => goalWire'[n].goal # None
    BY <1>1, <1>4, <1>5, <1>6 DEF GoalInv, Announces
<1>8. ASSUME NEW n \in DOMAIN goalWire', goalWire'[n].goal # None, LastAnnounced(n)'
      PROVE  goalWire'[n].goal = goalHeld'
  <2>1. CASE \E k \in 1 .. b : n = a + k
    BY <1>1, <1>5, <1>8, <2>1
  <2>2. CASE n \in 1 .. a
    <3>1. \A k \in 1 .. b : lines[k].to # "everyone"
      <4> TAKE k \in 1 .. b
      <4>1. a + k > n /\ a + k \in DOMAIN goalWire' /\ goalWire'[a + k] = lines[k]
        BY <1>1, <1>5, <2>2
      <4> QED
        BY <1>8, <4>1 DEF LastAnnounced, Announces
    <3>2. goalHeld' = goalHeld
      BY <1>1, <3>1
    <3>3. goalWire'[n] = goalWire[n]
      BY <1>4, <2>2
    <3>4. LastAnnounced(n)
      BY <1>1, <1>4, <1>8 DEF LastAnnounced, Announces
    <3> QED
      BY <1>1, <1>8, <2>2, <3>2, <3>3, <3>4 DEF GoalInv
  <2> QED
    BY <1>6, <2>1, <2>2
<1>9. ASSUME \A n \in DOMAIN goalWire' : ~Announces(n)', goalShown' # None
      PROVE  goalShown' = goalHeld' \/ goalOvertaken' \/ goalMissed'
  <2>1. \A n \in DOMAIN goalWire : ~Announces(n)
    BY <1>1, <1>4, <1>9 DEF Announces
  <2>2. \A k \in 1 .. b : lines[k].to # "everyone"
    BY <1>5, <1>9 DEF Announces
  <2>3. goalHeld' = goalHeld
    BY <1>1, <2>2
  <2> QED
    BY <1>9, <2>1, <2>3 DEF GoalInv
<1> QED
    BY <1>2, <1>7, <1>8, <1>9 DEF GoalInv

LEMMA ChunkIsRead ==
    ASSUME GoalInv, NEW n \in DOMAIN goalWire, ReadGoals(n)
    PROVE  GoalInv'
<1> DEFINE chunk == SubSeq(goalWire, 1, n)
           L == Len(goalWire)
<1>1. /\ L \in Nat /\ DOMAIN goalWire = 1 .. L /\ n \in 1 .. L
      /\ goalWire \in Seq(GoalLines) /\ goalHeld \in Nat
    BY DEF GoalInv
<1>2. /\ chunk \in Seq(GoalLines) /\ DOMAIN chunk = 1 .. n
      /\ \A m \in 1 .. n : chunk[m] = goalWire[m]
    BY <1>1
<1>3. /\ goalWire' = SubSeq(goalWire, n + 1, L)
      /\ goalShown' = ShownAfter(chunk) /\ goalHeld' = goalHeld
    BY DEF ReadGoals
<1>4. /\ goalWire' \in Seq(GoalLines) /\ DOMAIN goalWire' = 1 .. L - n
      /\ \A m \in 1 .. L - n : goalWire'[m] = goalWire[n + m]
    BY <1>1, <1>3
<1>5. ASSUME NEW m \in 1 .. L, m > n
      PROVE  m - n \in DOMAIN goalWire' /\ goalWire'[m - n] = goalWire[m]
  <2>1. m - n \in 1 .. L - n /\ n + (m - n) = m
    BY <1>1, <1>5
  <2> QED
    BY <1>4, <2>1
<1>6. ASSUME NEW m \in DOMAIN goalWire'
      PROVE  /\ n + m \in DOMAIN goalWire /\ goalWire'[m] = goalWire[n + m]
             /\ LastAnnounced(m)' => LastAnnounced(n + m)
  <2>1. m \in 1 .. L - n /\ n + m \in 1 .. L
    BY <1>1, <1>4, <1>6
  <2>2. ASSUME LastAnnounced(m)', NEW k \in 1 .. L, k > n + m
        PROVE  ~Announces(k)
    <3>1. k > n /\ k - n > m
      BY <1>1, <2>1, <2>2
    <3>2. k - n \in DOMAIN goalWire' /\ goalWire'[k - n] = goalWire[k]
      BY <1>5, <3>1
    <3> QED
      BY <2>2, <3>1, <3>2 DEF LastAnnounced, Announces
  <2> QED
    BY <1>1, <1>4, <2>1, <2>2 DEF LastAnnounced
<1>7. \A m \in DOMAIN goalWire' : Announces(m)' => goalWire'[m].goal # None
    BY <1>6 DEF GoalInv, Announces
<1>8. \A m \in DOMAIN goalWire' :
        goalWire'[m].goal # None /\ LastAnnounced(m)' => goalWire'[m].goal = goalHeld'
    BY <1>3, <1>6 DEF GoalInv
<1>9. ASSUME \A m \in DOMAIN goalWire' : ~Announces(m)', goalShown' # None
      PROVE  goalShown' = goalHeld' \/ goalOvertaken' \/ goalMissed'
  <2>1. \A m \in 1 .. L : m > n => ~Announces(m)
    BY <1>5, <1>9 DEF Announces
  <2> HIDE DEF chunk, L
  <2>2. /\ Answers(chunk) \subseteq 1 .. n /\ Notices(chunk) \subseteq 1 .. n
        /\ \A m \in 1 .. n : m \in Notices(chunk) <=> Announces(m)
    BY <1>2 DEF Answers, Notices, Announces
  <2>3. CASE Answers(chunk) # {}
    <3> DEFINE k == Latest(Answers(chunk))
    <3>1. k \in Answers(chunk) /\ k \in 1 .. n
      BY <1>1, <2>2, <2>3, LatestIsLast
    <3>2. goalShown' = goalWire[k].goal /\ goalWire[k].goal # None
      BY <1>2, <1>3, <2>3, <3>1 DEF ShownAfter, Answers
    <3>3. goalOvertaken' = \E m \in Notices(chunk) : m > k
      BY <2>3 DEF ReadGoals, chunk
    <3> HIDE DEF k
    <3>4. ASSUME ~goalOvertaken' PROVE LastAnnounced(k)
      <4>1. ASSUME NEW m \in 1 .. L, m > k PROVE ~Announces(m)
        <5>1. CASE m > n
          BY <2>1, <5>1
        <5>2. CASE ~(m > n)
          <6>1. m \in 1 .. n
            BY <1>1, <5>2
          <6> QED
            BY <2>2, <3>3, <3>4, <4>1, <6>1
        <5> QED
          BY <5>1, <5>2
      <4> QED
        BY <1>1, <4>1 DEF LastAnnounced
    <3>5. k \in DOMAIN goalWire
      BY <1>1, <3>1
    <3> QED
      BY <1>3, <3>2, <3>4, <3>5 DEF GoalInv
  <2>4. CASE Answers(chunk) = {} /\ Notices(chunk) # {}
    <3> DEFINE k == Latest(Notices(chunk))
    <3>1. k \in Notices(chunk) /\ k \in 1 .. n /\ \A m \in Notices(chunk) : m <= k
      BY <1>1, <2>2, <2>4, LatestIsLast
    <3>2. goalShown' = goalWire[k].goal /\ Announces(k)
      BY <1>2, <1>3, <2>2, <2>4, <3>1 DEF ShownAfter
    <3> HIDE DEF k
    <3>3. LastAnnounced(k)
      <4>1. ASSUME NEW m \in 1 .. L, m > k PROVE ~Announces(m)
        <5>1. CASE m > n
          BY <2>1, <5>1
        <5>2. CASE ~(m > n)
          <6>1. m \in 1 .. n
            BY <1>1, <5>2
          <6> QED
            BY <2>2, <3>1, <4>1, <6>1
        <5> QED
          BY <5>1, <5>2
      <4> QED
        BY <1>1, <4>1 DEF LastAnnounced
    <3>5. k \in DOMAIN goalWire
      BY <1>1, <3>1
    <3> QED
      BY <1>3, <3>2, <3>3, <3>5 DEF GoalInv
  <2>5. CASE Answers(chunk) = {} /\ Notices(chunk) = {}
    <3>1. goalShown' = goalShown /\ UNCHANGED <<goalOvertaken, goalMissed>>
      BY <1>3, <2>5 DEF ShownAfter, ReadGoals, chunk
    <3>2. \A m \in 1 .. L : ~Announces(m)
      <4> TAKE m \in 1 .. L
      <4>1. CASE m > n
        BY <2>1, <4>1
      <4>2. CASE ~(m > n)
        <5>1. m \in 1 .. n
          BY <1>1, <4>2
        <5> QED
          BY <2>2, <2>5, <5>1
      <4> QED
        BY <4>1, <4>2
    <3> QED
      BY <1>1, <1>3, <1>9, <3>1, <3>2 DEF GoalInv
  <2> QED
    BY <2>3, <2>4, <2>5
<1> QED
    BY <1>1, <1>3, <1>4, <1>7, <1>8, <1>9 DEF GoalInv

LEMMA GoalKept == GoalInv /\ [GoalNext]_goalVars => GoalInv'
<1> SUFFICES ASSUME GoalInv, [GoalNext]_goalVars PROVE GoalInv'
    OBVIOUS
<1>0. None \notin Nat
    BY GoalsAssumption
<1>1. ASSUME UNCHANGED <<goalShown, goalHeld, goalWire, goalOvertaken, goalMissed>> PROVE GoalInv'
    BY <1>1 DEF GoalInv, Announces, LastAnnounced
<1>2. ASSUME NEW c \in GoalCalls,
             SetThreadGoal(c) \/ ClearThreadGoal(c) \/ LoadThreadGoal(c) \/ GoalCallTimesOut(c)
      PROVE  GoalInv'
    BY <1>1, <1>2 DEF SetThreadGoal, ClearThreadGoal, LoadThreadGoal, AskGoal, GoalCallTimesOut
<1>3. ASSUME NEW c \in GoalCalls, EngineHandlesGoal(c) PROVE GoalInv'
  <2>1. UNCHANGED <<goalShown, goalOvertaken, goalMissed>> /\ goalHeld \in Nat
    BY <1>3 DEF EngineHandlesGoal, GoalInv
  <2>2. CASE Says(<<GoalAnswer(c, None)>>) /\ UNCHANGED goalHeld
    <3> DEFINE lines == <<GoalAnswer(c, None)>>
    <3>1. lines \in Seq(GoalLines) /\ DOMAIN lines = {1} /\ lines[1].goal = None
      BY DEF GoalLines, GoalAnswer
    <3>2. \A k \in DOMAIN lines : lines[k].to = "everyone" => lines[k].goal # None
      BY GoalsAssumption DEF GoalAnswer
    <3> QED
      BY <2>1, <2>2, <3>1, <3>2, EngineSays DEF Says
  <2>3. CASE Says(<<GoalAnswer(c, goalHeld)>>) /\ UNCHANGED goalHeld
    <3> DEFINE lines == <<GoalAnswer(c, goalHeld)>>
    <3>1. /\ lines \in Seq(GoalLines) /\ DOMAIN lines = {1}
          /\ lines[1].goal = goalHeld /\ goalHeld # None
      BY <1>0, <2>1 DEF GoalLines, GoalAnswer
    <3>2. goalWire' = goalWire \o lines
      BY <2>3 DEF Says
    <3> HIDE DEF lines
    <3> QED
      BY <2>1, <2>3, <3>1, <3>2, EngineSays
  <2>4. CASE goalHeld' = goalHeld + 1 /\ Says(<<GoalAnswer(c, goalHeld'), GoalNotice(goalHeld')>>)
    <3> DEFINE lines == <<GoalAnswer(c, goalHeld'), GoalNotice(goalHeld')>>
    <3>1. goalHeld' \in Nat /\ goalHeld' # None
      BY <1>0, <2>1, <2>4
    <3>2. /\ lines \in Seq(GoalLines) /\ DOMAIN lines = {1, 2}
          /\ lines[1].goal = goalHeld' /\ lines[2].goal = goalHeld' /\ lines[2].to = "everyone"
      BY <3>1 DEF GoalLines, GoalAnswer, GoalNotice
    <3>3. goalWire' = goalWire \o lines
      BY <2>4 DEF Says
    <3> HIDE DEF lines
    <3> QED
      BY <2>1, <3>1, <3>2, <3>3, EngineSays
  <2>5. CASE goalHeld' = goalHeld + 1 /\ Says(<<GoalNotice(goalHeld'), GoalAnswer(c, goalHeld')>>)
    <3> DEFINE lines == <<GoalNotice(goalHeld'), GoalAnswer(c, goalHeld')>>
    <3>1. goalHeld' \in Nat /\ goalHeld' # None
      BY <1>0, <2>1, <2>5
    <3>2. /\ lines \in Seq(GoalLines) /\ DOMAIN lines = {1, 2}
          /\ lines[1].goal = goalHeld' /\ lines[2].goal = goalHeld' /\ lines[1].to = "everyone"
      BY <3>1 DEF GoalLines, GoalAnswer, GoalNotice
    <3>3. goalWire' = goalWire \o lines
      BY <2>5 DEF Says
    <3> HIDE DEF lines
    <3> QED
      BY <2>1, <3>1, <3>2, <3>3, EngineSays
  <2> QED
    BY <1>3, <2>2, <2>3, <2>4, <2>5 DEF EngineHandlesGoal
<1>4. ASSUME NEW n \in DOMAIN goalWire, ReadGoals(n) PROVE GoalInv'
    BY <1>4, ChunkIsRead
<1>5. CASE EngineChangesGoal
  <2> DEFINE lines == <<GoalNotice(goalHeld')>>
  <2>1. /\ goalHeld' \in Nat /\ goalHeld' # None
        /\ UNCHANGED <<goalShown, goalOvertaken, goalMissed>>
    BY <1>0, <1>5 DEF EngineChangesGoal, GoalInv
  <2>2. /\ lines \in Seq(GoalLines) /\ DOMAIN lines = {1}
        /\ lines[1].goal = goalHeld' /\ lines[1].to = "everyone"
    BY <2>1 DEF GoalLines, GoalNotice
  <2>3. goalWire' = goalWire \o lines
    BY <1>5 DEF EngineChangesGoal, Says
  <2> HIDE DEF lines
  <2> QED
    BY <2>1, <2>2, <2>3, EngineSays
<1>6. CASE EngineLosesGoals
  <2>1. /\ goalWire' = <<>> /\ UNCHANGED <<goalShown, goalHeld, goalOvertaken>>
        /\ goalMissed' = (goalMissed \/ Notices(goalWire) # {})
        /\ goalWire' \in Seq(GoalLines) /\ DOMAIN goalWire' = {}
    BY <1>6 DEF EngineLosesGoals
  <2>2. CASE \E n \in DOMAIN goalWire : Announces(n)
    <3>1. goalMissed'
      BY <2>1, <2>2 DEF Notices, Announces
    <3> QED
      BY <2>1, <3>1 DEF GoalInv, Announces, LastAnnounced
  <2>3. CASE \A n \in DOMAIN goalWire : ~Announces(n)
    BY <2>1, <2>3 DEF GoalInv, Announces, LastAnnounced
  <2> QED
    BY <2>2, <2>3
<1>7. CASE UNCHANGED goalVars
    BY <1>1, <1>7 DEF goalVars
<1> QED
    BY <1>2, <1>3, <1>4, <1>5, <1>6, <1>7 DEF GoalNext

\* When all the engine has said is read, the goal shown is the one it holds, unless an
\* announcement was lost with an engine or overtaken in its chunk (setThreadGoal,
\* #loadThreadGoal and the notifications of agentService.ts): for any number of calls and
\* of changes, and chunks cut anywhere.
THEOREM GoalsShownAreHeld == GoalSpec => []GoalShownIsHeld
<1>1. GoalInv => GoalShownIsHeld
    BY DEF GoalInv, GoalShownIsHeld
<1> QED
    BY <1>1, GoalStart, GoalKept, PTL DEF GoalSpec

-----------------------------------------------------------------------------
(* The logs.  A line is busy when its file is looked at, rotated or written; *)
(* the lines after it still wait, so those on the disk are before it.  A     *)
(* rotation moves each part to a place that the step before has emptied.     *)

LogStages == {"not", "waiting", "stat", "rotating", "appending", "written", "torn", "failed"}
AtWork == {"stat", "rotating", "appending"}
OnDisk == {l \in Numbers : logged[l] \in {"written", "torn"}}

LinesInOrder ==
    \A k, l \in Numbers : k < l =>
      /\ IsAt(k, "not") => IsAt(l, "not")
      /\ IsAt(k, "waiting") \/ logged[k] \in AtWork => logged[l] \in {"not", "waiting"}

RotationGoesUp ==
    \A l \in Numbers : IsAt(l, "rotating") =>
      rotating < RetainedFiles /\ logFile[rotating + 1] = <<>>

\* What the places of a file and its older parts hold.
Ascend(parts) ==
    \A p, q \in Places(parts) : Older(p, q) => NumberAt(parts, p) < NumberAt(parts, q)
NumbersAre(parts, all) == \A p \in Places(parts) : NumberAt(parts, p) \in all

LinesInv ==
    /\ logFile \in [0 .. RetainedFiles -> Seq(Numbers \X BOOLEAN)]
    /\ logged \in [Numbers -> LogStages]
    /\ rotating \in 0 .. RetainedFiles
    /\ LinesInOrder /\ RotationGoesUp
    /\ NumbersAre(logFile, OnDisk) /\ AreTheLatest(logFile, OnDisk)

CrashFiles == [{0, 1} -> Seq((1 .. MaxCrashes) \X BOOLEAN)]

\* Whatever can be read of a file is in a list.
AllReadIn(file, list) ==
    \A i \in {0, 1} : \A n \in 1 .. Len(file[i]) :
      Readable(file[i], n) => \E m \in 1 .. Len(list) : list[m] = file[i][n][1]

CrashesInv ==
    /\ crashFile \in CrashFiles /\ Ascend(crashFile) /\ NumbersAre(crashFile, 1 .. recorded)
    /\ crashes \in Seq(1 .. recorded) /\ recorded \in 0 .. MaxCrashes
    /\ \A m, n \in 1 .. Len(crashes) : m < n => crashes[m] < crashes[n]
    /\ AllReadIn(crashFile, crashes)

LogInv == LinesInv /\ CrashesInv

-----------------------------------------------------------------------------

LEMMA PlaceIs ==
    ASSUME NEW D, NEW S, NEW parts \in [D -> Seq(S)], NEW p
    PROVE  p \in Places(parts) <=> \E i \in D : \E n \in 1 .. Len(parts[i]) : p = <<i, n>>
<1>1. \A i \in D : parts[i] \in Seq(S) /\ DOMAIN parts[i] = 1 .. Len(parts[i])
  <2>1. ASSUME NEW i \in D PROVE parts[i] \in Seq(S) /\ DOMAIN parts[i] = 1 .. Len(parts[i])
    <3>1. parts[i] \in Seq(S)
      OBVIOUS
    <3> QED
      BY <3>1, LenProperties
  <2> QED
    BY <2>1
<1>2. DOMAIN parts = D
    OBVIOUS
<1> QED
    BY <1>1, <1>2 DEF Places

LEMMA NumberIs ==
    ASSUME NEW D, NEW S, NEW B, NEW parts \in [D -> Seq(S \X B)], NEW p \in Places(parts)
    PROVE  NumberAt(parts, p) \in S
<1>1. PICK i \in D : \E n \in 1 .. Len(parts[i]) : p = <<i, n>>
    BY PlaceIs
<1>2. PICK n \in 1 .. Len(parts[i]) : p = <<i, n>>
    BY <1>1
<1>3. parts[i] \in Seq(S \X B)
    OBVIOUS
<1>4. parts[i][n] \in S \X B
    BY <1>3, ElementOfSeq
<1> QED
    BY <1>2, <1>4 DEF NumberAt

\* The parts are moved, and the oldest may go.
MovedBy(D, S, B, old, new, w, all) ==
    /\ D \subseteq Nat /\ S \subseteq Nat /\ old \in [D -> Seq(S \X B)] /\ Ascend(old)
    /\ NumbersAre(old, all)
    /\ w \in [Places(new) -> Places(old)]
    /\ \A p \in Places(new) : NumberAt(new, p) = NumberAt(old, w[p])
    /\ \A p, q \in Places(new) : Older(p, q) => Older(w[p], w[q])
    /\ \A p \in Places(new), q \in Places(old) :
         Older(w[p], q) => \E r \in Places(new) : w[r] = q

LEMMA Relocated ==
    ASSUME NEW D, NEW S, NEW B, NEW old, NEW new, NEW w, NEW all,
           MovedBy(D, S, B, old, new, w, all)
    PROVE  /\ Ascend(new) /\ NumbersAre(new, all)
           /\ AreTheLatest(old, all) => AreTheLatest(new, all)
<1>1. /\ D \subseteq Nat /\ S \subseteq Nat /\ old \in [D -> Seq(S \X B)] /\ Ascend(old)
      /\ NumbersAre(old, all)
      /\ w \in [Places(new) -> Places(old)]
      /\ \A p \in Places(new) : NumberAt(new, p) = NumberAt(old, w[p])
      /\ \A p, q \in Places(new) : Older(p, q) => Older(w[p], w[q])
      /\ \A p \in Places(new), q \in Places(old) :
           Older(w[p], q) => \E r \in Places(new) : w[r] = q
    BY DEF MovedBy
<1> USE <1>1
<1>2. \A p \in Places(new) : w[p] \in Places(old)
    OBVIOUS
<1>3. Ascend(new)
    BY <1>2 DEF Ascend
<1>4. NumbersAre(new, all)
    BY <1>2 DEF NumbersAre
<1>5. ASSUME AreTheLatest(old, all), NEW p \in Places(new), NEW l \in all, l > NumberAt(new, p)
      PROVE  \E r \in Places(new) : NumberAt(new, r) = l
  <2>1. PICK q \in Places(old) : NumberAt(old, q) = l
      BY <1>2, <1>5 DEF AreTheLatest
  <2>2. Older(w[p], q) \/ Older(q, w[p]) \/ w[p] = q
    <3>1. PICK i \in D : \E m \in 1 .. Len(old[i]) : q = <<i, m>>
      BY ONLY PlaceIs, old \in [D -> Seq(S \X B)], q \in Places(old)
    <3>2. PICK m \in 1 .. Len(old[i]) : q = <<i, m>>
      BY <3>1
    <3>3. PICK u \in Places(old) : u = w[p]
      BY <1>2
    <3>4. PICK j \in D : \E n \in 1 .. Len(old[j]) : u = <<j, n>>
      BY ONLY PlaceIs, old \in [D -> Seq(S \X B)], u \in Places(old)
    <3>5. PICK n \in 1 .. Len(old[j]) : w[p] = <<j, n>>
      BY <3>3, <3>4
    <3> QED
      BY <3>2, <3>5 DEF Older
  <2>3. NumberAt(old, w[p]) < NumberAt(old, q)
    BY <1>5, <2>1
  <2>4. NumberAt(old, q) \in Nat /\ NumberAt(old, w[p]) \in Nat
    BY <1>2, NumberIs
  <2>5. Older(w[p], q)
    BY <1>2, <2>2, <2>3, <2>4 DEF Ascend
  <2>6. PICK r \in Places(new) : w[r] = q
    BY <2>5
  <2> QED
    BY <2>1, <2>6
<1>6. AreTheLatest(old, all) => AreTheLatest(new, all)
    BY <1>3, <1>5 DEF Ascend, AreTheLatest
<1> QED
    BY <1>3, <1>4, <1>6

\* A number greater than all of them is put at the end of the newest part.
GoesOn(D, S, B, old, all, l, b, new) ==
    /\ D \subseteq Nat /\ S \subseteq Nat /\ 0 \in D /\ old \in [D -> Seq(S \X B)]
    /\ Ascend(old) /\ NumbersAre(old, all) /\ all \subseteq S
    /\ l \in S /\ b \in B /\ \A k \in all : k < l
    /\ new = [old EXCEPT ![0] = Append(@, <<l, b>>)]

LEMMA Continued ==
    ASSUME NEW D, NEW S, NEW B, NEW old, NEW all, NEW l, NEW b, NEW new,
           GoesOn(D, S, B, old, all, l, b, new)
    PROVE  /\ new \in [D -> Seq(S \X B)]
           /\ Ascend(new) /\ NumbersAre(new, all \cup {l})
           /\ AreTheLatest(old, all) => AreTheLatest(new, all \cup {l})
<1> DEFINE end == <<0, Len(old[0]) + 1>>
<1>1. /\ D \subseteq Nat /\ S \subseteq Nat /\ 0 \in D /\ old \in [D -> Seq(S \X B)]
      /\ Ascend(old) /\ NumbersAre(old, all) /\ all \subseteq S
      /\ l \in S /\ b \in B /\ \A k \in all : k < l
      /\ new = [old EXCEPT ![0] = Append(@, <<l, b>>)]
    BY DEF GoesOn
<1>2. old \in [D -> Seq(S \X B)]
    BY <1>1
<1> USE <1>1
<1>3. /\ <<l, b>> \in S \X B /\ old[0] \in Seq(S \X B)
      /\ Append(old[0], <<l, b>>) \in Seq(S \X B)
      /\ Len(Append(old[0], <<l, b>>)) = Len(old[0]) + 1
      /\ Append(old[0], <<l, b>>)[Len(old[0]) + 1] = <<l, b>>
      /\ \A n \in 1 .. Len(old[0]) : Append(old[0], <<l, b>>)[n] = old[0][n]
      /\ Len(old[0]) \in Nat
    OBVIOUS
<1>4. new \in [D -> Seq(S \X B)]
    BY <1>3
<1>5. /\ new[0] = Append(old[0], <<l, b>>)
      /\ \A i \in D : i # 0 => new[i] = old[i]
    BY <1>3
<1>6. ASSUME NEW p
      PROVE  p \in Places(new) <=> p \in Places(old) \/ p = end
  <2>1. p \in Places(new) <=> \E i \in D : \E n \in 1 .. Len(new[i]) : p = <<i, n>>
    BY ONLY <1>4, PlaceIs
  <2>2. p \in Places(old) <=> \E i \in D : \E n \in 1 .. Len(old[i]) : p = <<i, n>>
    BY ONLY <1>2, PlaceIs
  <2>3. 1 .. Len(new[0]) = 1 .. Len(old[0]) \cup {Len(old[0]) + 1}
    BY <1>3, <1>5
  <2> QED
    BY <1>5, <2>1, <2>2, <2>3
<1>7. ASSUME NEW p \in Places(old)
      PROVE  /\ NumberAt(new, p) = NumberAt(old, p) /\ NumberAt(old, p) \in all
             /\ Older(p, end) /\ ~Older(end, p)
  <2>1. PICK i \in D : \E n \in 1 .. Len(old[i]) : p = <<i, n>>
    BY ONLY <1>2, PlaceIs, p \in Places(old)
  <2>2. PICK n \in 1 .. Len(old[i]) : p = <<i, n>>
    BY <2>1
  <2>3. Len(old[i]) \in Nat
    BY LenProperties
  <2>4. new[i][n] = old[i][n]
    BY <1>3, <1>5
  <2>5. NumberAt(old, p) \in all
    BY DEF NumbersAre
  <2>6. NumberAt(new, p) = NumberAt(old, p)
    BY <2>2, <2>4 DEF NumberAt
  <2>7. i \in Nat /\ n \in Nat /\ n <= Len(old[i])
    BY <2>3
  <2>8. Older(p, end) /\ ~Older(end, p)
    BY <1>3, <2>2, <2>7 DEF Older
  <2> QED
    BY <2>5, <2>6, <2>8
<1>8. NumberAt(new, end) = l
    BY <1>3, <1>5 DEF NumberAt
<1>9. ~Older(end, end)
    BY <1>3 DEF Older
<1> HIDE DEF end
<1>10. Ascend(new)
  <2> SUFFICES ASSUME NEW p \in Places(new), NEW q \in Places(new), Older(p, q)
               PROVE  NumberAt(new, p) < NumberAt(new, q)
    BY DEF Ascend
  <2>1. CASE q = end
    BY <1>6, <1>7, <1>8, <1>9, <2>1
  <2>2. CASE q # end
    BY <1>6, <1>7, <2>2 DEF Ascend
  <2> QED
    BY <2>1, <2>2
<1>11. NumbersAre(new, all \cup {l})
    BY <1>6, <1>7, <1>8 DEF NumbersAre
<1>12. ASSUME AreTheLatest(old, all), NEW p \in Places(new), NEW k \in all \cup {l},
              k > NumberAt(new, p)
       PROVE  \E q \in Places(new) : NumberAt(new, q) = k
  <2>1. CASE k = l
    BY <1>6, <1>8, <2>1
  <2>2. CASE k # l
    <3>1. k \in all /\ k < l /\ k \in Nat /\ l \in Nat
      BY <2>2
    <3>2. p # end
      BY <1>8, <1>12, <3>1
    <3>3. p \in Places(old) /\ k > NumberAt(old, p)
      BY <1>6, <1>7, <1>12, <3>2
    <3>4. PICK q \in Places(old) : NumberAt(old, q) = k
      BY <1>12, <3>1, <3>3 DEF AreTheLatest
    <3> QED
      BY <1>6, <1>7, <3>4
  <2> QED
    BY <2>1, <2>2
<1>13. AreTheLatest(old, all) => AreTheLatest(new, all \cup {l})
    BY <1>10, <1>12 DEF Ascend, AreTheLatest
<1> QED
    BY <1>4, <1>10, <1>11, <1>13

-----------------------------------------------------------------------------

Rising(s, c) == \A j, k \in 1 .. c : j < k => s[j] < s[k]
CrashesListed(S) == \E s \in [1 .. Cardinality(S) -> S] : Rising(s, Cardinality(S))

LEMMA OneMoreIsListed ==
    ASSUME NEW N \in Nat, NEW S, S \subseteq 1 .. N, S # {},
           \A T : T \subseteq 1 .. N /\ Cardinality(T) < Cardinality(S) => CrashesListed(T)
    PROVE  CrashesListed(S)
<1>1. IsFiniteSet(S) /\ Cardinality(S) \in Nat
  <2>1. IsFiniteSet(1 .. N)
    BY FS_Interval
  <2>2. IsFiniteSet(S)
    BY <2>1, FS_Subset
  <2> QED
    BY <2>2, FS_CardinalityType
<1>2. PICK x \in S : \A y \in S : y <= x
  <2>1. S \subseteq 0 .. N
    OBVIOUS
  <2> QED
    BY <2>1, GreatestExists
<1> DEFINE T == S \ {x}
           c == Cardinality(S)
<1>3. Cardinality(T) = c - 1 /\ c - 1 \in Nat
  <2>1. IsFiniteSet(T) /\ Cardinality(T) = c - 1
    BY <1>1, <1>2, FS_RemoveElement
  <2>2. Cardinality(T) \in Nat
    BY <2>1, FS_CardinalityType
  <2> QED
    BY <2>1, <2>2
<1>4. T \subseteq 1 .. N
    OBVIOUS
<1>5. CrashesListed(T)
  <2>1. Cardinality(T) < Cardinality(S)
    BY <1>1, <1>3
  <2> HIDE DEF T
  <2> QED
    BY <1>4, <2>1
<1>6. PICK s \in [1 .. c - 1 -> T] : Rising(s, c - 1)
    BY <1>3, <1>5 DEF CrashesListed
<1> DEFINE u == [k \in 1 .. c |-> IF k = c THEN x ELSE s[k]]
<1>7. \A k \in 1 .. c - 1 : s[k] \in S /\ s[k] \in Nat /\ s[k] < x
  <2>1. ASSUME NEW k \in 1 .. c - 1 PROVE s[k] \in S /\ s[k] \in Nat /\ s[k] < x
    <3>1. s[k] \in S /\ s[k] # x
      <4>1. s[k] \in T
        BY <1>6
      <4> QED
        BY <4>1
    <3>2. \A y \in S : y \in Nat
      OBVIOUS
    <3>3. s[k] \in Nat /\ x \in Nat /\ s[k] <= x
      BY <1>2, <3>1, <3>2
    <3> QED
      BY <3>1, <3>3
  <2> QED
    BY <2>1
<1> HIDE DEF T
<1>8. u \in [1 .. c -> S]
    BY <1>1, <1>2, <1>7
<1>9. Rising(u, c)
  <2> SUFFICES ASSUME NEW j \in 1 .. c, NEW k \in 1 .. c, j < k
               PROVE  u[j] < u[k]
    BY DEF Rising
  <2>1. j \in 1 .. c - 1 /\ u[j] = s[j]
    BY <1>1
  <2>2. CASE k = c
    BY <1>7, <2>1, <2>2
  <2>3. CASE k # c
    <3>1. k \in 1 .. c - 1 /\ u[k] = s[k]
      BY <1>1, <2>3
    <3> QED
      BY <1>6, <2>1, <3>1 DEF Rising
  <2> QED
    BY <2>2, <2>3
<1> QED
    BY <1>8, <1>9 DEF CrashesListed

\* The set with the fewest numbers that could not be put in order does not exist.
LEMMA EverySetIsListed ==
    ASSUME NEW N \in Nat, NEW S, S \subseteq 1 .. N
    PROVE  CrashesListed(S)
<1> DEFINE Bad == {T \in SUBSET (1 .. N) : ~CrashesListed(T)}
           C == {Cardinality(T) : T \in Bad}
<1>1. \A T \in SUBSET (1 .. N) : Cardinality(T) \in Nat /\ IsFiniteSet(T)
  <2>1. IsFiniteSet(1 .. N)
    BY FS_Interval
  <2> QED
    BY <2>1, FS_Subset, FS_CardinalityType
<1>2. SUFFICES ASSUME Bad # {} PROVE FALSE
    OBVIOUS
<1>3. C \subseteq Nat /\ C # {}
    BY <1>1, <1>2
<1>4. PICK c \in C : \A d \in C : c <= d
    BY <1>3, LeastExists
<1>5. PICK T \in Bad : c = Cardinality(T)
    OBVIOUS
<1>6. ASSUME NEW U, U \subseteq 1 .. N, Cardinality(U) < Cardinality(T)
      PROVE  CrashesListed(U)
  <2>1. SUFFICES ASSUME ~CrashesListed(U) PROVE FALSE
    OBVIOUS
  <2>2. Cardinality(U) \in C
    BY <1>6, <2>1
  <2>3. c <= Cardinality(U)
    BY <1>4, <2>2
  <2>4. Cardinality(U) \in Nat /\ c \in Nat
    BY <1>1, <1>3, <1>6
  <2> HIDE DEF C
  <2> QED
    BY <1>5, <1>6, <2>3, <2>4
<1>7. T # {}
  <2>1. SUFFICES ASSUME T = {} PROVE FALSE
    OBVIOUS
  <2>2. Cardinality(T) = 0
    BY <2>1, FS_EmptySet
  <2>3. [k \in 1 .. 0 |-> k] \in [1 .. Cardinality(T) -> T]
    BY <2>2
  <2>4. CrashesListed(T)
    BY <2>2, <2>3 DEF CrashesListed, Rising
  <2> QED
    BY <2>4
<1>8. T \subseteq 1 .. N /\ ~CrashesListed(T)
    OBVIOUS
<1> HIDE DEF Bad, C
<1> QED
    BY <1>6, <1>7, <1>8, OneMoreIsListed

LEMMA InOrderIs ==
    ASSUME NEW N \in Nat, NEW S, S \subseteq 1 .. N
    PROVE  /\ Cardinality(S) \in Nat
           /\ InOrder(S) \in [1 .. Cardinality(S) -> S]
           /\ Rising(InOrder(S), Cardinality(S))
           /\ \A x \in S : \E k \in 1 .. Cardinality(S) : InOrder(S)[k] = x
<1> DEFINE c == Cardinality(S)
           s == InOrder(S)
<1>1. IsFiniteSet(S) /\ c \in Nat
  <2>1. IsFiniteSet(1 .. N)
    BY FS_Interval
  <2>2. IsFiniteSet(S)
    BY <2>1, FS_Subset
  <2> QED
    BY <2>2, FS_CardinalityType
<1>2. \E u \in [1 .. c -> S] : \A j, k \in DOMAIN u : j < k => u[j] < u[k]
  <2>1. PICK u \in [1 .. c -> S] : Rising(u, c)
    BY EverySetIsListed DEF CrashesListed
  <2> QED
    BY <2>1 DEF Rising
<1>3. s \in [1 .. c -> S] /\ \A j, k \in DOMAIN s : j < k => s[j] < s[k]
    BY <1>2 DEF InOrder
<1> HIDE DEF s
<1>4. Rising(s, c)
    BY <1>3 DEF Rising
<1>5. \A k \in 1 .. c : s[k] \in Nat
  <2>1. \A y \in S : y \in Nat
    OBVIOUS
  <2>2. \A k \in 1 .. c : s[k] \in S
    BY <1>3
  <2> HIDE DEF c
  <2> QED
    BY <2>1, <2>2
<1>6. s \in Injection(1 .. c, S)
  <2>1. ASSUME NEW j \in 1 .. c, NEW k \in 1 .. c, s[j] = s[k] PROVE j = k
    <3>1. s[j] \in Nat /\ s[k] \in Nat
      BY <1>5
    <3>2. ~(s[j] < s[k]) /\ ~(s[k] < s[j])
      BY <2>1, <3>1
    <3>3. ~(j < k) /\ ~(k < j)
      BY <1>4, <3>2 DEF Rising
    <3> QED
      BY <1>1, <3>3
  <2> QED
    BY <1>3, <2>1 DEF Injection, IsInjective
<1>7. Cardinality(1 .. c) = c
    BY <1>1, FS_Interval
<1>8. s \in Surjection(1 .. c, S)
    BY <1>1, <1>6, <1>7, FS_Injection
<1>9. \A x \in S : \E k \in 1 .. c : s[k] = x
    BY <1>3, <1>8 DEF Surjection
<1> QED
    BY <1>1, <1>3, <1>4, <1>9 DEF s

-----------------------------------------------------------------------------

\* What is read of a file, and from which of its lines.
IsReadFrom(r, file, s) ==
    /\ s \in [1 .. Len(r) -> 1 .. Len(file)]
    /\ Rising(s, Len(r))
    /\ \A k \in 1 .. Len(r) : Readable(file, s[k]) /\ r[k] = file[s[k]][1]
    /\ \A n \in 1 .. Len(file) : Readable(file, n) => \E k \in 1 .. Len(r) : s[k] = n

LEMMA LegibleIs ==
    ASSUME NEW S, NEW B, NEW file \in Seq(S \X B)
    PROVE  /\ Legible(file) \in Seq(S)
           /\ \E s : IsReadFrom(Legible(file), file, s)
<1> DEFINE R == {n \in DOMAIN file : Readable(file, n)}
           c == Cardinality(R)
           s == InOrder(R)
           r == Legible(file)
<1>1. Len(file) \in Nat /\ DOMAIN file = 1 .. Len(file)
    BY LenProperties
<1>2. R \subseteq 1 .. Len(file)
    BY <1>1
<1>3. /\ c \in Nat /\ s \in [1 .. c -> R] /\ Rising(s, c)
      /\ \A x \in R : \E k \in 1 .. c : s[k] = x
    BY <1>1, <1>2, InOrderIs
<1>4. DOMAIN s = 1 .. c
    BY <1>3
<1>5. r = [k \in 1 .. c |-> file[s[k]][1]]
    BY <1>4 DEF Legible
<1>6. s \in [1 .. c -> 1 .. Len(file)] /\ \A k \in 1 .. c : Readable(file, s[k])
    BY <1>2, <1>3
<1>7. \A n \in 1 .. Len(file) : Readable(file, n) => \E k \in 1 .. c : s[k] = n
    BY <1>1, <1>3
<1> HIDE DEF R, c, s, r
<1>8. \A n \in 1 .. Len(file) : file[n][1] \in S
  <2>1. ASSUME NEW n \in 1 .. Len(file) PROVE file[n][1] \in S
    <3>1. file[n] \in S \X B
      BY ElementOfSeq
    <3> QED
      BY <3>1
  <2> QED
    BY <2>1
<1>9. r \in [1 .. c -> S]
    BY <1>5, <1>6, <1>8
<1>10. r \in Seq(S) /\ Len(r) = c
  <2>1. r \in Seq(S)
    BY <1>3, <1>9, SeqDef
  <2> QED
    BY <1>3, <1>9, <2>1, LenProperties
<1>11. IsReadFrom(r, file, s)
    BY <1>3, <1>5, <1>6, <1>7, <1>10 DEF IsReadFrom
<1> QED
    BY <1>10, <1>11 DEF r

\* What is read of two parts ascends when they do, and misses nothing readable.
LoadedFrom(S, B, file, r) ==
    /\ S \subseteq Nat /\ file \in [{0, 1} -> Seq(S \X B)] /\ Ascend(file)
    /\ r = LoadCrashRecords(file)

LEMMA LoadedIs ==
    ASSUME NEW S, NEW B, NEW file, NEW r, LoadedFrom(S, B, file, r)
    PROVE  /\ r \in Seq(S)
           /\ \A m, n \in 1 .. Len(r) : m < n => r[m] < r[n]
           /\ \A n \in 1 .. Len(r) : \E p \in Places(file) : NumberAt(file, p) = r[n]
           /\ \A i \in {0, 1} : \A n \in 1 .. Len(file[i]) :
                Readable(file[i], n) => \E m \in 1 .. Len(r) : r[m] = file[i][n][1]
           /\ \A n \in 1 .. Len(r) : \E i \in {0, 1} : \E k \in 1 .. Len(file[i]) :
                Readable(file[i], k) /\ file[i][k][1] = r[n]
<1> DEFINE old == Legible(file[1])
           new == Legible(file[0])
<1>1. /\ S \subseteq Nat /\ file \in [{0, 1} -> Seq(S \X B)] /\ Ascend(file)
      /\ r = LoadCrashRecords(file)
    BY DEF LoadedFrom
<1> USE <1>1
<1>2. file[0] \in Seq(S \X B) /\ file[1] \in Seq(S \X B)
    OBVIOUS
<1>3. PICK s : IsReadFrom(old, file[1], s)
    BY <1>2, LegibleIs
<1>4. PICK t : IsReadFrom(new, file[0], t)
    BY <1>2, LegibleIs
<1>5. old \in Seq(S) /\ new \in Seq(S) /\ r = old \o new
    BY <1>2, LegibleIs DEF LoadCrashRecords
<1> HIDE DEF old, new
<1>6. /\ r \in Seq(S) /\ Len(r) = Len(old) + Len(new) /\ Len(old) \in Nat /\ Len(new) \in Nat
      /\ \A n \in 1 .. Len(old) : r[n] = old[n]
      /\ \A n \in 1 .. Len(new) : r[Len(old) + n] = new[n]
    BY <1>5
<1> DEFINE at(n) == IF n <= Len(old) THEN <<1, s[n]>> ELSE <<0, t[n - Len(old)]>>
<1>7. ASSUME NEW n \in 1 .. Len(r)
      PROVE  /\ at(n) \in Places(file) /\ NumberAt(file, at(n)) = r[n]
  <2>1. CASE n <= Len(old)
    <3>1. n \in 1 .. Len(old)
      BY <1>6, <2>1
    <3>2. s[n] \in 1 .. Len(file[1]) /\ old[n] = file[1][s[n]][1]
      BY <1>3, <3>1 DEF IsReadFrom
    <3>3. at(n) = <<1, s[n]>>
      BY <2>1
    <3>4. <<1, s[n]>> \in Places(file)
      BY <3>2, PlaceIs
    <3> QED
      BY <1>6, <3>1, <3>2, <3>3, <3>4 DEF NumberAt
  <2>2. CASE ~(n <= Len(old))
    <3>1. n - Len(old) \in 1 .. Len(new) /\ n = Len(old) + (n - Len(old))
      BY <1>6, <2>2
    <3> DEFINE k == n - Len(old)
    <3>2. t[k] \in 1 .. Len(file[0]) /\ new[k] = file[0][t[k]][1]
      BY <1>4, <3>1 DEF IsReadFrom
    <3>3. at(n) = <<0, t[k]>>
      BY <2>2
    <3>4. \A j \in 1 .. Len(file[0]) : <<0, j>> \in Places(file)
      BY PlaceIs
    <3>5. r[n] = new[k]
      BY <1>6, <3>1
    <3>6. at(n) \in Places(file)
      BY <3>2, <3>3, <3>4
    <3>7. NumberAt(file, at(n)) = r[n]
      BY <3>2, <3>3, <3>5 DEF NumberAt
    <3> QED
      BY <3>6, <3>7
  <2> QED
    BY <2>1, <2>2
<1>8. ASSUME NEW m \in 1 .. Len(r), NEW n \in 1 .. Len(r), m < n
      PROVE  Older(at(m), at(n))
  <2>1. CASE n <= Len(old)
    <3>1. m \in 1 .. Len(old) /\ n \in 1 .. Len(old)
      BY <1>6, <1>8, <2>1
    <3>2. s[m] < s[n]
      BY <1>3, <1>8, <3>1 DEF IsReadFrom, Rising
    <3>3. at(m) = <<1, s[m]>> /\ at(n) = <<1, s[n]>>
      BY <3>1
    <3> QED
      BY <3>2, <3>3 DEF Older
  <2>2. CASE m <= Len(old) /\ ~(n <= Len(old))
    <3>1. at(m) = <<1, s[m]>> /\ at(n) = <<0, t[n - Len(old)]>>
      BY <2>2
    <3> QED
      BY <3>1 DEF Older
  <2>3. CASE ~(m <= Len(old)) /\ ~(n <= Len(old))
    <3> DEFINE j == m - Len(old)
               k == n - Len(old)
    <3>1. j \in 1 .. Len(new) /\ k \in 1 .. Len(new) /\ j < k
      BY <1>6, <1>8, <2>3
    <3>2. t[j] < t[k]
      BY <1>4, <3>1 DEF IsReadFrom, Rising
    <3>3. at(m) = <<0, t[j]>> /\ at(n) = <<0, t[k]>>
      BY <2>3
    <3> QED
      BY <3>2, <3>3 DEF Older
  <2>4. m <= Len(old) \/ ~(n <= Len(old))
    BY <1>6, <1>8
  <2> QED
    BY <2>1, <2>2, <2>3, <2>4
<1> HIDE DEF at
<1>9. \A m, n \in 1 .. Len(r) : m < n => r[m] < r[n]
    BY <1>7, <1>8 DEF Ascend
<1>10. \A n \in 1 .. Len(r) : \E p \in Places(file) : NumberAt(file, p) = r[n]
    BY <1>7
<1>11. ASSUME NEW n \in 1 .. Len(file[0]), Readable(file[0], n)
       PROVE  \E m \in 1 .. Len(r) : r[m] = file[0][n][1]
  <2>1. PICK k \in 1 .. Len(new) : t[k] = n
    BY <1>4, <1>11 DEF IsReadFrom
  <2>2. new[k] = file[0][n][1]
    BY <1>4, <2>1 DEF IsReadFrom
  <2>3. Len(old) + k \in 1 .. Len(r) /\ r[Len(old) + k] = new[k]
    BY <1>6
  <2> QED
    BY <2>2, <2>3
<1>12. ASSUME NEW n \in 1 .. Len(file[1]), Readable(file[1], n)
       PROVE  \E m \in 1 .. Len(r) : r[m] = file[1][n][1]
  <2>1. PICK k \in 1 .. Len(old) : s[k] = n
    BY <1>3, <1>12 DEF IsReadFrom
  <2>2. old[k] = file[1][n][1]
    BY <1>3, <2>1 DEF IsReadFrom
  <2>3. k \in 1 .. Len(r) /\ r[k] = old[k]
    BY <1>6
  <2> QED
    BY <2>2, <2>3
<1>13. ASSUME NEW n \in 1 .. Len(r)
       PROVE  \E i \in {0, 1} : \E k \in 1 .. Len(file[i]) :
                Readable(file[i], k) /\ file[i][k][1] = r[n]
  <2>1. CASE n <= Len(old)
    <3>1. n \in 1 .. Len(old) /\ r[n] = old[n]
      BY <1>6, <2>1
    <3>2. s[n] \in 1 .. Len(file[1]) /\ old[n] = file[1][s[n]][1] /\ Readable(file[1], s[n])
      BY <1>3, <3>1 DEF IsReadFrom
    <3> QED
      BY <3>1, <3>2
  <2>2. CASE ~(n <= Len(old))
    <3> DEFINE k == n - Len(old)
    <3>1. k \in 1 .. Len(new) /\ n = Len(old) + k /\ r[n] = new[k]
      BY <1>6, <2>2
    <3>2. t[k] \in 1 .. Len(file[0]) /\ new[k] = file[0][t[k]][1] /\ Readable(file[0], t[k])
      BY <1>4, <3>1 DEF IsReadFrom
    <3> QED
      BY <3>1, <3>2
  <2> QED
    BY <2>1, <2>2
<1> QED
    BY <1>6, <1>9, <1>10, <1>11, <1>12, <1>13

-----------------------------------------------------------------------------

LEMMA LogBounds ==
    /\ MaxLines \in Nat /\ MaxCrashes \in Nat /\ RetainedFiles \in Nat /\ RetainedFiles > 0
    /\ Numbers \subseteq Nat /\ 0 \in 0 .. RetainedFiles /\ 0 .. RetainedFiles \subseteq Nat
BY LogsAssumption DEF Numbers

\* One line is at work, and those on the disk are before it.
LEMMA OneAtWork ==
    ASSUME LinesInv, NEW l \in Numbers, logged[l] \in AtWork
    PROVE  /\ \A k \in Numbers : k # l => logged[k] \notin AtWork
           /\ \A k \in OnDisk : k < l
<1>1. \A k \in Numbers : k # l => k < l \/ l < k
    BY LogBounds
<1>2. ASSUME NEW k \in Numbers, k # l PROVE logged[k] \notin AtWork
    BY <1>1, <1>2 DEF LinesInv, LinesInOrder, AtWork
<1>3. ASSUME NEW k \in OnDisk PROVE k < l
  <2>1. k \in Numbers /\ logged[k] \in {"written", "torn"}
    BY DEF OnDisk
  <2>2. k # l
    BY <2>1 DEF AtWork
  <2>3. ~(l < k)
    BY <2>1 DEF LinesInv, LinesInOrder, AtWork
  <2> QED
    BY <1>1, <2>1, <2>2, <2>3
<1> QED
    BY <1>2, <1>3

\* The line at work goes on, and the others stay where they are.
LEMMA WorkGoesOn ==
    ASSUME LinesInv, NEW l \in Numbers, logged[l] \in AtWork,
           NEW stage \in AtWork \cup {"written", "torn", "failed"}, LineGoes(l, stage)
    PROVE  /\ logged' \in [Numbers -> LogStages] /\ LinesInOrder'
           /\ OnDisk' = IF stage \in {"written", "torn"} THEN OnDisk \cup {l} ELSE OnDisk
<1>1. logged \in [Numbers -> LogStages] /\ logged' = [logged EXCEPT ![l] = stage]
    BY DEF LinesInv, LineGoes
<1>2. logged' \in [Numbers -> LogStages] /\ logged'[l] = stage
    BY <1>1 DEF AtWork, LogStages
<1>3. \A k \in Numbers : k # l => logged'[k] = logged[k]
    BY <1>1
<1>4. LinesInOrder'
  <2> SUFFICES ASSUME NEW j \in Numbers, NEW k \in Numbers, j < k
               PROVE  /\ IsAt(j, "not")' => IsAt(k, "not")'
                      /\ IsAt(j, "waiting")' \/ (logged')[j] \in AtWork =>
                           (logged')[k] \in {"not", "waiting"}
    BY DEF LinesInOrder, IsAt
  <2>1. /\ IsAt(j, "not") => IsAt(k, "not")
        /\ IsAt(j, "waiting") \/ logged[j] \in AtWork => logged[k] \in {"not", "waiting"}
    BY DEF LinesInv, LinesInOrder
  <2>2. j # k
    BY LogBounds
  <2>3. CASE j = l
    BY <1>2, <1>3, <2>1, <2>2, <2>3 DEF IsAt, AtWork
  <2>4. CASE k = l
    BY <1>2, <1>3, <2>1, <2>2, <2>4 DEF IsAt, AtWork
  <2>5. CASE j # l /\ k # l
    BY <1>3, <2>1, <2>5 DEF IsAt
  <2> QED
    BY <2>3, <2>4, <2>5
<1>5. OnDisk' = IF stage \in {"written", "torn"} THEN OnDisk \cup {l} ELSE OnDisk
  <2>1. l \notin OnDisk
    BY DEF OnDisk, AtWork
  <2> QED
    BY <1>2, <1>3, <2>1 DEF OnDisk
<1> QED
    BY <1>2, <1>4, <1>5

\* A part begins anew or is dropped.
LEMMA OldestGoes ==
    ASSUME LinesInv, NEW new, new = [logFile EXCEPT ![RetainedFiles] = <<>>]
    PROVE  /\ new \in [0 .. RetainedFiles -> Seq(Numbers \X BOOLEAN)]
           /\ NumbersAre(new, OnDisk) /\ AreTheLatest(new, OnDisk)
<1> DEFINE D == 0 .. RetainedFiles
           S == Numbers
           B == BOOLEAN
           w == [p \in Places(new) |-> p]
<1>1. D \subseteq Nat /\ S \subseteq Nat /\ RetainedFiles \in D
      /\ \A j \in D : j <= RetainedFiles
    BY LogBounds
<1>2. /\ logFile \in [D -> Seq(S \X B)] /\ new \in [D -> Seq(S \X B)]
      /\ \A i \in D : new[i] = IF i = RetainedFiles THEN <<>> ELSE logFile[i]
    BY <1>1 DEF LinesInv
<1>3. logFile \in [D -> Seq(S \X B)]
    BY <1>2
<1>4. new \in [D -> Seq(S \X B)]
    BY <1>2
<1>5. Ascend(logFile) /\ NumbersAre(logFile, OnDisk) /\ AreTheLatest(logFile, OnDisk)
    BY DEF LinesInv, AreTheLatest, Ascend
<1> HIDE DEF S, D, B
<1>6. ASSUME NEW p
      PROVE  /\ p \in Places(new) => /\ p \in Places(logFile)
                                     /\ NumberAt(new, p) = NumberAt(logFile, p)
                                     /\ p[1] # RetainedFiles /\ p[1] \in D
             /\ p \in Places(logFile) => p[1] \in D /\ (p[1] # RetainedFiles => p \in Places(new))
  <2>1. p \in Places(new) <=> \E i \in D : \E n \in 1 .. Len(new[i]) : p = <<i, n>>
    BY ONLY <1>4, PlaceIs
  <2>2. p \in Places(logFile) <=> \E i \in D : \E n \in 1 .. Len(logFile[i]) : p = <<i, n>>
    BY ONLY <1>3, PlaceIs
  <2>3. Len(<<>>) = 0
    OBVIOUS
  <2>4. ASSUME p \in Places(new)
        PROVE  p \in Places(logFile) /\ NumberAt(new, p) = NumberAt(logFile, p)
               /\ p[1] # RetainedFiles /\ p[1] \in D
    <3>1. PICK i \in D : \E n \in 1 .. Len(new[i]) : p = <<i, n>>
      BY <2>1, <2>4
    <3>2. PICK n \in 1 .. Len(new[i]) : p = <<i, n>>
      BY <3>1
    <3>3. i # RetainedFiles /\ new[i] = logFile[i]
      BY <1>2, <2>3
    <3>4. p \in Places(logFile)
      BY <2>2, <3>2, <3>3
    <3> QED
      BY <3>2, <3>3, <3>4 DEF NumberAt
  <2>5. ASSUME p \in Places(logFile)
        PROVE  p[1] \in D /\ (p[1] # RetainedFiles => p \in Places(new))
    BY <1>2, <2>1, <2>2, <2>5
  <2> QED
    BY <2>4, <2>5
<1>7. w \in [Places(new) -> Places(logFile)]
    BY <1>6
<1>8. ASSUME NEW p \in Places(new), NEW q \in Places(logFile), Older(p, q)
      PROVE  q \in Places(new)
  <2>1. p[1] \in D /\ p[1] # RetainedFiles /\ q[1] \in D
    BY <1>6
  <2>2. p[1] \in Nat /\ q[1] \in Nat /\ RetainedFiles \in Nat /\ p[1] < RetainedFiles
    <3>1. p[1] \in Nat /\ q[1] \in Nat /\ RetainedFiles \in Nat
      BY <1>1, <2>1
    <3>2. p[1] <= RetainedFiles
      BY <1>1, <2>1
    <3> QED
      BY <2>1, <3>1, <3>2
  <2>3. q[1] # RetainedFiles
    BY <1>8, <2>2 DEF Older
  <2> QED
    BY <1>6, <2>3
<1>9. /\ \A p \in Places(new) : NumberAt(new, p) = NumberAt(logFile, w[p])
      /\ \A p, q \in Places(new) : Older(p, q) => Older(w[p], w[q])
      /\ \A p \in Places(new), q \in Places(logFile) :
           Older(w[p], q) => \E r \in Places(new) : w[r] = q
    BY <1>6, <1>8
<1> HIDE DEF w
<1>10. MovedBy(D, S, B, logFile, new, w, OnDisk)
    BY <1>1, <1>2, <1>5, <1>7, <1>9 DEF MovedBy
<1>11. /\ Ascend(new) /\ NumbersAre(new, OnDisk)
       /\ AreTheLatest(logFile, OnDisk) => AreTheLatest(new, OnDisk)
    BY ONLY <1>10, Relocated
<1> QED
    BY <1>2, <1>5, <1>11 DEF S, D, B

\* A part moves up, where nothing is.
LEMMA PartMoves ==
    ASSUME LinesInv, NEW i \in 0 .. RetainedFiles, i < RetainedFiles, logFile[i + 1] = <<>>,
           NEW new, new = [logFile EXCEPT ![i + 1] = logFile[i], ![i] = <<>>]
    PROVE  /\ new \in [0 .. RetainedFiles -> Seq(Numbers \X BOOLEAN)] /\ new[i] = <<>>
           /\ NumbersAre(new, OnDisk) /\ AreTheLatest(new, OnDisk)
<1> DEFINE D == 0 .. RetainedFiles
           S == Numbers
           B == BOOLEAN
           was(p) == IF p[1] = i + 1 THEN <<i, p[2]>> ELSE p
           w == [p \in Places(new) |-> was(p)]
<1>1. D \subseteq Nat /\ S \subseteq Nat /\ i \in Nat /\ i + 1 \in D /\ i \in D
    BY LogBounds
<1>2. /\ logFile \in [D -> Seq(S \X B)] /\ new \in [D -> Seq(S \X B)]
      /\ \A j \in D : new[j] = IF j = i THEN <<>> ELSE IF j = i + 1 THEN logFile[i]
                               ELSE logFile[j]
    BY <1>1 DEF LinesInv
<1>3. logFile \in [D -> Seq(S \X B)]
    BY <1>2
<1>4. new \in [D -> Seq(S \X B)]
    BY <1>2
<1>5. Ascend(logFile) /\ NumbersAre(logFile, OnDisk) /\ AreTheLatest(logFile, OnDisk)
    BY DEF LinesInv, AreTheLatest, Ascend
<1> HIDE DEF S, D, B
<1>6. ASSUME NEW p
      PROVE  /\ p \in Places(new) <=> \E j \in D : \E n \in 1 .. Len(new[j]) : p = <<j, n>>
             /\ p \in Places(logFile) <=> \E j \in D : \E n \in 1 .. Len(logFile[j]) : p = <<j, n>>
  <2>1. p \in Places(new) <=> \E j \in D : \E n \in 1 .. Len(new[j]) : p = <<j, n>>
    BY ONLY <1>4, PlaceIs
  <2>2. p \in Places(logFile) <=> \E j \in D : \E n \in 1 .. Len(logFile[j]) : p = <<j, n>>
    BY ONLY <1>3, PlaceIs
  <2> QED
    BY <2>1, <2>2
<1>7. Len(<<>>) = 0
    OBVIOUS
<1>8. ASSUME NEW p \in Places(new)
      PROVE  was(p) \in Places(logFile) /\ NumberAt(new, p) = NumberAt(logFile, was(p))
             /\ p[1] \in D /\ p[1] # i
  <2>1. PICK j \in D : \E n \in 1 .. Len(new[j]) : p = <<j, n>>
    BY <1>6
  <2>2. PICK n \in 1 .. Len(new[j]) : p = <<j, n>>
    BY <2>1
  <2>3. j # i
    BY <1>2, <1>7
  <2>4. CASE j = i + 1
    <3>1. new[j] = logFile[i] /\ was(p) = <<i, n>>
      BY <1>1, <1>2, <2>2, <2>4
    <3>2. <<i, n>> \in Places(logFile)
      BY <1>1, <1>6, <3>1
    <3> QED
      BY <2>2, <2>3, <3>1, <3>2 DEF NumberAt
  <2>5. CASE j # i + 1
    <3>1. new[j] = logFile[j] /\ was(p) = p
      BY <1>2, <2>2, <2>3, <2>5
    <3>2. p \in Places(logFile)
      BY <1>6, <2>2, <3>1
    <3> QED
      BY <2>2, <2>3, <3>1, <3>2 DEF NumberAt
  <2> QED
    BY <2>4, <2>5
<1>9. ASSUME NEW q \in Places(logFile)
      PROVE  \E r \in Places(new) : was(r) = q
  <2>1. PICK j \in D : \E n \in 1 .. Len(logFile[j]) : q = <<j, n>>
    BY <1>6
  <2>2. PICK n \in 1 .. Len(logFile[j]) : q = <<j, n>>
    BY <2>1
  <2>3. j # i + 1
    BY <1>7
  <2>4. CASE j = i
    <3>1. new[i + 1] = logFile[i]
      BY <1>1, <1>2
    <3>2. <<i + 1, n>> \in Places(new)
      BY <1>1, <1>6, <2>4, <3>1
    <3>3. was(<<i + 1, n>>) = q
      BY <2>2, <2>4
    <3> QED
      BY <3>2, <3>3
  <2>5. CASE j # i
    <3>1. new[j] = logFile[j]
      BY <1>2, <2>3, <2>5
    <3>2. q \in Places(new) /\ was(q) = q
      BY <1>6, <2>2, <2>3, <3>1
    <3> QED
      BY <3>2
  <2> QED
    BY <2>4, <2>5
<1>10. ASSUME NEW p \in Places(new), NEW q \in Places(new), Older(p, q)
      PROVE  Older(was(p), was(q))
  <2>1. p[1] \in Nat /\ q[1] \in Nat /\ p[1] # i /\ q[1] # i
    BY <1>1, <1>8
  <2>2. /\ was(p)[1] = IF p[1] = i + 1 THEN i ELSE p[1]
        /\ was(p)[2] = p[2]
        /\ was(q)[1] = IF q[1] = i + 1 THEN i ELSE q[1]
        /\ was(q)[2] = q[2]
    OBVIOUS
  <2> HIDE DEF was
  <2> QED
    BY <1>1, <1>10, <2>1, <2>2 DEF Older
<1> HIDE DEF was
<1>11. w \in [Places(new) -> Places(logFile)]
    BY <1>8
<1>12. /\ \A p \in Places(new) : NumberAt(new, p) = NumberAt(logFile, w[p])
       /\ \A p, q \in Places(new) : Older(p, q) => Older(w[p], w[q])
       /\ \A p \in Places(new), q \in Places(logFile) :
            Older(w[p], q) => \E r \in Places(new) : w[r] = q
    BY <1>8, <1>9, <1>10
<1> HIDE DEF w
<1>13. MovedBy(D, S, B, logFile, new, w, OnDisk)
    BY <1>1, <1>2, <1>5, <1>11, <1>12 DEF MovedBy
<1>14. /\ Ascend(new) /\ NumbersAre(new, OnDisk)
       /\ AreTheLatest(logFile, OnDisk) => AreTheLatest(new, OnDisk)
    BY ONLY <1>13, Relocated
<1> QED
    BY <1>1, <1>2, <1>5, <1>14 DEF S, D, B

-----------------------------------------------------------------------------

LinesTyped ==
    /\ logFile \in [0 .. RetainedFiles -> Seq(Numbers \X BOOLEAN)]
    /\ logged \in [Numbers -> LogStages]
    /\ rotating \in 0 .. RetainedFiles
LinesKept == NumbersAre(logFile, OnDisk) /\ AreTheLatest(logFile, OnDisk)

LEMMA LineEnds ==
    ASSUME LinesInv, NEW l \in Numbers, logged[l] \in AtWork, NEW b \in BOOLEAN,
           NEW new, new = [logFile EXCEPT ![0] = Append(@, <<l, b>>)]
    PROVE  /\ new \in [0 .. RetainedFiles -> Seq(Numbers \X BOOLEAN)]
           /\ NumbersAre(new, OnDisk \cup {l}) /\ AreTheLatest(new, OnDisk \cup {l})
<1> DEFINE D == 0 .. RetainedFiles
           S == Numbers
           B == BOOLEAN
<1>1. D \subseteq Nat /\ S \subseteq Nat /\ 0 \in D /\ l \in S /\ b \in B
    BY LogBounds
<1>2. logFile \in [D -> Seq(S \X B)] /\ OnDisk \subseteq S
    BY DEF LinesInv, OnDisk
<1>3. Ascend(logFile) /\ NumbersAre(logFile, OnDisk) /\ AreTheLatest(logFile, OnDisk)
    BY DEF LinesInv, AreTheLatest, Ascend
<1>4. \A k \in OnDisk : k < l
    BY OneAtWork
<1> HIDE DEF D, S, B
<1>5. GoesOn(D, S, B, logFile, OnDisk, l, b, new)
    BY <1>1, <1>2, <1>3, <1>4 DEF GoesOn
<1>6. /\ new \in [D -> Seq(S \X B)]
      /\ Ascend(new) /\ NumbersAre(new, OnDisk \cup {l})
      /\ AreTheLatest(logFile, OnDisk) => AreTheLatest(new, OnDisk \cup {l})
    BY ONLY <1>5, Continued
<1> QED
    BY <1>3, <1>6 DEF D, S, B

LEMMA LinesInvInit == LogInit => LinesInv
<1> SUFFICES ASSUME LogInit PROVE LinesInv
    OBVIOUS
<1>1. LinesTyped /\ LinesInOrder /\ RotationGoesUp
    BY LogBounds DEF LogInit, LinesTyped, LinesInOrder, RotationGoesUp, IsAt, AtWork, LogStages
<1>2. Places(logFile) = {}
  <2>1. \A i \in DOMAIN logFile : DOMAIN logFile[i] = {}
    BY DEF LogInit
  <2> QED
    BY <2>1 DEF Places
<1> QED
    BY <1>1, <1>2 DEF LinesInv, LinesTyped, NumbersAre, AreTheLatest

\* The line at work goes on to another stage; what is rotated and written, if anything, is
\* shown apart.
LEMMA StageInv ==
    ASSUME LinesInv, NEW l \in Numbers, logged[l] \in AtWork,
           NEW stage \in AtWork \cup {"written", "torn", "failed"}, LineGoes(l, stage),
           logFile' \in [0 .. RetainedFiles -> Seq(Numbers \X BOOLEAN)],
           rotating' \in 0 .. RetainedFiles,
           stage = "rotating" => rotating' < RetainedFiles /\ logFile'[rotating' + 1] = <<>>,
           LinesKept'
    PROVE  LinesInv'
<1>1. logged' \in [Numbers -> LogStages] /\ LinesInOrder'
    BY WorkGoesOn
<1>2. logged \in [Numbers -> LogStages] /\ logged' = [logged EXCEPT ![l] = stage]
    BY DEF LinesInv, LineGoes
<1>3. \A k \in Numbers : k # l => logged[k] \notin AtWork
    BY OneAtWork
<1>4. RotationGoesUp'
  <2> SUFFICES ASSUME NEW k \in Numbers, IsAt(k, "rotating")'
               PROVE  rotating' < RetainedFiles /\ logFile'[rotating' + 1] = <<>>
    BY DEF RotationGoesUp
  <2>1. k = l
    BY <1>2, <1>3 DEF IsAt, AtWork
  <2>2. stage = "rotating"
    BY <1>2, <2>1 DEF IsAt
  <2> QED
    BY <2>2
<1> QED
    BY <1>1, <1>4 DEF LinesInv, LinesKept

LEMMA StillKept ==
    ASSUME LinesInv, UNCHANGED logFile, OnDisk' = OnDisk
    PROVE  LinesKept'
BY DEF LinesInv, LinesKept, NumbersAre, AreTheLatest

LEMMA LogStepLines ==
    ASSUME LinesInv, NEW l \in Numbers, Log(l) \/ BeginWrite(l)
    PROVE  LinesInv'
<1> DEFINE stage == IF IsAt(l, "not") THEN "waiting" ELSE "stat"
<1>1. /\ logged' = [logged EXCEPT ![l] = stage]
      /\ UNCHANGED <<logFile, rotating>>
      /\ logged \in [Numbers -> LogStages]
    BY DEF Log, BeginWrite, LineGoes, IsAt, LinesInv
<1>2. logged' \in [Numbers -> LogStages] /\ logged'[l] = stage
    BY <1>1 DEF LogStages
<1>3. \A k \in Numbers : k # l => logged'[k] = logged[k]
    BY <1>1
<1>4. ASSUME NEW j \in Numbers, NEW k \in Numbers, j < k
      PROVE  /\ IsAt(j, "not")' => IsAt(k, "not")'
             /\ IsAt(j, "waiting")' \/ (logged')[j] \in AtWork => (logged')[k] \in {"not", "waiting"}
  <2>1. /\ IsAt(j, "not") => IsAt(k, "not")
        /\ IsAt(j, "waiting") \/ logged[j] \in AtWork => logged[k] \in {"not", "waiting"}
    BY <1>4 DEF LinesInv, LinesInOrder
  <2>2. j # k /\ j \in 1 .. k - 1
    BY <1>4, LogBounds DEF Numbers
  <2>3. CASE j # l /\ k # l
    BY <1>3, <2>1, <2>3 DEF IsAt
  <2>4. CASE Log(l)
    <3>1. IsAt(l, "not") /\ logged'[l] = "waiting" /\ \A i \in 1 .. l - 1 : ~IsAt(i, "not")
      BY <1>2, <2>4 DEF Log
    <3> QED
      BY <1>3, <2>1, <2>2, <2>3, <3>1 DEF IsAt, AtWork
  <2>5. CASE BeginWrite(l)
    <3>1. /\ IsAt(l, "waiting") /\ logged'[l] = "stat" /\ ~Busy
          /\ \A i \in 1 .. l - 1 : ~IsAt(i, "waiting")
      BY <1>2, <2>5 DEF BeginWrite, ItsTurn, IsAt
    <3>2. logged[j] \notin AtWork
      BY <3>1 DEF Busy, AtWork
    <3> QED
      BY <1>3, <2>1, <2>2, <2>3, <3>1, <3>2 DEF IsAt, AtWork
  <2> QED
    BY <2>4, <2>5
<1>5. LinesInOrder'
    BY <1>4 DEF LinesInOrder
<1>6. OnDisk' = OnDisk
  <2>1. logged[l] \notin {"written", "torn"} /\ stage \notin {"written", "torn"}
    BY DEF Log, BeginWrite, IsAt
  <2> QED
    BY <1>2, <1>3, <2>1 DEF OnDisk
<1>7. RotationGoesUp'
  <2>1. stage # "rotating"
    OBVIOUS
  <2>2. \A k \in Numbers : IsAt(k, "rotating")' => IsAt(k, "rotating")
    BY <1>2, <1>3, <2>1 DEF IsAt
  <2> QED
    BY <1>1, <2>2 DEF LinesInv, RotationGoesUp
<1>8. LinesKept'
    BY <1>1, <1>6, StillKept
<1> QED
    BY <1>1, <1>2, <1>5, <1>7, <1>8 DEF LinesInv, LinesKept

LEMMA LineKept ==
    ASSUME LinesInv, NEW l \in Numbers, logged[l] \in AtWork, NEW b \in BOOLEAN,
           logFile' = [logFile EXCEPT ![0] = Append(@, <<l, b>>)], OnDisk' = OnDisk \cup {l}
    PROVE  LinesKept' /\ logFile' \in [0 .. RetainedFiles -> Seq(Numbers \X BOOLEAN)]
<1>1. PICK new : new = [logFile EXCEPT ![0] = Append(@, <<l, b>>)]
    OBVIOUS
<1>2. /\ new \in [0 .. RetainedFiles -> Seq(Numbers \X BOOLEAN)]
      /\ NumbersAre(new, OnDisk \cup {l}) /\ AreTheLatest(new, OnDisk \cup {l})
    BY <1>1, LineEnds
<1>3. logFile' = new
    BY <1>1
<1> QED
    BY <1>2, <1>3 DEF LinesKept, NumbersAre, AreTheLatest

LEMMA SizeCheckedLines ==
    ASSUME LinesInv, NEW l \in Numbers, SizeChecked(l)
    PROVE  LinesInv'
<1>1. IsAt(l, "stat") /\ logged[l] \in AtWork
    BY DEF SizeChecked, IsAt, AtWork
<1>2. /\ logFile \in [0 .. RetainedFiles -> Seq(Numbers \X BOOLEAN)]
      /\ rotating \in 0 .. RetainedFiles
    BY DEF LinesInv
<1>3. CASE Len(logFile[0]) + 1 <= MaxBytes
  <2>1. LineGoes(l, "appending") /\ UNCHANGED <<logFile, rotating>>
    BY <1>3 DEF SizeChecked
  <2>2. "appending" \in AtWork \cup {"written", "torn", "failed"} /\ "appending" # "rotating"
    BY DEF AtWork
  <2>3. OnDisk' = OnDisk
    BY <1>1, <2>1, <2>2, WorkGoesOn
  <2>4. LinesKept'
    BY <2>1, <2>3, StillKept
  <2> QED
    BY <1>1, <1>2, <2>1, <2>2, <2>4, StageInv
<1>4. CASE ~(Len(logFile[0]) + 1 <= MaxBytes)
  <2>1. /\ LineGoes(l, "rotating")
        /\ logFile' = [logFile EXCEPT ![RetainedFiles] = <<>>]
        /\ rotating' = RetainedFiles - 1
    BY <1>4 DEF SizeChecked
  <2>2. "rotating" \in AtWork \cup {"written", "torn", "failed"}
    BY DEF AtWork
  <2>3. OnDisk' = OnDisk
    BY <1>1, <2>1, <2>2, WorkGoesOn
  <2>4. PICK new : new = [logFile EXCEPT ![RetainedFiles] = <<>>]
    OBVIOUS
  <2>5. /\ new \in [0 .. RetainedFiles -> Seq(Numbers \X BOOLEAN)]
        /\ NumbersAre(new, OnDisk) /\ AreTheLatest(new, OnDisk)
    BY <2>4, OldestGoes
  <2>6. logFile' = new
    BY <2>1, <2>4
  <2>7. LinesKept'
    BY <2>3, <2>5, <2>6 DEF LinesKept, NumbersAre, AreTheLatest
  <2>8. /\ rotating' \in 0 .. RetainedFiles /\ rotating' < RetainedFiles
        /\ logFile'[rotating' + 1] = <<>>
    BY <1>2, <2>1, LogBounds
  <2> QED
    BY <1>1, <2>1, <2>2, <2>5, <2>6, <2>7, <2>8, StageInv
<1> QED
    BY <1>3, <1>4

LEMMA RenameLines ==
    ASSUME LinesInv, NEW l \in Numbers, RenameStep(l)
    PROVE  LinesInv'
<1>1. IsAt(l, "rotating") /\ logged[l] \in AtWork
    BY DEF RenameStep, IsAt, AtWork
<1>2. /\ logFile \in [0 .. RetainedFiles -> Seq(Numbers \X BOOLEAN)]
      /\ rotating \in 0 .. RetainedFiles
    BY DEF LinesInv
<1>3. rotating < RetainedFiles /\ logFile[rotating + 1] = <<>>
    BY <1>1 DEF LinesInv, RotationGoesUp
<1>4. PICK new : new = IF logFile[rotating] = <<>> THEN logFile
                       ELSE [logFile EXCEPT ![rotating + 1] = logFile[rotating],
                                            ![rotating] = <<>>]
    OBVIOUS
<1>5. logFile' = new
    BY <1>4 DEF RenameStep
<1>6. /\ new \in [0 .. RetainedFiles -> Seq(Numbers \X BOOLEAN)] /\ new[rotating] = <<>>
      /\ NumbersAre(new, OnDisk) /\ AreTheLatest(new, OnDisk)
  <2>1. CASE logFile[rotating] = <<>>
    BY <1>2, <1>4, <2>1 DEF LinesInv
  <2>2. CASE logFile[rotating] # <<>>
    BY <1>2, <1>3, <1>4, <2>2, PartMoves
  <2> QED
    BY <2>1, <2>2
<1>7. OnDisk' = OnDisk => LinesKept'
    BY <1>5, <1>6 DEF LinesKept, NumbersAre, AreTheLatest
<1>8. CASE rotating = 0
  <2>1. rotating' = RetainedFiles /\ LineGoes(l, "appending")
    BY <1>8 DEF RenameStep
  <2>2. "appending" \in AtWork \cup {"written", "torn", "failed"} /\ "appending" # "rotating"
    BY DEF AtWork
  <2>3. OnDisk' = OnDisk
    BY <1>1, <2>1, <2>2, WorkGoesOn
  <2>4. rotating' \in 0 .. RetainedFiles
    BY <2>1, LogBounds
  <2> QED
    BY <1>1, <1>5, <1>6, <1>7, <2>1, <2>2, <2>3, <2>4, StageInv
<1>9. CASE rotating # 0
  <2>1. rotating' = rotating - 1 /\ UNCHANGED logged
    BY <1>9 DEF RenameStep
  <2>2. LineGoes(l, "rotating") /\ "rotating" \in AtWork \cup {"written", "torn", "failed"}
    BY <1>1, <2>1 DEF LineGoes, IsAt, AtWork, LinesInv
  <2>3. OnDisk' = OnDisk
    BY <2>1 DEF OnDisk
  <2>4. rotating' \in 0 .. RetainedFiles /\ rotating' < RetainedFiles /\ rotating' + 1 = rotating
    BY <1>2, <1>3, <1>9, <2>1, LogBounds
  <2> QED
    BY <1>1, <1>5, <1>6, <1>7, <2>2, <2>3, <2>4, StageInv
<1> QED
    BY <1>8, <1>9

LEMMA AppendedLines ==
    ASSUME LinesInv, NEW l \in Numbers, Appended(l)
    PROVE  LinesInv'
<1>1. /\ IsAt(l, "appending") /\ logged[l] \in AtWork
      /\ logFile' = [logFile EXCEPT ![0] = Append(@, <<l, TRUE>>)]
      /\ LineGoes(l, "written") /\ UNCHANGED rotating
    BY DEF Appended, IsAt, AtWork, Whole
<1>2. OnDisk' = OnDisk \cup {l}
    BY <1>1, WorkGoesOn
<1>3. LinesKept' /\ logFile' \in [0 .. RetainedFiles -> Seq(Numbers \X BOOLEAN)]
    BY <1>1, <1>2, LineKept
<1>4. rotating' \in 0 .. RetainedFiles
    BY <1>1 DEF LinesInv
<1> QED
    BY <1>1, <1>3, <1>4, StageInv

LEMMA WriteFailsLines ==
    ASSUME LinesInv, NEW l \in Numbers, WriteFails(l)
    PROVE  LinesInv'
<1>1. logged[l] \in AtWork /\ rotating' = RetainedFiles
    BY DEF WriteFails, AtWork
<1>2. rotating' \in 0 .. RetainedFiles
    BY <1>1, LogBounds
<1>3. CASE LineGoes(l, "failed") /\ UNCHANGED logFile
  <2>1. OnDisk' = OnDisk
    BY <1>1, <1>3, WorkGoesOn
  <2>2. LinesKept'
    BY <1>3, <2>1, StillKept
  <2>3. logFile' \in [0 .. RetainedFiles -> Seq(Numbers \X BOOLEAN)]
    BY <1>3 DEF LinesInv
  <2> QED
    BY <1>1, <1>2, <1>3, <2>2, <2>3, StageInv
<1>4. CASE LineGoes(l, "torn") /\ logFile' = [logFile EXCEPT ![0] = Append(@, <<l, FALSE>>)]
  <2>1. OnDisk' = OnDisk \cup {l}
    BY <1>1, <1>4, WorkGoesOn
  <2>2. LinesKept' /\ logFile' \in [0 .. RetainedFiles -> Seq(Numbers \X BOOLEAN)]
    BY <1>1, <1>4, <2>1, LineKept
  <2> QED
    BY <1>1, <1>2, <1>4, <2>2, StageInv
<1> QED
    BY <1>3, <1>4 DEF WriteFails, Torn

LEMMA KilledLines ==
    ASSUME LinesInv, NEW torn \in SUBSET {l \in Numbers : IsAt(l, "appending")}, Killed(torn)
    PROVE  LinesInv'
<1>1. logged' = [l \in Numbers |->
           IF l \in torn THEN "torn"
           ELSE IF logged[l] \in {"not", "written", "torn"} THEN logged[l] ELSE "failed"]
    BY DEF Killed
<1>2. rotating' = RetainedFiles /\ rotating' \in 0 .. RetainedFiles
    BY LogBounds DEF Killed
<1>3. logged \in [Numbers -> LogStages]
    BY DEF LinesInv
<1>4. logged' \in [Numbers -> LogStages]
    BY <1>1, <1>3 DEF LogStages
<1>5. LinesInOrder'
  <2> SUFFICES ASSUME NEW j \in Numbers, NEW k \in Numbers, j < k
               PROVE  /\ IsAt(j, "not")' => IsAt(k, "not")'
                      /\ IsAt(j, "waiting")' \/ (logged')[j] \in AtWork =>
                           (logged')[k] \in {"not", "waiting"}
    BY DEF LinesInOrder, IsAt
  <2>1. IsAt(j, "not") => IsAt(k, "not")
    BY DEF LinesInv, LinesInOrder
  <2>2. \A i \in Numbers : IsAt(i, "not")' <=> IsAt(i, "not")
    BY <1>1 DEF IsAt
  <2>3. ~IsAt(j, "waiting")' /\ (logged')[j] \notin AtWork
    BY <1>1 DEF IsAt, AtWork
  <2> QED
    BY <2>1, <2>2, <2>3
<1>6. RotationGoesUp'
    BY <1>1 DEF RotationGoesUp, IsAt
<1>7. OnDisk' = OnDisk \cup torn
    BY <1>1 DEF OnDisk
<1>8. CASE torn = {}
  <2>1. UNCHANGED logFile
    BY <1>8 DEF Killed, LinesInv
  <2>2. LinesKept'
    BY <1>7, <1>8, <2>1, StillKept
  <2> QED
    BY <1>2, <1>4, <1>5, <1>6, <2>1, <2>2 DEF LinesInv, LinesKept
<1>9. CASE torn # {}
  <2>1. PICK l : l = CHOOSE k \in torn : TRUE
    OBVIOUS
  <2>2. l \in torn /\ l \in Numbers /\ logged[l] \in AtWork
    BY <1>9, <2>1 DEF IsAt, AtWork
  <2>3. torn = {l}
    BY <2>2, OneAtWork DEF IsAt, AtWork
  <2>4. logFile' = [logFile EXCEPT ![0] = Append(@, <<l, FALSE>>)]
    BY <1>9, <2>1 DEF Killed, Torn
  <2>5. LinesKept' /\ logFile' \in [0 .. RetainedFiles -> Seq(Numbers \X BOOLEAN)]
    BY <1>7, <2>2, <2>3, <2>4, LineKept
  <2> QED
    BY <1>2, <1>4, <1>5, <1>6, <2>5 DEF LinesInv, LinesKept
<1> QED
    BY <1>8, <1>9

-----------------------------------------------------------------------------

LEMMA CrashInit == LogInit => CrashesInv
<1> SUFFICES ASSUME LogInit PROVE CrashesInv
    OBVIOUS
<1>1. crashFile \in CrashFiles /\ recorded \in 0 .. MaxCrashes
    BY LogBounds DEF LogInit, CrashFiles
<1>2. Places(crashFile) = {}
  <2>1. \A i \in DOMAIN crashFile : DOMAIN crashFile[i] = {}
    BY DEF LogInit
  <2> QED
    BY <2>1 DEF Places
<1>3. \A i \in {0, 1} : Len(crashFile[i]) = 0
    BY DEF LogInit
<1>4. crashes = <<>>
    BY DEF LogInit
<1> QED
    BY <1>1, <1>2, <1>3, <1>4 DEF CrashesInv, Ascend, NumbersAre, AllReadIn

\* The file is put aside when it is full.
LEMMA CrashFileIsPutAside ==
    ASSUME CrashesInv, NEW new, new = [i \in {0, 1} |-> IF i = 1 THEN crashFile[0] ELSE <<>>]
    PROVE  new \in CrashFiles /\ Ascend(new) /\ NumbersAre(new, 1 .. recorded)
<1> DEFINE D == {0, 1}
           S == 1 .. MaxCrashes
           B == BOOLEAN
           was(p) == <<0, p[2]>>
           w == [p \in Places(new) |-> was(p)]
<1>1. D \subseteq Nat /\ S \subseteq Nat /\ 0 \in D /\ 1 \in D /\ \A j \in D : j = 0 \/ j = 1
    BY LogBounds
<1>2. /\ crashFile \in [D -> Seq(S \X B)] /\ new \in [D -> Seq(S \X B)]
      /\ new[1] = crashFile[0] /\ new[0] = <<>>
    BY DEF CrashesInv, CrashFiles
<1>3. Ascend(crashFile) /\ NumbersAre(crashFile, 1 .. recorded)
    BY DEF CrashesInv
<1> HIDE DEF D, S, B
<1>4. crashFile \in [D -> Seq(S \X B)]
    BY <1>2
<1>5. new \in [D -> Seq(S \X B)]
    BY <1>2
<1>6. ASSUME NEW p
      PROVE  p \in Places(new) <=> \E j \in D : \E n \in 1 .. Len(new[j]) : p = <<j, n>>
    BY ONLY <1>5, PlaceIs
<1>7. ASSUME NEW p
      PROVE  p \in Places(crashFile) <=> \E j \in D : \E n \in 1 .. Len(crashFile[j]) : p = <<j, n>>
    BY ONLY <1>4, PlaceIs
<1>8. ASSUME NEW p \in Places(new)
      PROVE  /\ was(p) \in Places(crashFile) /\ NumberAt(new, p) = NumberAt(crashFile, was(p))
             /\ p[1] = 1
  <2>1. PICK j \in D : \E n \in 1 .. Len(new[j]) : p = <<j, n>>
    BY <1>6
  <2>2. PICK n \in 1 .. Len(new[j]) : p = <<j, n>>
    BY <2>1
  <2>3. Len(<<>>) = 0
    OBVIOUS
  <2>4. j = 1
    BY <1>1, <1>2, <2>3
  <2>5. was(p) = <<0, n>> /\ n \in 1 .. Len(crashFile[0])
    BY <1>2, <2>2, <2>4
  <2>6. <<0, n>> \in Places(crashFile)
    BY <1>1, <1>7, <2>5
  <2> HIDE DEF was
  <2> QED
    BY <1>2, <2>2, <2>4, <2>5, <2>6 DEF NumberAt
<1>9. ASSUME NEW q \in Places(crashFile), q[1] = 0
      PROVE  \E r \in Places(new) : was(r) = q
  <2>1. PICK j \in D : \E n \in 1 .. Len(crashFile[j]) : q = <<j, n>>
    BY <1>7
  <2>2. PICK n \in 1 .. Len(crashFile[j]) : q = <<j, n>>
    BY <2>1
  <2>3. j = 0
    BY <1>9, <2>2
  <2>4. <<1, n>> \in Places(new)
    BY <1>1, <1>2, <1>6, <2>3
  <2>5. was(<<1, n>>) = q
    BY <2>2, <2>3
  <2> QED
    BY <2>4, <2>5
<1>10. ASSUME NEW p \in Places(new), NEW q \in Places(new), Older(p, q)
       PROVE  Older(was(p), was(q))
  <2>1. /\ was(p)[1] = 0 /\ was(p)[2] = p[2]
        /\ was(q)[1] = 0 /\ was(q)[2] = q[2]
    OBVIOUS
  <2>2. p[1] = 1 /\ q[1] = 1
    BY <1>8
  <2>3. p[2] < q[2]
    BY <1>10, <2>2 DEF Older
  <2> HIDE DEF was
  <2> QED
    BY <2>1, <2>3 DEF Older
<1>11. ASSUME NEW p \in Places(new), NEW q \in Places(crashFile), Older(was(p), q)
       PROVE  q[1] = 0
  <2>1. PICK j \in D : \E n \in 1 .. Len(crashFile[j]) : q = <<j, n>>
    BY <1>7
  <2>2. PICK n \in 1 .. Len(crashFile[j]) : q = <<j, n>>
    BY <2>1
  <2> QED
    BY <1>1, <1>11, <2>2 DEF Older
<1> HIDE DEF was
<1>12. w \in [Places(new) -> Places(crashFile)]
    BY <1>8
<1>13. /\ \A p \in Places(new) : NumberAt(new, p) = NumberAt(crashFile, w[p])
       /\ \A p, q \in Places(new) : Older(p, q) => Older(w[p], w[q])
       /\ \A p \in Places(new), q \in Places(crashFile) :
            Older(w[p], q) => \E r \in Places(new) : w[r] = q
    BY <1>8, <1>9, <1>10, <1>11
<1> HIDE DEF w
<1>14. MovedBy(D, S, B, crashFile, new, w, 1 .. recorded)
    BY <1>1, <1>3, <1>4, <1>12, <1>13 DEF MovedBy
<1>15. Ascend(new) /\ NumbersAre(new, 1 .. recorded)
    BY ONLY <1>14, Relocated
<1> QED
    BY <1>5, <1>15 DEF S, D, B, CrashFiles

LEMMA RotatedCrash ==
    ASSUME CrashesInv
    PROVE  /\ RotatedCrashFile \in CrashFiles /\ Ascend(RotatedCrashFile)
           /\ NumbersAre(RotatedCrashFile, 1 .. recorded)
           /\ AllReadIn(RotatedCrashFile, crashes)
<1>1. CASE Len(crashFile[0]) + 1 <= MaxBytes
  <2>1. RotatedCrashFile = crashFile
    BY <1>1 DEF RotatedCrashFile
  <2> QED
    BY <2>1 DEF CrashesInv
<1>2. CASE ~(Len(crashFile[0]) + 1 <= MaxBytes)
  <2>1. PICK new : new = [i \in {0, 1} |-> IF i = 1 THEN crashFile[0] ELSE <<>>]
    OBVIOUS
  <2>2. RotatedCrashFile = new
    BY <1>2, <2>1 DEF RotatedCrashFile
  <2>3. new \in CrashFiles /\ Ascend(new) /\ NumbersAre(new, 1 .. recorded)
    BY <2>1, CrashFileIsPutAside
  <2>4. Len(new[0]) = 0 /\ new[1] = crashFile[0]
    BY <2>1
  <2>5. AllReadIn(new, crashes)
    BY <2>4 DEF CrashesInv, AllReadIn
  <2> QED
    BY <2>2, <2>3, <2>5
<1> QED
    BY <1>1, <1>2

\* The record of the next crash, whole or in part.
LEMMA CrashWritten ==
    ASSUME CrashesInv, recorded < MaxCrashes, NEW b \in BOOLEAN,
           NEW new, new = [RotatedCrashFile EXCEPT ![0] = Append(@, <<recorded + 1, b>>)]
    PROVE  /\ new \in CrashFiles /\ Ascend(new)
           /\ NumbersAre(new, 1 .. recorded + 1)
<1> DEFINE D == {0, 1}
           S == 1 .. MaxCrashes
           B == BOOLEAN
           all == 1 .. recorded
           l == recorded + 1
           old == RotatedCrashFile
<1>1. D \subseteq Nat /\ S \subseteq Nat /\ 0 \in D /\ b \in B
    BY LogBounds
<1>2. recorded \in Nat /\ MaxCrashes \in Nat
    BY LogBounds DEF CrashesInv
<1>3. all \subseteq S /\ l \in S /\ (\A k \in all : k < l) /\ all \cup {l} = 1 .. recorded + 1
    BY <1>2
<1>4. old \in [D -> Seq(S \X B)] /\ Ascend(old) /\ NumbersAre(old, all)
    BY RotatedCrash DEF CrashFiles
<1>5. new = [old EXCEPT ![0] = Append(@, <<l, b>>)]
    OBVIOUS
<1> HIDE DEF D, S, B, all, l, old
<1>6. GoesOn(D, S, B, old, all, l, b, new)
    BY <1>1, <1>3, <1>4, <1>5 DEF GoesOn
<1>7. new \in [D -> Seq(S \X B)] /\ Ascend(new) /\ NumbersAre(new, all \cup {l})
    BY ONLY <1>6, Continued
<1> QED
    BY <1>3, <1>7 DEF D, S, B, CrashFiles

LEMMA RecordCrashInv ==
    ASSUME CrashesInv, RecordCrash
    PROVE  CrashesInv'
<1> DEFINE old == RotatedCrashFile
           l == recorded + 1
<1>1. /\ recorded < MaxCrashes /\ recorded' = l /\ crashes' = Append(crashes, l)
      /\ crashFile' = [old EXCEPT ![0] = Append(@, <<l, TRUE>>)]
    BY DEF RecordCrash, Whole
<1>2. recorded \in Nat /\ MaxCrashes \in Nat /\ recorded' \in 0 .. MaxCrashes
      /\ 1 .. recorded \subseteq 1 .. recorded' /\ l \in 1 .. recorded'
    BY <1>1, LogBounds DEF CrashesInv
<1>3. PICK new : new = [old EXCEPT ![0] = Append(@, <<l, TRUE>>)]
    OBVIOUS
<1>4. new \in CrashFiles /\ Ascend(new) /\ NumbersAre(new, 1 .. recorded + 1)
    BY <1>1, <1>3, CrashWritten
<1>5. crashFile' = new
    BY <1>1, <1>3
<1>6. crashFile' \in CrashFiles /\ Ascend(crashFile') /\ NumbersAre(crashFile', 1 .. recorded')
    BY <1>1, <1>4, <1>5
<1>7. crashes \in Seq(1 .. recorded) /\ Len(crashes) \in Nat
    BY DEF CrashesInv
<1>8. /\ crashes' \in Seq(1 .. recorded') /\ Len(crashes') = Len(crashes) + 1
      /\ crashes'[Len(crashes) + 1] = l
      /\ \A n \in 1 .. Len(crashes) : crashes'[n] = crashes[n]
  <2>1. crashes \in Seq(1 .. recorded')
    BY <1>2, <1>7
  <2> HIDE DEF l
  <2> QED
    BY <1>1, <1>2, <2>1, AppendProperties
<1>9. \A n \in 1 .. Len(crashes) : crashes[n] < l /\ crashes[n] \in Nat
  <2>1. ASSUME NEW n \in 1 .. Len(crashes) PROVE crashes[n] < l /\ crashes[n] \in Nat
    <3>1. crashes[n] \in 1 .. recorded
      BY <1>7, ElementOfSeq
    <3> QED
      BY <1>2, <3>1
  <2> QED
    BY <2>1
<1>10. \A m, n \in 1 .. Len(crashes') : m < n => crashes'[m] < crashes'[n]
  <2> SUFFICES ASSUME NEW m \in 1 .. Len(crashes'), NEW n \in 1 .. Len(crashes'), m < n
               PROVE  crashes'[m] < crashes'[n]
    OBVIOUS
  <2>1. m \in 1 .. Len(crashes)
    BY <1>7, <1>8
  <2>2. CASE n = Len(crashes) + 1
    BY <1>8, <1>9, <2>1, <2>2
  <2>3. CASE n # Len(crashes) + 1
    <3>1. n \in 1 .. Len(crashes)
      BY <1>7, <1>8, <2>3
    <3> QED
      BY <1>8, <2>1, <3>1 DEF CrashesInv
  <2> QED
    BY <2>2, <2>3
<1>11. AllReadIn(crashFile', crashes')
  <2> SUFFICES ASSUME NEW i \in {0, 1}, NEW n \in 1 .. Len(crashFile'[i]),
                      Readable(crashFile'[i], n)
               PROVE  \E m \in 1 .. Len(crashes') : crashes'[m] = crashFile'[i][n][1]
    BY DEF AllReadIn
  <2>1. /\ old[0] \in Seq((1 .. MaxCrashes) \X BOOLEAN) /\ DOMAIN old = {0, 1}
        /\ AllReadIn(old, crashes)
    BY RotatedCrash DEF CrashFiles
  <2> DEFINE e == <<l, TRUE>>
  <2>2. /\ crashFile' = [old EXCEPT ![0] = Append(@, e)]
        /\ old \in [{0, 1} -> Seq((1 .. MaxCrashes) \X BOOLEAN)]
    BY <1>1, RotatedCrash DEF CrashFiles
  <2> HIDE DEF old, l, e
  <2>3. /\ crashFile'[0] = Append(old[0], e) /\ crashFile'[1] = old[1]
    BY <2>2
  <2>4. /\ crashFile'[0] = Append(old[0], <<l, TRUE>>) /\ crashFile'[1] = old[1]
    BY <2>3 DEF e
  <2>5. ASSUME NEW k \in 1 .. Len(old[i]), k = n, crashFile'[i][n] = old[i][n], Readable(old[i], n)
        PROVE  \E m \in 1 .. Len(crashes') : crashes'[m] = crashFile'[i][n][1]
    <3>1. PICK m \in 1 .. Len(crashes) : crashes[m] = old[i][n][1]
      BY <2>1, <2>5 DEF AllReadIn
    <3>2. m \in 1 .. Len(crashes') /\ crashes'[m] = crashes[m]
      BY <1>7, <1>8
    <3> QED
      BY <2>5, <3>1, <3>2
  <2>6. CASE i = 1
    BY <2>4, <2>5, <2>6
  <2>7. CASE i = 0
    <3>1. /\ Len(crashFile'[0]) = Len(old[0]) + 1 /\ Len(old[0]) \in Nat
          /\ crashFile'[0][Len(old[0]) + 1] = <<l, TRUE>>
          /\ \A k \in 1 .. Len(old[0]) : crashFile'[0][k] = old[0][k]
      <4> DEFINE C == (1 .. MaxCrashes) \X BOOLEAN
      <4>1. l \in 1 .. MaxCrashes
        BY <1>2
      <4>2. e \in C
        BY <4>1 DEF e
      <4> HIDE DEF C
      <4>3. old[0] \in Seq(C)
        BY <2>1 DEF C
      <4>4. /\ Len(Append(old[0], e)) = Len(old[0]) + 1 /\ Len(old[0]) \in Nat
            /\ Append(old[0], e)[Len(old[0]) + 1] = e
            /\ \A k \in 1 .. Len(old[0]) : Append(old[0], e)[k] = old[0][k]
        BY <4>2, <4>3, AppendProperties
      <4> QED
        BY <2>4, <4>4 DEF e
    <3>2. CASE n = Len(old[0]) + 1
      BY <1>7, <1>8, <2>7, <3>1, <3>2
    <3>3. CASE n # Len(old[0]) + 1
      <4>1. n \in 1 .. Len(old[0])
        BY <2>7, <3>1, <3>3
      <4>2. n > 1 => n - 1 \in 1 .. Len(old[0])
        BY <4>1
      <4>3. Readable(old[0], n)
        BY <2>7, <3>1, <4>1, <4>2 DEF Readable
      <4> QED
        BY <2>5, <2>7, <3>1, <4>1, <4>3
    <3> QED
      BY <3>2, <3>3
  <2> QED
    BY <2>6, <2>7
<1> QED
    BY <1>2, <1>6, <1>8, <1>10, <1>11 DEF CrashesInv, CrashFiles, Ascend, NumbersAre, AllReadIn

LEMMA KilledCrashes ==
    ASSUME CrashesInv, NEW torn, Killed(torn)
    PROVE  CrashesInv'
<1> DEFINE l == recorded + 1
<1>1. recorded < MaxCrashes /\ recorded' = l /\ crashes' = LoadCrashRecords(crashFile')
      /\ crashFile' \in CutShort(l)
    BY DEF Killed
<1>2. recorded \in Nat /\ MaxCrashes \in Nat /\ recorded' \in 0 .. MaxCrashes
      /\ 1 .. recorded \subseteq 1 .. l
    BY <1>1, LogBounds DEF CrashesInv
<1>3. crashFile' \in CrashFiles /\ Ascend(crashFile') /\ NumbersAre(crashFile', 1 .. l)
  <2>1. ASSUME NEW new \in CrashFiles, Ascend(new), NumbersAre(new, 1 .. recorded)
        PROVE  NumbersAre(new, 1 .. l)
    BY <1>2, <2>1 DEF NumbersAre
  <2>2. CASE crashFile' = crashFile
    BY <2>1, <2>2 DEF CrashesInv
  <2>3. CASE crashFile' = RotatedCrashFile
    BY <2>1, <2>3, RotatedCrash
  <2>4. CASE crashFile' = [RotatedCrashFile EXCEPT ![0] = Append(@, <<recorded + 1, FALSE>>)]
    <3>1. PICK new : new = [RotatedCrashFile EXCEPT ![0] = Append(@, <<recorded + 1, FALSE>>)]
      OBVIOUS
    <3>2. new \in CrashFiles /\ Ascend(new) /\ NumbersAre(new, 1 .. recorded + 1)
      BY <1>1, <3>1, CrashWritten
    <3> QED
      BY <2>4, <3>1, <3>2
  <2>5. CASE crashFile' = [RotatedCrashFile EXCEPT ![0] = Append(@, <<recorded + 1, TRUE>>)]
    <3>1. PICK new : new = [RotatedCrashFile EXCEPT ![0] = Append(@, <<recorded + 1, TRUE>>)]
      OBVIOUS
    <3>2. new \in CrashFiles /\ Ascend(new) /\ NumbersAre(new, 1 .. recorded + 1)
      BY <1>1, <3>1, CrashWritten
    <3> QED
      BY <2>5, <3>1, <3>2
  <2> QED
    BY <1>1, <2>2, <2>3, <2>4, <2>5 DEF CutShort, Torn, Whole
<1>4. PICK file : file = crashFile'
    OBVIOUS
<1>5. /\ file \in CrashFiles /\ Ascend(file) /\ NumbersAre(file, 1 .. l)
      /\ crashes' = LoadCrashRecords(file)
    BY <1>1, <1>3, <1>4
<1>6. PICK r : r = LoadCrashRecords(file)
    OBVIOUS
<1> DEFINE S == 1 .. MaxCrashes
           B == BOOLEAN
<1>7. S \subseteq Nat /\ file \in [{0, 1} -> Seq(S \X B)]
    BY <1>2, <1>5 DEF CrashFiles
<1> HIDE DEF S, B
<1>8. /\ r \in Seq(S)
      /\ \A m, n \in 1 .. Len(r) : m < n => r[m] < r[n]
      /\ \A n \in 1 .. Len(r) : \E p \in Places(file) : NumberAt(file, p) = r[n]
      /\ \A i \in {0, 1} : \A n \in 1 .. Len(file[i]) :
           Readable(file[i], n) => \E m \in 1 .. Len(r) : r[m] = file[i][n][1]
  <2>1. LoadedFrom(S, B, file, r)
    BY <1>5, <1>6, <1>7 DEF LoadedFrom
  <2> QED
    BY ONLY <2>1, LoadedIs
<1>9. r \in Seq(1 .. l)
  <2>1. \A n \in 1 .. Len(r) : r[n] \in 1 .. l
    BY <1>5, <1>8 DEF NumbersAre
  <2>2. Len(r) \in Nat /\ r \in [1 .. Len(r) -> S]
    BY <1>8, LenProperties
  <2>3. r \in [1 .. Len(r) -> 1 .. l]
    BY <2>1, <2>2
  <2> QED
    BY <2>2, <2>3, SeqDef
<1>10. crashes' = r /\ crashFile' = file
    BY <1>4, <1>5, <1>6
<1> QED
    BY <1>1, <1>2, <1>5, <1>8, <1>9, <1>10
    DEF CrashesInv, CrashFiles, Ascend, NumbersAre, AllReadIn

-----------------------------------------------------------------------------

LEMMA LogInvInit == LogInit => LogInv
BY LinesInvInit, CrashInit DEF LogInv

LEMMA LogStepInv ==
    ASSUME LogInv, [LogNext]_logVars
    PROVE  LogInv'
<1> USE DEF LogInv
<1>1. ASSUME UNCHANGED <<logFile, logged, rotating>> PROVE LinesInv'
    BY <1>1 DEF LinesInv, LinesInOrder, RotationGoesUp, NumbersAre, AreTheLatest, OnDisk, IsAt
<1>2. ASSUME UNCHANGED <<crashFile, crashes, recorded>> PROVE CrashesInv'
    BY <1>2 DEF CrashesInv, CrashFiles, Ascend, NumbersAre, AllReadIn
<1>3. ASSUME NEW l \in Numbers, Log(l) PROVE LogInv'
  <2>1. UNCHANGED <<crashFile, crashes, recorded>>
    BY <1>3 DEF Log
  <2> QED
    BY <1>2, <1>3, <2>1, LogStepLines
<1>4. ASSUME NEW l \in Numbers, BeginWrite(l) PROVE LogInv'
  <2>1. UNCHANGED <<crashFile, crashes, recorded>>
    BY <1>4 DEF BeginWrite
  <2> QED
    BY <1>2, <1>4, <2>1, LogStepLines
<1>5. ASSUME NEW l \in Numbers, SizeChecked(l) PROVE LogInv'
  <2>1. UNCHANGED <<crashFile, crashes, recorded>>
    BY <1>5 DEF SizeChecked
  <2> QED
    BY <1>2, <1>5, <2>1, SizeCheckedLines
<1>6. ASSUME NEW l \in Numbers, RenameStep(l) PROVE LogInv'
  <2>1. UNCHANGED <<crashFile, crashes, recorded>>
    BY <1>6 DEF RenameStep
  <2> QED
    BY <1>2, <1>6, <2>1, RenameLines
<1>7. ASSUME NEW l \in Numbers, Appended(l) PROVE LogInv'
  <2>1. UNCHANGED <<crashFile, crashes, recorded>>
    BY <1>7 DEF Appended
  <2> QED
    BY <1>2, <1>7, <2>1, AppendedLines
<1>8. ASSUME NEW l \in Numbers, WriteFails(l) PROVE LogInv'
  <2>1. UNCHANGED <<crashFile, crashes, recorded>>
    BY <1>8 DEF WriteFails
  <2> QED
    BY <1>2, <1>8, <2>1, WriteFailsLines
<1>9. CASE RecordCrash
  <2>1. UNCHANGED <<logFile, logged, rotating>>
    BY <1>9 DEF RecordCrash
  <2> QED
    BY <1>1, <1>9, <2>1, RecordCrashInv
<1>10. ASSUME NEW torn \in SUBSET {l \in Numbers : IsAt(l, "appending")}, Killed(torn)
       PROVE  LogInv'
    BY <1>10, KilledLines, KilledCrashes
<1>11. CASE UNCHANGED logVars
    BY <1>1, <1>2, <1>11 DEF logVars
<1> QED
    BY <1>3, <1>4, <1>5, <1>6, <1>7, <1>8, <1>9, <1>10, <1>11 DEF LogNext

LEMMA LogInvLatest == LogInv => LatestLinesAreKept
<1> SUFFICES ASSUME LogInv PROVE LatestLinesAreKept
    OBVIOUS
<1> USE DEF LogInv
<1>1. AreTheLatest(logFile, {l \in Numbers : logged[l] \in {"written", "torn"}})
    BY DEF LinesInv, OnDisk
<1>2. recorded \in Nat /\ MaxCrashes \in Nat
    BY LogBounds DEF CrashesInv
<1>3. DOMAIN crashes = 1 .. Len(crashes)
    BY LenProperties DEF CrashesInv
<1>4. \A m, n \in DOMAIN crashes : m < n => crashes[m] < crashes[n]
    BY <1>3 DEF CrashesInv
<1>5. \A n \in DOMAIN LoadCrashRecords(crashFile) :
        \E m \in DOMAIN crashes : crashes[m] = LoadCrashRecords(crashFile)[n]
  <2> DEFINE S == 1 .. MaxCrashes
             B == BOOLEAN
  <2>1. PICK r : r = LoadCrashRecords(crashFile)
    OBVIOUS
  <2>2. S \subseteq Nat /\ crashFile \in [{0, 1} -> Seq(S \X B)] /\ Ascend(crashFile)
    BY <1>2 DEF CrashesInv, CrashFiles
  <2> HIDE DEF S, B
  <2>3. LoadedFrom(S, B, crashFile, r)
    BY <2>1, <2>2 DEF LoadedFrom
  <2>4. r \in Seq(S) /\ DOMAIN r = 1 .. Len(r)
    <3>1. r \in Seq(S)
      BY ONLY <2>3, LoadedIs
    <3> QED
      BY <3>1, LenProperties
  <2>5. \A n \in 1 .. Len(r) : \E i \in {0, 1} : \E k \in 1 .. Len(crashFile[i]) :
          Readable(crashFile[i], k) /\ crashFile[i][k][1] = r[n]
    BY ONLY <2>3, LoadedIs
  <2>6. ASSUME NEW n \in 1 .. Len(r)
        PROVE  \E m \in 1 .. Len(crashes) : crashes[m] = r[n]
    <3>1. PICK i \in {0, 1} : \E k \in 1 .. Len(crashFile[i]) :
            Readable(crashFile[i], k) /\ crashFile[i][k][1] = r[n]
      BY <2>5
    <3>2. PICK k \in 1 .. Len(crashFile[i]) :
            Readable(crashFile[i], k) /\ crashFile[i][k][1] = r[n]
      BY <3>1
    <3>3. AllReadIn(crashFile, crashes)
      BY DEF CrashesInv
    <3> QED
      BY <3>2, <3>3 DEF AllReadIn
  <2> QED
    BY <1>3, <2>1, <2>4, <2>6
<1> QED
    BY <1>1, <1>4, <1>5 DEF LatestLinesAreKept

\* For any numbers of lines, parts and crashes: whatever fails, and wherever the process is
\* killed in a rotation, the log holds the latest of the lines that reached the disk in
\* their order, and the crashes shown are those that can be read, in theirs.
THEOREM LatestLinesStay == LogSpec => []LatestLinesAreKept
<1>1. LogInit => LogInv
    BY LogInvInit
<1>2. LogInv /\ [LogNext]_logVars => LogInv'
    BY LogStepInv
<1>3. LogInv => LatestLinesAreKept
    BY LogInvLatest
<1> QED
    BY <1>1, <1>2, <1>3, PTL DEF LogSpec

=============================================================================
