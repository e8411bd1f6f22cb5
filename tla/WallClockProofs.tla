--------------------------- MODULE WallClockProofs ---------------------------
(***************************************************************************)
(* Theorems about WallClock, for every zone with one change of offset,     *)
(* every rule and every period.  The loop of wallTimeToInstant jumps       *)
(* between at most two instants, the wall time less one of the offsets, so *)
(* four rounds are a case analysis over integers.                          *)
(***************************************************************************)
EXTENDS WallClock, SequenceTheorems, TLAPS

\* A round forgets where it started but for the side of the change.
LEMMA CorrectIs ==
    ASSUME NEW z \in Zones, NEW w \in Int, NEW i \in Int
    PROVE  /\ Correct(z, w, i) \in {w - z.before, w - z.after}
           /\ Correct(z, w, i) \in Int
           /\ i < z.change => Correct(z, w, i) = w - z.before
           /\ i >= z.change => Correct(z, w, i) = w - z.after
BY ZonesAssumption DEF Correct, LocalDateTime, OffsetAt

\* The four rounds, as a chain of instants.
Rounds(z, w, i1, i2, i3) ==
    /\ i1 = Correct(z, w, w) /\ i2 = Correct(z, w, i1) /\ i3 = Correct(z, w, i2)
    /\ WallTimeToInstant(z, w) = Correct(z, w, i3)

LEMMA FourRounds ==
    ASSUME NEW z \in Zones, NEW w \in Int
    PROVE  \E i1, i2, i3 \in Int : Rounds(z, w, i1, i2, i3)
BY CorrectIs DEF Rounds, WallTimeToInstant

LEMMA ConversionIsInt ==
    ASSUME NEW z \in Zones, NEW w \in Int
    PROVE  WallTimeToInstant(z, w) \in Int
BY CorrectIs DEF WallTimeToInstant

\* A wall time that exists is hit exactly.
LEMMA ConversionIsExact ==
    ASSUME NEW z \in Zones, NEW w \in Int, Exists(z, w)
    PROVE  LocalDateTime(z, WallTimeToInstant(z, w)) = w
<1> DEFINE a == w - z.before
           b == w - z.after
<1>0. z.before \in Int /\ z.after \in Int /\ z.change \in Int
  BY ZonesAssumption
<1>1. PICK i1 \in Int, i2 \in Int, i3 \in Int : Rounds(z, w, i1, i2, i3)
  BY FourRounds
<1>2. CASE a < z.change
  <2>1. Correct(z, w, a) = a /\ Correct(z, w, b) \in {a, b}
    BY <1>0, <1>2, CorrectIs
  <2>2. CASE b < z.change
    <3>1. Correct(z, w, b) = a
      BY <1>0, <2>2, CorrectIs
    <3>2. i1 \in {a, b} /\ i2 = a /\ i3 = a /\ WallTimeToInstant(z, w) = a
      BY <1>1, <2>1, <3>1, CorrectIs DEF Rounds
    <3> QED
      BY <1>0, <1>2, <3>2 DEF LocalDateTime, OffsetAt
  <2>3. CASE b >= z.change
    <3>1. Correct(z, w, b) = b
      BY <1>0, <2>3, CorrectIs
    <3>2. WallTimeToInstant(z, w) \in {a, b}
      BY <1>1, CorrectIs DEF Rounds
    <3> QED
      BY <1>0, <1>2, <2>3, <3>2 DEF LocalDateTime, OffsetAt
  <2> QED
    BY <1>0, <2>2, <2>3
<1>3. CASE a >= z.change
  <2>1. b >= z.change
    BY <1>0, <1>3 DEF Exists, LocalDateTime, OffsetAt
  <2>2. Correct(z, w, a) = b /\ Correct(z, w, b) = b
    BY <1>0, <1>3, <2>1, CorrectIs
  <2>3. i1 \in {a, b} /\ i2 = b /\ i3 = b /\ WallTimeToInstant(z, w) = b
    BY <1>1, <2>2, CorrectIs DEF Rounds
  <2> QED
    BY <1>0, <2>1, <2>3 DEF LocalDateTime, OffsetAt
<1> QED
  BY <1>0, <1>2, <1>3

\* With offsets that are not negative the instant of a later wall time is later.
LEMMA EastIsLater ==
    ASSUME NEW z \in Zones, z.before >= 0, z.after >= 0, NEW i \in Int, NEW w \in Int,
           w > LocalDateTime(z, i)
    PROVE  WallTimeToInstant(z, w) > i
<1> DEFINE a == w - z.before
           b == w - z.after
<1>0. z.before \in Int /\ z.after \in Int /\ z.change \in Int
  BY ZonesAssumption
<1>1. PICK i1 \in Int, i2 \in Int, i3 \in Int : Rounds(z, w, i1, i2, i3)
  BY FourRounds
<1>2. CASE i >= z.change
  <2>1. b > i /\ w >= z.change /\ b >= z.change
    BY <1>0, <1>2 DEF LocalDateTime, OffsetAt
  <2>2. Correct(z, w, w) = b /\ Correct(z, w, b) = b
    BY <1>0, <2>1, CorrectIs
  <2>3. WallTimeToInstant(z, w) = b
    BY <2>2 DEF WallTimeToInstant
  <2> QED
    BY <2>1, <2>3
<1>3. CASE i < z.change
  <2>1. a > i
    BY <1>0, <1>3 DEF LocalDateTime, OffsetAt
  <2>2. CASE b > i
    <3>1. WallTimeToInstant(z, w) \in {a, b}
      BY <1>1, CorrectIs DEF Rounds
    <3> QED
      BY <2>1, <2>2, <3>1
  <2>3. CASE b <= i
    <3>1. b < z.change
      BY <1>0, <1>3, <2>3
    <3>2. Correct(z, w, b) = a
      BY <1>0, <3>1, CorrectIs
    <3>3. CASE a < z.change
      <4>1. Correct(z, w, a) = a
        BY <1>0, <3>3, CorrectIs
      <4>2. i1 \in {a, b} /\ i2 = a /\ i3 = a /\ WallTimeToInstant(z, w) = a
        BY <1>1, <3>2, <4>1, CorrectIs DEF Rounds
      <4> QED
        BY <2>1, <4>2
    <3>4. CASE a >= z.change
      <4>1. w >= z.change
        BY <1>0, <3>4
      <4>2. Correct(z, w, w) = b /\ Correct(z, w, a) = b
        BY <1>0, <3>4, <4>1, CorrectIs
      <4>3. WallTimeToInstant(z, w) = a
        BY <3>2, <4>2 DEF WallTimeToInstant
      <4> QED
        BY <2>1, <4>3
    <3> QED
      BY <1>0, <3>3, <3>4
  <2> QED
    BY <1>0, <2>2, <2>3
<1> QED
  BY <1>0, <1>2, <1>3

LEMMA NextOccurrenceFacts ==
    ASSUME NEW z \in Zones, NEW r \in Rules, NEW i \in Instants
    PROVE  \/ NextOccurrence(z, r, i) = Never
           \/ /\ NextOccurrence(z, r, i) \in Int
              /\ z.before >= 0 /\ z.after >= 0 => NextOccurrence(z, r, i) > i
<1>0. i \in Int
  BY PeriodAssumption DEF Instants
<1>1. LocalDateTime(z, i) \in WallTimes
  BY WallTimesAssumption DEF LocalDateTime, OffsetAt
<1>2. NextWall[r][LocalDateTime(z, i)] # Never =>
        /\ NextWall[r][LocalDateTime(z, i)] \in Int
        /\ NextWall[r][LocalDateTime(z, i)] > LocalDateTime(z, i)
  BY <1>1, NextWallAssumption
<1>3. CASE NextWall[r][LocalDateTime(z, i)] = Never
  BY <1>3 DEF NextOccurrence
<1>4. CASE NextWall[r][LocalDateTime(z, i)] # Never
  <2> DEFINE w == NextWall[r][LocalDateTime(z, i)]
  <2>1. w \in Int /\ w > LocalDateTime(z, i)
    BY <1>2, <1>4
  <2>2. NextOccurrence(z, r, i) = WallTimeToInstant(z, w)
    BY <1>4 DEF NextOccurrence
  <2> HIDE DEF w
  <2> QED
    BY <1>0, <2>1, <2>2, ConversionIsInt, EastIsLater
<1> QED
  BY <1>3, <1>4

(***************************************************************************)
(* The invariant: the next run lies ahead of every run queued so far, and  *)
(* those lie behind the clock.                                             *)
(***************************************************************************)

East == zone.before >= 0 /\ zone.after >= 0

IInv ==
    /\ TypeOK
    /\ EastQueuesOnce
    /\ \A i \in 1 .. Len(queued) : queued[i] <= now
    /\ East /\ nextRunAt # Never => \A i \in 1 .. Len(queued) : queued[i] < nextRunAt

LEMMA InitIInv == Init => IInv
<1> SUFFICES ASSUME Init PROVE IInv
  OBVIOUS
<1>1. nextRunAt = Never \/ nextRunAt \in Int
  BY NextOccurrenceFacts DEF Init
<1>2. queued \in Seq(Int) /\ Len(queued) = 0 /\ Len(queued) <= MaxQueued
  BY PeriodAssumption DEF Init
<1> QED
  BY <1>1, <1>2 DEF Init, IInv, TypeOK, EastQueuesOnce

LEMMA NextIInv == IInv /\ [Next]_vars => IInv'
<1> SUFFICES ASSUME IInv, [Next]_vars PROVE IInv'
  OBVIOUS
<1>0. /\ zone \in Zones /\ rule \in Rules /\ now \in Instants /\ now \in Int
      /\ queued \in Seq(Int) /\ Len(queued) \in Nat
      /\ \A i \in 1 .. Len(queued) : queued[i] \in Int
  BY PeriodAssumption, ElementOfSeq DEF IInv, TypeOK, Instants
<1>1. CASE Save
  <2>1. PICK r \in Rules : rule' = r /\ nextRunAt' = NextOccurrence(zone, r, now)
    BY <1>1 DEF Save
  <2>2. UNCHANGED <<zone, now, queued>>
    BY <1>1 DEF Save
  <2>3. nextRunAt' = Never \/ (nextRunAt' \in Int /\ (East => nextRunAt' > now))
    BY <1>0, <2>1, NextOccurrenceFacts DEF East
  <2> QED
    BY <1>0, <2>1, <2>2, <2>3 DEF IInv, TypeOK, EastQueuesOnce, East
<1>2. CASE Tick
  <2> DEFINE n == Len(queued)
  <2>1. nextRunAt \in Int /\ nextRunAt <= now /\ UNCHANGED <<zone, rule, now>>
    BY <1>2 DEF Tick, IInv, TypeOK
  <2>2. /\ queued' \in Seq(Int) /\ Len(queued') = n + 1 /\ queued'[n + 1] = nextRunAt
        /\ \A i \in 1 .. n : queued'[i] = queued[i]
    BY <1>0, <1>2, <2>1, AppendProperties DEF Tick
  <2>3. nextRunAt' = Never \/ (nextRunAt' \in Int /\ (East => nextRunAt' > now))
    BY <1>0, <1>2, NextOccurrenceFacts DEF East, Tick
  <2>4. TypeOK'
    BY <1>0, <1>2, <2>1, <2>2, <2>3, PeriodAssumption DEF Tick, TypeOK, IInv
  <2>5. EastQueuesOnce'
    <3>1. zone' = zone /\ nextRunAt # Never
      BY <2>1, NeverAssumption
    <3>2. ASSUME East, NEW i \in 1 .. n + 1, NEW j \in 1 .. n + 1, i < j
          PROVE  queued'[i] < queued'[j]
      <4>1. i \in 1 .. n /\ queued'[i] = queued[i]
        BY <1>0, <2>2, <3>2
      <4>2. CASE j = n + 1
        BY <2>2, <3>1, <3>2, <4>1, <4>2 DEF IInv
      <4>3. CASE j \in 1 .. n
        BY <2>2, <3>2, <4>1, <4>3 DEF IInv, EastQueuesOnce, East
      <4> QED
        BY <1>0, <4>2, <4>3
    <3> QED
      BY <2>2, <3>1, <3>2 DEF EastQueuesOnce, East
  <2>6. \A i \in 1 .. Len(queued') : queued'[i] <= now /\ queued'[i] \in Int
    BY <1>0, <2>1, <2>2 DEF IInv
  <2>7. East' = East /\ now' = now
    BY <2>1 DEF East
  <2>8. East' /\ nextRunAt' # Never => \A i \in 1 .. Len(queued') : queued'[i] < nextRunAt'
    BY <1>0, <2>3, <2>6, <2>7
  <2> QED
    BY <2>4, <2>5, <2>6, <2>7, <2>8 DEF IInv
<1>3. CASE Advance
  <2>1. now' \in Instants /\ now' = now + 1 /\ UNCHANGED <<zone, rule, nextRunAt, queued>>
    BY <1>0, <1>3, PeriodAssumption DEF Advance, Instants
  <2> QED
    BY <1>0, <2>1 DEF IInv, TypeOK, EastQueuesOnce, East
<1>4. CASE UNCHANGED vars
  BY <1>4 DEF vars, IInv, TypeOK, EastQueuesOnce, East
<1> QED
  BY <1>1, <1>2, <1>3, <1>4 DEF Next

THEOREM WallClockInvariant == Spec => []IInv
<1>1. Init => IInv
  BY InitIInv
<1>2. IInv /\ [Next]_vars => IInv'
  BY NextIInv
<1> QED
  BY <1>1, <1>2, PTL DEF Spec

\* Every value has its type: the next run is an instant or null.
THEOREM TypeCorrect == Spec => []TypeOK
<1>1. IInv => TypeOK
  BY DEF IInv
<1> QED
  BY <1>1, WallClockInvariant, PTL

\* A wall time that exists is hit exactly, for every zone and wall time.
THEOREM WallTimeHit == Spec => []ExistingWallTimeIsHit
<1>1. IInv => ExistingWallTimeIsHit
  BY ConversionIsExact, WallTimesAssumption DEF IInv, TypeOK, ExistingWallTimeIsHit
<1> QED
  BY <1>1, WallClockInvariant, PTL

\* With offsets that are not negative no occurrence is queued twice, whatever the
\* rule, the change of offset, the lateness of the ticks and the saves.
THEOREM EastOnce == Spec => []EastQueuesOnce
<1>1. IInv => EastQueuesOnce
  BY DEF IInv
<1> QED
  BY <1>1, WallClockInvariant, PTL
=============================================================================
