---------------------------- MODULE HandoffProofs ----------------------------
(***************************************************************************)
(* Theorems about Handoff, for any number of worktrees, edits, handoffs    *)
(* and recoveries, as long as no retry is pressed while one runs.          *)
(***************************************************************************)
EXTENDS Handoff, SequenceTheorems, TLAPS

-----------------------------------------------------------------------------
(* The control of a handoff.                                               *)

\* Steps of a handoff after its record is inserted, up to the switch of the conversation.
Moving == {"push", "verify", "secure", "mark", "drop", "apply", "record"}

\* Steps of a recovery up to its decision.
Looking == {"find", "secureAgain", "dropAgain", "markAgain", "survey"}

RollingBack == {"discard", "compare", "reset", "restore", "confirm"}

CleaningUp == {"cleanDrop", "cleanRef", "cleanRecord"}

\* Steps at which the recovery ref holds the snapshot.
Secured == {"mark", "drop", "apply", "record", "dropAgain", "markAgain", "survey",
            "cleanDrop", "cleanRef"} \cup RollingBack

\* One handoff or one recovery at a time, and none when the application is closed.
Alone ==
    /\ \A p, q \in Processes : pc[p] # "idle" /\ pc[q] # "idle" => p = q
    /\ service = "down" => ~Running

Stashed == {stashes[i] : i \in 1 .. Len(stashes)}

OneEntryEach ==
    \A i, j \in 1 .. Len(stashes) : stashes[i].owner = stashes[j].owner => i = j

\* The entries that may hold the work of the handoff that is recorded.
Snapshots ==
    {e \in Entry : \/ e = operation.stash
                   \/ e = refs[operation.id]
                   \/ e \in Stashed /\ e.owner # 0
                   \/ \E p \in Processes : pc[p] # "idle" /\ e = Op(p).stash}

\* Entries are those of the handoff that is recorded, but for the user's.
NothingElseKept ==
    \A e \in Stashed : IF e.owner = 0 THEN e.edits = UserStash
                       ELSE operation # None /\ operation.id = e.owner

RecordIsSound ==
    operation # None =>
        /\ operation.from # operation.to
        /\ context \in {operation.from, operation.to}
        /\ context = operation.to => operation.stash # None
        /\ \A e, f \in Snapshots : e = f

\* What a process holds is the record, but for the snapshot it is about to write there.
HoldsRecord(p) ==
    /\ From(p) # To(p)
    /\ pc[p] = "snapshot" =>
         p = "move" /\ operation = None /\ Op(p).stash = None /\ Op(p).targetTree = None
    /\ pc[p] # "snapshot" =>
         operation # None /\ Op(p) = [operation EXCEPT !.stash = Op(p).stash]
    /\ pc[p] \in Moving => operation.targetTree = None
    /\ pc[p] \in {"push", "verify", "secure", "mark"} => operation.stash = None
    /\ pc[p] \in {"push", "verify"} => Op(p).stash = None
    /\ pc[p] \notin {"snapshot", "push", "verify", "find"} => Op(p).stash # None
    /\ pc[p] \in {"drop", "apply", "record", "find", "survey"} \cup RollingBack \cup CleaningUp =>
         Op(p).stash = operation.stash

\* Where the conversation is while a process runs.
KnowsContext(p) ==
    /\ pc[p] \in Looking => held[p].context = context
    /\ pc[p] \in {"snapshot", "survey"} \cup Moving \cup RollingBack => context = From(p)

\* Where the snapshot is.
KnowsSnapshot(p) ==
    /\ pc[p] \in {"snapshot", "push", "verify", "secure"} => refs[Op(p).id] = None
    /\ pc[p] = "push" => \A e \in Stashed : e.owner = 0
    /\ pc[p] = "verify" => \A e \in Stashed : e.owner # 0 => e = Head(stashes)
    /\ pc[p] \in Secured => refs[Op(p).id] = Op(p).stash
    /\ pc[p] \in {"cleanRef", "cleanRecord"} => Op(p).stash \notin Stashed
    /\ pc[p] = "cleanRecord" => refs[Op(p).id] = None
    /\ pc[p] = "secure" => Op(p).stash \in Stashed
    /\ pc[p] = "secureAgain" /\ Op(p).stash \notin {operation.stash, refs[Op(p).id]} =>
         Op(p).stash \in Stashed /\ Op(p).stash.owner # 0

Knows(p) == HoldsRecord(p) /\ KnowsContext(p) /\ KnowsSnapshot(p)

Control ==
    /\ TypeOK /\ Alone /\ OneEntryEach /\ NothingElseKept /\ RecordIsSound
    /\ \A p \in Processes : pc[p] # "idle" => Knows(p)

-----------------------------------------------------------------------------
(* The files.                                                              *)

\* Every edit in a file, an entry or a record was made by the user.
Used == quiet \cup exposed \cup UserStash

KnownEdits ==
    /\ quiet \cap (exposed \cup UserStash) = {}
    /\ \A x \in Locations : Tree(x) \subseteq Used /\ committed[x] \cap changes[x] = {}
    /\ \A e \in Stashed : e.edits \subseteq Used
    /\ operation # None =>
         /\ \A e \in Snapshots : e.edits \subseteq Used
         /\ operation.targetTree # None => operation.targetTree \subseteq Used

\* A snapshot holds what the source had, and the other worktrees have none of it.
SnapshotHoldsSource ==
    operation # None =>
        /\ operation.sourceHead \subseteq committed[operation.from]
        /\ \A e \in Snapshots :
             /\ operation.sourceTree \subseteq
                  committed[operation.from] \cup (IF e.owner = 0 THEN {} ELSE e.edits)
             /\ e.edits \cap quiet \subseteq operation.sourceTree \ operation.sourceHead
             /\ \A x \in Locations \ {operation.from, operation.to} : changes[x] \cap e.edits = {}
        /\ Snapshots = {} => operation.sourceTree \subseteq Tree(operation.from)

TargetHoldsWork ==
    operation # None =>
        /\ operation.targetHead \subseteq committed[operation.to]
        /\ changes[operation.to] \cap committed[operation.from] \cap quiet = {}
        /\ operation.targetTree # None =>
             /\ operation.stash # None
             /\ operation.targetTree \cap quiet \subseteq operation.targetHead \cup operation.stash.edits
        /\ context = operation.to =>
             /\ operation.stash.edits \subseteq Tree(operation.to)
             /\ operation.stash.edits \cap changes[operation.from] = {}

\* The edits of the user's entry are nowhere else until the entry is taken for a snapshot.
UserEntryApart ==
    \A e \in Stashed :
        e.owner = 0 /\ (operation # None => e # operation.stash) =>
            /\ \A x \in Locations : changes[x] \cap UserStash = {}
            /\ operation # None => \A f \in Snapshots \ {e} : f.edits \cap UserStash = {}

\* No edit is uncommitted in two worktrees, also while a snapshot is on its way.
NoCopies == \A x, y \in Locations : x # y => changes[x] \cap changes[y] = {}

\* What the worktrees hold at each step.
KnowsTrees(p) ==
    /\ pc[p] = "snapshot" => changes[To(p)] \cap quiet = {}
    /\ pc[p] = "push" =>
         /\ changes[From(p)] \cap quiet \subseteq operation.sourceTree
         /\ operation.sourceTree \subseteq Tree(From(p))
    /\ pc[p] = "verify" /\ (\A e \in Stashed : e.owner = 0) =>
         operation.sourceTree \subseteq committed[From(p)]
    /\ pc[p] = "verify" => \A e \in Stashed : Tree(From(p)) \cap e.edits \cap quiet = {}
    /\ pc[p] \in {"secure", "mark", "drop", "apply"} =>
         committed[From(p)] \cap Op(p).stash.edits \cap quiet = {}
    /\ pc[p] \in Moving \ {"record"} => Tree(To(p)) \cap quiet \subseteq operation.targetHead
    /\ pc[p] \in {"record", "discard"} =>
         Tree(To(p)) \cap quiet \subseteq operation.targetHead \cup Op(p).stash.edits
    /\ pc[p] \in {"secure", "mark", "drop", "apply", "record"} =>
         changes[From(p)] \cap Op(p).stash.edits = {}
    /\ pc[p] = "record" => Op(p).stash.edits \subseteq Tree(To(p))
    /\ pc[p] = "reset" => Tree(To(p)) \cap quiet \subseteq committed[To(p)] \cup Op(p).stash.edits
    /\ pc[p] \in {"restore", "confirm"} => changes[To(p)] \cap Op(p).stash.edits = {}
    /\ pc[p] \in CleaningUp /\ context = From(p) =>
         /\ operation.sourceTree \subseteq Tree(From(p))
         /\ changes[To(p)] \cap Op(p).stash.edits = {}

\* What holds of the files whatever step is next.
FilesKept == KnownEdits /\ SnapshotHoldsSource /\ TargetHoldsWork /\ UserEntryApart /\ NoCopies

Files ==
    /\ FilesKept
    /\ \A p \in Processes : pc[p] # "idle" => KnowsTrees(p)

\* A recovery ref is that of the handoff that is recorded, or one that a recovery did not
\* read when it deleted the record.  No handoff uses the number of another one.
RefsAccountedFor ==
    /\ \A i \in Ids : refs[i] # None =>
         i <= handoffs /\ (i \in overlooked \/ (operation # None /\ operation.id = i))
    /\ \A i \in overlooked : refs[i] # None /\ refs[i].edits \subseteq Used
    /\ operation # None => operation.id <= handoffs /\ operation.id \notin overlooked
    /\ \A p \in Processes :
         pc[p] = "snapshot" => Op(p).id <= handoffs /\ Op(p).id \notin overlooked

IInv == Control /\ RefsAccountedFor /\ Files /\ NothingLost

\* As long as nothing is committed while a process runs, there are changes to stash when
\* git stash push is run, and the entry it makes is the one that is taken.
UserStashApart ==
    /\ UserStash # {} => \E e \in Stashed : e.owner = 0
    /\ operation # None => \A e \in Snapshots : e.owner # 0
    /\ \A p \in Processes :
         /\ pc[p] \in {"snapshot", "push"} => changes[From(p)] # {}
         /\ pc[p] = "verify" => \E e \in Stashed : e.owner # 0

-----------------------------------------------------------------------------
(* Entries of the stash.                                                   *)

LEMMA OneIndex ==
    ASSUME NEW S, NEW s \in Seq(S), NEW k \in 1 .. Len(s), NEW e, s[k] = e,
           \A i \in 1 .. Len(s) : s[i] = e => i = k
    PROVE  /\ RemoveFirst(s, e) \in Seq(S)
           /\ Len(RemoveFirst(s, e)) = Len(s) - 1
           /\ \A i \in 1 .. Len(s) - 1 : RemoveFirst(s, e)[i] = IF i < k THEN s[i] ELSE s[i + 1]
<1> DEFINE before == SubSeq(s, 1, k - 1)
           after == SubSeq(s, k + 1, Len(s))
<1>1. RemoveFirst(s, e) = RemoveAt(s, k)
  <2>1. {i \in 1 .. Len(s) : s[i] = e} = {k}
    OBVIOUS
  <2>2. Min({k}) = k
    <3>1. k \in Int /\ k <= k
      BY LenProperties
    <3>2. \A x \in {k} : x = k
      OBVIOUS
    <3> QED
      BY <3>1, <3>2 DEF Min
  <2> QED
    BY <2>1, <2>2 DEF RemoveFirst, SelectInSeq
<1>2. k \in Int /\ Len(s) \in Nat /\ 1 <= k /\ k <= Len(s)
  BY LenProperties
<1>3. /\ before \in Seq(S) /\ Len(before) = k - 1
      /\ \A i \in 1 .. k - 1 : before[i] = s[i]
  BY <1>2, SubSeqProperties
<1>4. /\ after \in Seq(S) /\ Len(after) = Len(s) - k
      /\ \A i \in 1 .. Len(s) - k : after[i] = s[k + i]
  BY <1>2, SubSeqProperties
<1>5. RemoveFirst(s, e) = before \o after
  BY <1>1 DEF RemoveAt
<1> HIDE DEF before, after
<1>6. /\ before \o after \in Seq(S) /\ Len(before \o after) = Len(before) + Len(after)
      /\ \A i \in 1 .. Len(before) + Len(after) :
           (before \o after)[i] = IF i <= Len(before) THEN before[i] ELSE after[i - Len(before)]
  BY <1>3, <1>4, ConcatProperties
<1>7. Len(before) + Len(after) = Len(s) - 1
  BY <1>2, <1>3, <1>4
<1>8. ASSUME NEW i \in 1 .. Len(s) - 1
      PROVE  (before \o after)[i] = IF i < k THEN s[i] ELSE s[i + 1]
  <2>1. CASE i < k
    <3>1. i <= Len(before) /\ i \in 1 .. k - 1
      BY <1>2, <1>3, <2>1
    <3> QED
      BY <3>1, <1>3, <1>6, <1>7, <2>1
  <2>2. CASE ~(i < k)
    <3>1. ~(i <= Len(before)) /\ i - Len(before) \in 1 .. Len(s) - k
      BY <1>2, <1>3, <2>2
    <3>2. after[i - Len(before)] = s[k + (i - Len(before))] /\ k + (i - Len(before)) = i + 1
      BY <3>1, <1>2, <1>3, <1>4
    <3> QED
      BY <3>1, <3>2, <1>6, <1>7, <2>2
  <2> QED
    BY <2>1, <2>2
<1> QED
  BY <1>5, <1>6, <1>7, <1>8

LEMMA StashTypes ==
    ASSUME stashes \in Seq(Entry)
    PROVE  /\ Len(stashes) \in Nat /\ DOMAIN stashes = 1 .. Len(stashes)
           /\ Stashed \subseteq Entry
           /\ stashes # <<>> => Head(stashes) \in Stashed /\ Head(stashes) = stashes[1]
<1>1. Len(stashes) \in Nat /\ DOMAIN stashes = 1 .. Len(stashes)
  BY LenProperties
<1>2. \A i \in 1 .. Len(stashes) : stashes[i] \in Entry
  BY ElementOfSeq
<1>3. ASSUME stashes # <<>> PROVE Head(stashes) = stashes[1] /\ 1 \in 1 .. Len(stashes)
  BY <1>1, <1>3, EmptySeq
<1> QED
  BY <1>1, <1>2, <1>3 DEF Stashed

LEMMA DropFacts ==
    ASSUME stashes \in Seq(Entry), OneEntryEach, NEW e, stashes' = Dropped(e)
    PROVE  /\ stashes' \in Seq(Entry) /\ OneEntryEach' /\ Stashed' = Stashed \ {e}
<1> USE StashTypes
<1>1. CASE e \notin Stashed
  <2>1. stashes' = stashes
    BY <1>1 DEF Dropped, RemoveFirst, Stashed
  <2> QED
    BY <1>1, <2>1 DEF OneEntryEach, Stashed
<1>2. CASE e \in Stashed
  <2>1. PICK k \in 1 .. Len(stashes) : stashes[k] = e
    BY <1>2 DEF Stashed
  <2>2. ASSUME NEW i \in 1 .. Len(stashes), stashes[i] = e PROVE i = k
    <3>1. stashes[i].owner = stashes[k].owner
      BY <2>1, <2>2
    <3> QED
      BY <3>1 DEF OneEntryEach
  <2>3. /\ stashes' \in Seq(Entry) /\ Len(stashes') = Len(stashes) - 1
        /\ \A i \in 1 .. Len(stashes) - 1 :
             stashes'[i] = IF i < k THEN stashes[i] ELSE stashes[i + 1]
    BY <2>1, <2>2, OneIndex DEF Dropped
  <2>4. \A i \in 1 .. Len(stashes) - 1 : i \in 1 .. Len(stashes) /\ i + 1 \in 1 .. Len(stashes)
    OBVIOUS
  <2>5. OneEntryEach'
    <3> SUFFICES ASSUME NEW i \in 1 .. Len(stashes'), NEW j \in 1 .. Len(stashes'),
                        stashes'[i].owner = stashes'[j].owner
                 PROVE  i = j
      BY DEF OneEntryEach
    <3> QED
      BY <2>1, <2>3, <2>4 DEF OneEntryEach
  <2>6. Stashed' \subseteq Stashed \ {e}
    BY <2>1, <2>2, <2>3, <2>4 DEF Stashed
  <2>7. ASSUME NEW f \in Stashed \ {e} PROVE f \in Stashed'
    <3>1. PICK j \in 1 .. Len(stashes) : stashes[j] = f
      BY DEF Stashed
    <3>2. j # k
      BY <2>1, <3>1
    <3>3. CASE j < k
      <4>1. j \in 1 .. Len(stashes') /\ stashes'[j] = f
        BY <2>1, <2>3, <3>1, <3>3
      <4> QED
        BY <4>1 DEF Stashed
    <3>4. CASE j > k
      <4>1. j - 1 \in 1 .. Len(stashes') /\ stashes'[j - 1] = f
        BY <2>1, <2>3, <3>1, <3>4
      <4> QED
        BY <4>1 DEF Stashed
    <3> QED
      BY <3>2, <3>3, <3>4
  <2> QED
    BY <2>3, <2>5, <2>6, <2>7
<1> QED
  BY <1>1, <1>2

LEMMA PushFacts ==
    ASSUME stashes \in Seq(Entry), OneEntryEach, NEW e \in Entry, stashes' = <<e>> \o stashes,
           \A f \in Stashed : f.owner # e.owner
    PROVE  /\ stashes' \in Seq(Entry) /\ OneEntryEach' /\ Stashed' = Stashed \cup {e}
           /\ stashes' # <<>> /\ Head(stashes') = e
<1> USE StashTypes
<1>1. <<e>> \in Seq(Entry) /\ Len(<<e>>) = 1 /\ <<e>>[1] = e
  OBVIOUS
<1>2. /\ stashes' \in Seq(Entry) /\ Len(stashes') = Len(stashes) + 1
      /\ \A i \in 1 .. Len(stashes) + 1 : stashes'[i] = IF i <= 1 THEN e ELSE stashes[i - 1]
  <2>1. /\ stashes' \in Seq(Entry) /\ Len(stashes') = 1 + Len(stashes)
        /\ \A i \in 1 .. 1 + Len(stashes) :
             stashes'[i] = IF i <= 1 THEN <<e>>[i] ELSE stashes[i - 1]
    BY <1>1, ConcatProperties
  <2> QED
    BY <1>1, <2>1
<1>3. stashes' # <<>> /\ Head(stashes') = e
  BY <1>2, LenProperties
<1>4. Stashed' = Stashed \cup {e}
  <2>1. \A i \in 1 .. Len(stashes) : i + 1 \in 1 .. Len(stashes') /\ stashes'[i + 1] = stashes[i]
    BY <1>2
  <2>2. 1 \in 1 .. Len(stashes') /\ stashes'[1] = e
    BY <1>2
  <2>3. \A i \in 1 .. Len(stashes') : i = 1 \/ i - 1 \in 1 .. Len(stashes)
    BY <1>2
  <2>4. \A i \in 1 .. Len(stashes') : stashes'[i] = e \/ stashes'[i] = stashes[i - 1]
    BY <1>2
  <2>5. Stashed' \subseteq Stashed \cup {e}
    BY <1>2, <2>3, <2>4 DEF Stashed
  <2>6. Stashed \subseteq Stashed'
    BY <2>1 DEF Stashed
  <2>7. e \in Stashed'
    BY <2>2 DEF Stashed
  <2> QED
    BY <2>5, <2>6, <2>7
<1>5. OneEntryEach'
  <2> SUFFICES ASSUME NEW i \in 1 .. Len(stashes'), NEW j \in 1 .. Len(stashes'),
                      stashes'[i].owner = stashes'[j].owner
               PROVE  i = j
    BY DEF OneEntryEach
  <2>1. CASE i = 1 /\ j # 1
    <3>1. j - 1 \in 1 .. Len(stashes) /\ stashes'[j] = stashes[j - 1] /\ stashes'[i] = e
      BY <1>2, <2>1
    <3> QED
      BY <3>1 DEF Stashed
  <2>2. CASE i # 1 /\ j = 1
    <3>1. i - 1 \in 1 .. Len(stashes) /\ stashes'[i] = stashes[i - 1] /\ stashes'[j] = e
      BY <1>2, <2>2
    <3> QED
      BY <3>1 DEF Stashed
  <2>3. CASE i # 1 /\ j # 1
    <3>1. /\ i - 1 \in 1 .. Len(stashes) /\ stashes'[i] = stashes[i - 1]
          /\ j - 1 \in 1 .. Len(stashes) /\ stashes'[j] = stashes[j - 1]
      BY <1>2, <2>3
    <3>2. i - 1 = j - 1
      BY <3>1 DEF OneEntryEach
    <3> QED
      BY <3>2
  <2> QED
    BY <2>1, <2>2, <2>3
<1> QED
  BY <1>2, <1>3, <1>4, <1>5

LEMMA MarkedPlace ==
    ASSUME stashes \in Seq(Entry), OneEntryEach, NEW id
    PROVE  IF \E e \in Stashed : e.owner = id
             THEN Marked(id) \in 1 .. Len(stashes) /\ stashes[Marked(id)].owner = id
             ELSE Marked(id) = 0
<1> DEFINE places == {i \in 1 .. Len(stashes) : stashes[i].owner = id}
<1>1. CASE \E e \in Stashed : e.owner = id
  <2>1. PICK k \in 1 .. Len(stashes) : stashes[k].owner = id
    BY <1>1 DEF Stashed
  <2>2. places = {k}
    BY <2>1 DEF OneEntryEach
  <2>3. k \in Int /\ k <= k /\ k # 0
    BY StashTypes
  <2>4. \A x \in {k} : x = k
    OBVIOUS
  <2>5. Min(places) = k
    BY <2>2, <2>3, <2>4 DEF Min
  <2>6. Marked(id) = k
    BY <2>2, <2>5 DEF Marked, SelectInSeq
  <2> QED
    BY <1>1, <2>1, <2>6
<1>2. CASE ~\E e \in Stashed : e.owner = id
  <2>1. places = {}
    BY <1>2 DEF Stashed
  <2> QED
    BY <1>2, <2>1 DEF Marked, SelectInSeq
<1> QED
  BY <1>1, <1>2

LEMMA FoundFacts ==
    ASSUME stashes \in Seq(Entry), OneEntryEach, NEW p \in Processes, NEW ref \in Resolved(p),
           Found(p, ref) # None
    PROVE  \/ Op(p).stash # None /\ Found(p, ref) = Op(p).stash
           \/ Op(p).stash = None /\ Found(p, ref) = refs[Op(p).id]
           \/ /\ Op(p).stash = None /\ Found(p, ref) \in Stashed
              /\ Found(p, ref).owner = Op(p).id
<1> DEFINE marked == Marked(Op(p).id)
<1>1. marked # 0 => stashes[marked] \in Stashed /\ stashes[marked].owner = Op(p).id
  BY MarkedPlace DEF Stashed
<1>2. ref # None => ref = refs[Op(p).id]
  BY DEF Resolved
<1> QED
  BY <1>1, <1>2 DEF Found

LEMMA FoundNothing ==
    ASSUME stashes \in Seq(Entry), OneEntryEach, NEW p \in Processes, FindNothing(p)
    PROVE  Op(p).stash = None /\ \A e \in Stashed : e.owner # Op(p).id
<1> DEFINE marked == Marked(Op(p).id)
<1>1. (\E e \in Stashed : e.owner = Op(p).id) => marked # 0 /\ stashes[marked] \in Stashed
  <2>1. \A n \in 1 .. Len(stashes) : n # 0
    BY StashTypes
  <2> QED
    BY <2>1, MarkedPlace DEF Stashed
<1>2. None \notin Stashed
  BY StashTypes, NoneAssumption
<1>3. PICK ref \in Resolved(p) : Found(p, ref) = None
  BY DEF FindNothing
<1> QED
  BY <1>1, <1>2, <1>3 DEF Found

-----------------------------------------------------------------------------
(* Types.                                                                  *)

LEMMA InitTypeOK == Init => TypeOK
<1> SUFFICES ASSUME Init PROVE TypeOK
  OBVIOUS
<1>1. stashes \in Seq(Entry)
  <2>1. [owner |-> 0, edits |-> UserStash] \in Entry
    BY EditsAssumption, MaxHandoffsAssumption DEF Entry
  <2>2. <<[owner |-> 0, edits |-> UserStash]>> \in Seq(Entry) /\ <<>> \in Seq(Entry)
    BY <2>1
  <2> QED
    BY <2>2 DEF Init
<1> QED
  BY <1>1, MaxHandoffsAssumption DEF Init, TypeOK, Steps

LEMMA HoldType ==
    ASSUME TypeOK, NEW p \in Processes, NEW step \in Steps, NEW h \in Held, Hold(p, step, h)
    PROVE  /\ pc' \in [Processes -> Steps] /\ held' \in [Processes -> Held \cup {None}]
           /\ \A q \in Processes : pc'[q] # "idle" => held'[q] # None
           /\ service' = service
BY NoneAssumption DEF TypeOK, Hold

LEMMA LeaveType ==
    ASSUME TypeOK, NEW p \in Processes, Leave(p)
    PROVE  /\ pc' \in [Processes -> Steps] /\ held' \in [Processes -> Held \cup {None}]
           /\ \A q \in Processes : pc'[q] # "idle" => held'[q] # None
           /\ service' = service
BY DEF TypeOK, Leave, Hold, Steps

LEMMA GotoType ==
    ASSUME TypeOK, NEW p \in Processes, NEW step \in Steps, pc[p] # "idle", Goto(p, step)
    PROVE  /\ pc' \in [Processes -> Steps] /\ held' \in [Processes -> Held \cup {None}]
           /\ \A q \in Processes : pc'[q] # "idle" => held'[q] # None
           /\ service' = service
BY DEF TypeOK, Goto

LEMMA RollbackType ==
    ASSUME TypeOK, NEW p \in Processes, NEW step \in Steps, pc[p] # "idle",
           NEW record \in Operation \cup {None}, EnterRollback(p, record, step)
    PROVE  /\ pc' \in [Processes -> Steps] /\ held' \in [Processes -> Held \cup {None}]
           /\ \A q \in Processes : pc'[q] # "idle" => held'[q] # None
           /\ service' = service
<1>1. record # None => [held[p] EXCEPT !.op = record] \in Held
  BY DEF TypeOK, Held
<1> QED
  BY <1>1, HoldType, LeaveType DEF EnterRollback

LEMMA HeldType ==
    ASSUME TypeOK, NEW p \in Processes, pc[p] # "idle"
    PROVE  /\ held[p] \in Held /\ Op(p) \in Operation
           /\ From(p) \in Locations /\ To(p) \in Locations /\ Op(p).id \in Ids
           /\ Op(p).stash \in Entry \cup {None} /\ refs[Op(p).id] \in Entry \cup {None}
           /\ Tree(From(p)) \subseteq Edits /\ Tree(To(p)) \subseteq Edits
BY DEF TypeOK, Held, Operation, Op, From, To, Tree

LEMMA BringsType ==
    ASSUME TypeOK, NEW x \in Locations, NEW edits \in SUBSET Edits, Brings(x, edits)
    PROVE  changes' \in [Locations -> SUBSET Edits]
BY DEF TypeOK, Brings

LEMMA ApplyFailsType ==
    ASSUME TypeOK, NEW x \in Locations, NEW ref \in Entry \cup {None}, ApplyFails(x, ref)
    PROVE  changes' \in [Locations -> SUBSET Edits]
<1>1. CASE ref = None
  BY <1>1 DEF ApplyFails, TypeOK
<1>2. CASE ref # None
  <2>1. PICK part \in SUBSET ref.edits : Brings(x, part)
    BY <1>2 DEF ApplyFails
  <2>2. part \in SUBSET Edits
    BY <1>2 DEF Entry
  <2> QED
    BY <2>1, <2>2, BringsType
<1> QED
  BY <1>1, <1>2

LEMMA PushType ==
    ASSUME TypeOK, NEW p \in Processes, pc[p] # "idle", Push(p)
    PROVE  stashes' \in Seq(Entry)
<1> USE HeldType
<1>1. [owner |-> Op(p).id, edits |-> changes[From(p)]] \in Entry
  BY MaxHandoffsAssumption DEF Entry, Ids, TypeOK
<1>2. <<[owner |-> Op(p).id, edits |-> changes[From(p)]]>> \in Seq(Entry)
  BY <1>1
<1> QED
  BY <1>2, ConcatProperties DEF Push, TypeOK
LEMMA MoveTypeOK == ASSUME TypeOK, OneEntryEach, NEW p \in Processes, MoveStep(p) PROVE TypeOK'
<1> USE HeldType, NoneAssumption
<1>1. CASE MoveRecords(p)
  <2>1. pc[p] # "idle"
    BY <1>1 DEF MoveRecords
  <2>2. /\ committed[From(p)] \in SUBSET Edits /\ committed[To(p)] \in SUBSET Edits
        /\ Tree(From(p)) \in SUBSET Edits /\ Op(p) \in Operation
    BY <2>1 DEF TypeOK
  <2>4. operation' \in Operation
    BY <1>1, <2>2 DEF MoveRecords, Operation
  <2>3. [held[p] EXCEPT !.op = operation'] \in Held
    BY <2>1, <2>4 DEF Held
  <2> QED
    BY <1>1, <2>1, <2>4, <2>3, HoldType DEF MoveRecords, TypeOK, git, history, Steps
<1>2. CASE StashPush(p)
  BY <1>2, PushType, GotoType DEF StashPush, TypeOK, Clean, database, history, Steps
<1>3. CASE StashPushFails(p)
  BY <1>3, PushType, LeaveType DEF StashPushFails, TypeOK, CleanInPart, database, history
<1>4. CASE VerifyStash(p)
  <2>1. pc[p] # "idle"
    BY <1>4 DEF VerifyStash
  <2>2. CASE stashes # <<>> /\ changes[From(p)] = {}
    <3>1. Head(stashes) \in Entry
      BY <2>2, StashTypes DEF TypeOK
    <3>2. [held[p] EXCEPT !.op.stash = Head(stashes)] \in Held
      BY <2>1, <3>1 DEF Held, Operation
    <3> QED
      BY <1>4, <2>1, <2>2, <3>2, HoldType DEF VerifyStash, TypeOK, git, database, history, Steps
  <2> QED
    BY <1>4, <2>1, <2>2, LeaveType DEF VerifyStash, TypeOK, git, database, history
<1>5. CASE SecureRef(p)
  <2>1. pc[p] # "idle" /\ refs' \in [Ids -> Entry \cup {None}]
    BY <1>5 DEF SecureRef, TypeOK
  <2> QED
    BY <1>5, <2>1, GotoType DEF SecureRef, TypeOK, database, history, Steps
<1>6. CASE MarkStashed(p)
  <2>1. pc[p] # "idle"
    BY <1>6 DEF MarkStashed
  <2>2. CASE Recorded(p)
    <3>1. operation \in Operation /\ Op(p).stash \in Entry \cup {None}
      BY <2>1, <2>2 DEF Recorded, TypeOK
    <3>2. operation' = [operation EXCEPT !.stash = Op(p).stash]
      BY <1>6, <2>2 DEF MarkStashed
    <3>3. operation' \in Operation
      BY <3>1, <3>2 DEF Operation
    <3> QED
      BY <1>6, <2>1, <2>2, <3>3, GotoType DEF MarkStashed, TypeOK, git, history, Steps
  <2> QED
    BY <1>6, <2>1, <2>2, LeaveType DEF MarkStashed, TypeOK, git, history
<1>7. CASE DropStash(p)
  <2>1. pc[p] # "idle" /\ stashes' = Dropped(Op(p).stash)
    BY <1>7 DEF DropStash
  <2>2. stashes' \in Seq(Entry)
    BY <2>1, DropFacts DEF TypeOK
  <2>3. CASE pc[p] = "drop"
    BY <1>7, <2>1, <2>2, <2>3, GotoType DEF DropStash, TypeOK, database, history, Steps
  <2>4. CASE pc[p] = "dropAgain"
    BY <1>7, <2>1, <2>2, <2>4, GotoType DEF DropStash, TypeOK, database, history, Steps
  <2>5. CASE pc[p] = "cleanDrop"
    BY <1>7, <2>1, <2>2, <2>5, GotoType DEF DropStash, TypeOK, database, history, Steps
  <2> QED
    BY <1>7, <2>3, <2>4, <2>5 DEF DropStash
<1>8. CASE ApplyToTarget(p)
  <2>1. pc[p] # "idle" /\ refs[Op(p).id] \in Entry /\ refs[Op(p).id].edits \in SUBSET Edits
    BY <1>8 DEF ApplyToTarget, Apply, Entry
  <2>2. changes' \in [Locations -> SUBSET Edits]
    BY <1>8, <2>1, BringsType DEF ApplyToTarget, Apply
  <2> QED
    BY <1>8, <2>1, <2>2, GotoType DEF ApplyToTarget, TypeOK, database, history, Steps
<1>9. CASE ApplyToTargetFails(p)
  <2>1. pc[p] # "idle"
    BY <1>9 DEF ApplyToTargetFails
  <2>2. changes' \in [Locations -> SUBSET Edits]
    BY <1>9, <2>1, ApplyFailsType DEF ApplyToTargetFails, TypeOK
  <2> QED
    BY <1>9, <2>1, <2>2, RollbackType DEF ApplyToTargetFails, TypeOK, database, history, Steps
<1>10. CASE RecordTarget(p)
  <2>1. pc[p] # "idle" /\ operation \in Operation
    BY <1>10 DEF RecordTarget, Recorded, TypeOK
  <2>2. operation' \in Operation
    BY <1>10, <2>1 DEF RecordTarget, Operation
  <2>3. [held[p] EXCEPT !.op = operation'] \in Held
    BY <2>1, <2>2 DEF Held
  <2>4. context' \in Locations
    BY <1>10, <2>1 DEF RecordTarget, TypeOK
  <2>5. CASE Hold(p, "cleanDrop", [held[p] EXCEPT !.op = operation'])
    BY <1>10, <2>1, <2>2, <2>3, <2>4, <2>5, HoldType DEF RecordTarget, TypeOK, git, history, Steps
  <2>6. CASE EnterRollback(p, operation', "compare")
    BY <1>10, <2>1, <2>2, <2>4, <2>6, RollbackType DEF RecordTarget, TypeOK, git, history, Steps
  <2> QED
    BY <1>10, <2>5, <2>6 DEF RecordTarget
<1>11. CASE NothingToRecord(p)
  BY <1>11, LeaveType DEF NothingToRecord, TypeOK, git, database, history
<1> QED
  BY <1>1, <1>2, <1>3, <1>4, <1>5, <1>6, <1>7, <1>8, <1>9, <1>10, <1>11 DEF MoveStep
LEMMA CleanType ==
    ASSUME TypeOK, NEW x \in Locations
    PROVE  /\ Clean(x) => changes' \in [Locations -> SUBSET Edits]
           /\ CleanInPart(x) => changes' \in [Locations -> SUBSET Edits]
BY DEF TypeOK, Clean, CleanInPart

LEMMA RollbackTypeOK == ASSUME TypeOK, NEW p \in Processes, RollbackStep(p) PROVE TypeOK'
<1> USE HeldType
<1>1. CASE DiscardPartialApply(p)
  BY <1>1, CleanType, GotoType DEF DiscardPartialApply, TypeOK, database, history, Steps
<1>2. CASE CompareTrees(p)
  <2>1. PICK step \in {"reset", "restore", "confirm"} :
           Hold(p, step, [held[p] EXCEPT !.clean = SourceIsClean(p)])
    BY <1>2 DEF CompareTrees
  <2>2. pc[p] # "idle" /\ step \in Steps
    BY <1>2 DEF CompareTrees, Steps
  <2>3. [held[p] EXCEPT !.clean = SourceIsClean(p)] \in Held
    BY <2>2 DEF Held, SourceIsClean
  <2> QED
    BY <1>2, <2>1, <2>2, <2>3, HoldType DEF CompareTrees, TypeOK, git, database, history
<1>3. CASE ResetTarget(p)
  BY <1>3, CleanType, GotoType DEF ResetTarget, TypeOK, database, history, Steps
<1>4. CASE CleaningFails(p)
  BY <1>4, CleanType, LeaveType DEF CleaningFails, TypeOK, database, history
<1>5. CASE RestoreSource(p)
  <2>1. pc[p] # "idle" /\ refs[Op(p).id] \in Entry /\ refs[Op(p).id].edits \in SUBSET Edits
    BY <1>5 DEF RestoreSource, Apply, Entry
  <2>2. changes' \in [Locations -> SUBSET Edits]
    BY <1>5, <2>1, BringsType DEF RestoreSource, Apply
  <2> QED
    BY <1>5, <2>1, <2>2, GotoType DEF RestoreSource, TypeOK, database, history, Steps
<1>6. CASE RestoreSourceFails(p)
  <2>1. changes' \in [Locations -> SUBSET Edits]
    BY <1>6, ApplyFailsType DEF RestoreSourceFails
  <2> QED
    BY <1>6, <2>1, LeaveType DEF RestoreSourceFails, TypeOK, database, history
<1>7. CASE ConfirmSource(p)
  BY <1>7, GotoType DEF ConfirmSource, TypeOK, git, database, history, Steps
<1> QED
  BY <1>1, <1>2, <1>3, <1>4, <1>5, <1>6, <1>7 DEF RollbackStep

LEMMA RecoverTypeOK == ASSUME TypeOK, OneEntryEach, NEW p \in Processes, RecoverStep(p) PROVE TypeOK'
<1> USE HeldType, NoneAssumption
<1>1. CASE FindNothing(p)
  <2>1. Op(p).id \in Ids
    BY <1>1 DEF FindNothing
  <2>2. operation' \in Operation \cup {None} /\ overlooked' \subseteq Ids
    BY <1>1, <2>1 DEF FindNothing, TypeOK
  <2> QED
    BY <1>1, <2>2, LeaveType DEF FindNothing, TypeOK, git
<1>2. CASE FindStash(p)
  <2>1. PICK ref \in Resolved(p) :
          /\ pc[p] # "idle" /\ Found(p, ref) # None
          /\ \/ Hold(p, "secureAgain", [held[p] EXCEPT !.op.stash = Found(p, ref)])
             \/ Leave(p)
    BY <1>2 DEF FindStash
  <2>2. Found(p, ref) \in Entry
    <3>1. stashes \in Seq(Entry)
      BY DEF TypeOK
    <3> QED
      BY <2>1, <3>1, FoundFacts, StashTypes
  <2>3. [held[p] EXCEPT !.op.stash = Found(p, ref)] \in Held
    BY <2>1, <2>2 DEF Held, Operation
  <2>4. CASE Hold(p, "secureAgain", [held[p] EXCEPT !.op.stash = Found(p, ref)])
    BY <1>2, <2>1, <2>3, <2>4, HoldType DEF FindStash, TypeOK, git, database, history, Steps
  <2>5. CASE Leave(p)
    BY <1>2, <2>5, LeaveType DEF FindStash, TypeOK, git, database, history
  <2> QED
    BY <2>1, <2>4, <2>5
<1>3. CASE MarkRecovered(p)
  <2>1. pc[p] # "idle"
    BY <1>3 DEF MarkRecovered
  <2>2. CASE Recorded(p)
    <3>1. operation \in Operation /\ Op(p).stash \in Entry \cup {None}
      BY <2>1, <2>2 DEF Recorded, TypeOK
    <3>2. operation' = [operation EXCEPT !.stash = Op(p).stash]
      BY <1>3, <2>2 DEF MarkRecovered
    <3>3. operation' \in Operation
      BY <3>1, <3>2 DEF Operation
    <3>4. [held[p] EXCEPT !.op = operation'] \in Held
      BY <2>1, <3>3 DEF Held
    <3>5. \/ Hold(p, "cleanDrop", [held[p] EXCEPT !.op = operation'])
          \/ Hold(p, "survey", [held[p] EXCEPT !.op = operation'])
          \/ Leave(p)
      BY <1>3, <2>2 DEF MarkRecovered
    <3> QED
      BY <1>3, <2>1, <3>3, <3>4, <3>5, HoldType, LeaveType
         DEF MarkRecovered, TypeOK, git, history, Steps
  <2> QED
    BY <1>3, <2>1, <2>2, LeaveType DEF MarkRecovered, TypeOK, git, history
<1>4. CASE Survey(p)
  <2>1. pc[p] # "idle"
    BY <1>4 DEF Survey
  <2>2. Goto(p, "cleanDrop") \/ EnterRollback(p, operation, "compare") \/ Leave(p)
    BY <1>4 DEF Survey
  <2>3. /\ pc' \in [Processes -> Steps] /\ held' \in [Processes -> Held \cup {None}]
        /\ \A q \in Processes : pc'[q] # "idle" => held'[q] # None
        /\ service' = service
    BY <2>1, <2>2, GotoType, RollbackType, LeaveType DEF TypeOK, Steps
  <2> QED
    BY <1>4, <2>3 DEF Survey, TypeOK, git, database, history
<1> QED
  BY <1>1, <1>2, <1>3, <1>4 DEF RecoverStep

LEMMA BeginType ==
    ASSUME TypeOK, NEW p \in Processes, BeginRecovery(p)
    PROVE  /\ pc' \in [Processes -> Steps] /\ held' \in [Processes -> Held \cup {None}]
           /\ \A q \in Processes : pc'[q] # "idle" => held'[q] # None
<1>1. [op |-> operation, context |-> context, clean |-> FALSE] \in Held
  BY DEF BeginRecovery, TypeOK, Held
<1> QED
  BY <1>1, NoneAssumption DEF BeginRecovery, TypeOK, Steps

LEMMA IdleType ==
    ASSUME pc' = [p \in Processes |-> "idle"], held' = [p \in Processes |-> None]
    PROVE  /\ pc' \in [Processes -> Steps] /\ held' \in [Processes -> Held \cup {None}]
           /\ \A q \in Processes : pc'[q] # "idle" => held'[q] # None
BY DEF Steps

LEMMA NextTypeOK == TypeOK /\ OneEntryEach /\ [Next]_vars => TypeOK'
<1> SUFFICES ASSUME TypeOK, OneEntryEach, [Next]_vars PROVE TypeOK'
  OBVIOUS
<1> USE HeldType
<1>1. CASE UNCHANGED vars
  BY <1>1 DEF vars, git, database, memory, history, TypeOK
<1>2. ASSUME NEW to \in Locations, HandoffWithoutChanges(to) PROVE TypeOK'
  BY <1>2 DEF HandoffWithoutChanges, TypeOK, git, memory, history
<1>3. ASSUME NEW to \in Locations, MoveBegins(to) PROVE TypeOK'
  <2> DEFINE op == [id |-> handoffs', from |-> context, to |-> to, stash |-> None,
                    sourceHead |-> {}, sourceTree |-> {},
                    targetHead |-> {}, targetTree |-> None]
  <2>1. handoffs' \in 0 .. MaxHandoffs /\ handoffs' \in Ids
    BY <1>3, MaxHandoffsAssumption DEF MoveBegins, TypeOK, Ids
  <2>2. op \in Operation
    BY <2>1 DEF Operation, TypeOK
  <2>3. [op |-> op, context |-> context, clean |-> FALSE] \in Held
    BY <2>2 DEF Held, TypeOK
  <2>4. "move" \in Processes /\ Hold("move", "snapshot", [op |-> op, context |-> context, clean |-> FALSE])
    BY <1>3 DEF MoveBegins, Processes
  <2> HIDE DEF op
  <2> QED
    BY <1>3, <2>1, <2>3, <2>4, HoldType DEF MoveBegins, TypeOK, git, database, Steps
<1>4. ASSUME NEW p \in Processes, DeleteRef(p) PROVE TypeOK'
  BY <1>4, GotoType DEF DeleteRef, TypeOK, database, history, Steps
<1>5. ASSUME NEW p \in Processes, DeleteRecord(p) PROVE TypeOK'
  BY <1>5, LeaveType DEF DeleteRecord, TypeOK, git, history
<1>6. ASSUME NEW p \in Processes, Fails(p) PROVE TypeOK'
  BY <1>6, LeaveType DEF Fails, TypeOK, git, database, history
<1>7. ASSUME NEW p \in Processes, KilledBeforeSwitch(p) PROVE TypeOK'
  <2>1. pc[p] # "idle" /\ operation \in Operation
    BY <1>7 DEF KilledBeforeSwitch, Recorded, TypeOK
  <2>2. operation' \in Operation
    BY <1>7, <2>1 DEF KilledBeforeSwitch, Operation
  <2> QED
    BY <1>7, <2>2, IdleType DEF KilledBeforeSwitch, TypeOK, git, history
<1>8. ASSUME NEW p \in Retries, Retry(p) \/ BootRecovers(p) PROVE TypeOK'
  <2>1. p \in Processes /\ BeginRecovery(p)
    BY <1>8 DEF Processes, Retry, BootRecovers
  <2> QED
    BY <1>8, <2>1, BeginType DEF Retry, BootRecovers, TypeOK, git, database, history
<1>9. CASE Boot \/ Recovered
  BY <1>9 DEF Boot, Recovered, TypeOK, git, database, history
<1>10. CASE Kill
  BY <1>10, IdleType DEF Kill, TypeOK, git, database, history
<1>11. ASSUME NEW x \in Locations, Commit(x) PROVE TypeOK'
  BY <1>11, CleanType DEF Commit, TypeOK, database, memory, history
<1>12. ASSUME NEW x \in Locations, NEW e \in Edits, Edit(x, e) PROVE TypeOK'
  BY <1>12 DEF Edit, TypeOK, database, memory
<1> QED
  BY <1>1, <1>2, <1>3, <1>4, <1>5, <1>6, <1>7, <1>8, <1>9, <1>10, <1>11, <1>12,
     MoveTypeOK, RollbackTypeOK, RecoverTypeOK DEF Next

-----------------------------------------------------------------------------
(* The control: one process at a time, and one snapshot for the record.    *)

LEMMA AloneFacts ==
    ASSUME Control, NEW p \in Processes, pc[p] # "idle"
    PROVE  /\ \A q \in Processes : q # p => pc[q] = "idle"
           /\ service # "down" /\ Knows(p) /\ TypeOK
BY DEF Control, Alone, Running

\* Two records that differ in the snapshot at most.
LEMMA RecordLike ==
    ASSUME NEW a \in Operation, NEW b \in Operation,
           a.id = b.id, a.from = b.from, a.to = b.to, a.sourceHead = b.sourceHead,
           a.sourceTree = b.sourceTree, a.targetHead = b.targetHead, a.targetTree = b.targetTree
    PROVE  a = [b EXCEPT !.stash = a.stash]
BY DEF Operation

LEMMA RecordFields ==
    ASSUME Control, NEW p \in Processes, pc[p] # "idle", pc[p] # "snapshot"
    PROVE  /\ operation \in Operation /\ operation # None /\ Op(p) \in Operation
           /\ Op(p).id = operation.id /\ From(p) = operation.from /\ To(p) = operation.to
           /\ Op(p).sourceHead = operation.sourceHead /\ Op(p).sourceTree = operation.sourceTree
           /\ Op(p).targetHead = operation.targetHead /\ Op(p).targetTree = operation.targetTree
           /\ Recorded(p)
<1>1. operation \in Operation /\ operation # None /\ Op(p) = [operation EXCEPT !.stash = Op(p).stash]
  BY AloneFacts DEF Knows, HoldsRecord, TypeOK
<1>2. Op(p) \in Operation
  BY AloneFacts, HeldType
<1> QED
  BY <1>1, <1>2 DEF From, To, Recorded, Operation

LEMMA ControlOf ==
    ASSUME Control, NEW p \in Processes, pc[p] # "idle", NEW step,
           pc' = [pc EXCEPT ![p] = step], service' = service,
           TypeOK', OneEntryEach', NothingElseKept', RecordIsSound', step # "idle" => Knows(p)'
    PROVE  Control'
<1>1. \A q \in Processes : pc'[q] # "idle" => q = p /\ step # "idle"
  BY AloneFacts DEF TypeOK
<1>2. Alone'
  BY <1>1, AloneFacts DEF Alone, Running
<1> QED
  BY <1>1, <1>2 DEF Control

\* The snapshots while a process runs.
LEMMA SnapshotsOf ==
    ASSUME Control, NEW p \in Processes, pc[p] # "idle"
    PROVE  Snapshots = {e \in Entry : \/ e = operation.stash
                                      \/ e = refs[operation.id]
                                      \/ e \in Stashed /\ e.owner # 0
                                      \/ e = Op(p).stash}
BY AloneFacts DEF Snapshots

LEMMA SnapshotsAfter ==
    ASSUME Control, NEW p \in Processes, pc[p] # "idle", NEW step, pc' = [pc EXCEPT ![p] = step]
    PROVE  Snapshots' = {e \in Entry : \/ e = operation'.stash
                                       \/ e = refs'[operation'.id]
                                       \/ e \in Stashed' /\ e.owner # 0
                                       \/ step # "idle" /\ e = Op(p)'.stash}
<1>1. \A q \in Processes : pc'[q] # "idle" <=> q = p /\ step # "idle"
  BY AloneFacts DEF TypeOK
<1> QED
  BY <1>1 DEF Snapshots

\* A step that leaves the record, the stash and the refs alone.
LEMMA SameSnapshots ==
    ASSUME Control, NEW p \in Processes, pc[p] # "idle", NEW step, pc' = [pc EXCEPT ![p] = step],
           UNCHANGED <<stashes, refs, operation, context>>,
           step # "idle" => Op(p)'.stash \in {Op(p).stash, operation.stash}
    PROVE  OneEntryEach' /\ NothingElseKept' /\ RecordIsSound' /\ Snapshots' \subseteq Snapshots
<1>1. Stashed' = Stashed /\ OneEntryEach' /\ NothingElseKept'
  BY DEF Control, Stashed, OneEntryEach, NothingElseKept
<1>2. ASSUME NEW e \in Snapshots' PROVE e \in Snapshots
  <2>1. e \in Entry /\ \/ e = operation.stash
                       \/ e = refs[operation.id]
                       \/ e \in Stashed /\ e.owner # 0
                       \/ step # "idle" /\ e = Op(p)'.stash
    BY <1>1, SnapshotsAfter
  <2> QED
    BY <2>1, SnapshotsOf
<1> QED
  BY <1>1, <1>2 DEF Control, RecordIsSound

\* An error only ends the process.
LEMMA LeaveControl ==
    ASSUME Control, NEW p \in Processes, pc[p] # "idle", Leave(p), TypeOK',
           UNCHANGED <<stashes, refs, operation, context>>
    PROVE  Control'
BY ControlOf, SameSnapshots DEF Leave, Hold

LEMMA HeldAfter ==
    ASSUME TypeOK, NEW p \in Processes, NEW step, NEW h \in Held, Hold(p, step, h)
    PROVE  /\ pc' = [pc EXCEPT ![p] = step] /\ service' = service /\ pc'[p] = step
           /\ Op(p)' = h.op /\ From(p)' = h.op.from /\ To(p)' = h.op.to
           /\ held'[p].context = h.context /\ held'[p].clean = h.clean
BY DEF TypeOK, Hold, Op, From, To

LEMMA GotoAfter ==
    ASSUME TypeOK, NEW p \in Processes, NEW step, Goto(p, step)
    PROVE  /\ pc' = [pc EXCEPT ![p] = step] /\ service' = service /\ pc'[p] = step
           /\ Op(p)' = Op(p) /\ From(p)' = From(p) /\ To(p)' = To(p)
           /\ held'[p].context = held[p].context /\ held'[p].clean = held[p].clean
BY DEF TypeOK, Goto, Op, From, To

LEMMA MoveRecordsControl ==
    ASSUME Control, NEW p \in Processes, MoveRecords(p), TypeOK' PROVE Control'
<1>1. pc[p] = "snapshot" /\ pc[p] # "idle" /\ Knows(p) /\ held[p] \in Held /\ Op(p) \in Operation
  BY AloneFacts, HeldType DEF MoveRecords
<1>2. /\ operation = None /\ Op(p).stash = None /\ Op(p).targetTree = None
      /\ From(p) # To(p) /\ context = From(p)
  BY <1>1 DEF Knows, HoldsRecord, KnowsContext
<1>3. /\ operation' = [Op(p) EXCEPT !.sourceHead = committed[From(p)],
                                    !.sourceTree = Tree(From(p)),
                                    !.targetHead = committed[To(p)]]
      /\ pc' = [pc EXCEPT ![p] = "push"] /\ service' = service
      /\ UNCHANGED <<stashes, refs, context>>
  BY DEF MoveRecords, Hold, git
<1>4. held'[p].op = operation'
  <2>1. held' = [held EXCEPT ![p] = [held[p] EXCEPT !.op = operation']] /\ p \in DOMAIN held
    BY DEF MoveRecords, Hold, TypeOK, Control
  <2>2. held'[p] = [held[p] EXCEPT !.op = operation']
    BY <2>1
  <2> QED
    BY <1>1, <2>2 DEF Held
<1>5. operation' # None /\ operation' \in Operation
  <2>1. /\ committed[From(p)] \in SUBSET Edits /\ committed[To(p)] \in SUBSET Edits
        /\ Tree(From(p)) \in SUBSET Edits /\ Op(p) \in Operation
    BY <1>1, AloneFacts, HeldType DEF TypeOK
  <2>2. operation' \in Operation
    BY <1>3, <2>1 DEF Operation
  <2> QED
    BY <2>2, NoneAssumption
<1>6. /\ operation'.stash = None /\ operation'.targetTree = None /\ operation'.id = Op(p).id
      /\ operation'.from = From(p) /\ operation'.to = To(p) /\ operation'.id \in Ids
  BY <1>1, <1>2, <1>3 DEF Operation, From, To
<1>7. refs'[operation'.id] = None /\ \A e \in Stashed' : e.owner = 0
  BY <1>1, <1>2, <1>3, <1>6 DEF Control, Knows, KnowsSnapshot, NothingElseKept, Stashed
<1>8. OneEntryEach' /\ NothingElseKept'
  <2>1. Stashed' = Stashed
    BY <1>3 DEF Stashed
  <2> QED
    BY <1>2, <1>3, <1>7, <2>1 DEF Control, OneEntryEach, NothingElseKept
<1>9. RecordIsSound'
  <2>1. Op(p)'.stash = None
    BY <1>4, <1>6 DEF Op
  <2>2. ASSUME NEW e \in Snapshots' PROVE FALSE
    <3>1. e \in Entry /\ \/ e = operation'.stash
                         \/ e = refs'[operation'.id]
                         \/ e \in Stashed' /\ e.owner # 0
                         \/ e = Op(p)'.stash
      <4>1. pc' = [pc EXCEPT ![p] = "push"]
        BY <1>3
      <4> QED
        BY <1>1, <4>1, SnapshotsAfter
    <3> QED
      BY <1>6, <1>7, <2>1, <3>1, NoneAssumption
  <2> QED
    BY <1>2, <1>3, <1>6, <2>2 DEF RecordIsSound
<1>10. pc'[p] = "push"
  BY <1>3 DEF Control, TypeOK
<1>11. Op(p)' = operation' /\ From(p)' = operation'.from /\ To(p)' = operation'.to
  BY <1>4 DEF Op, From, To
<1>12. Op(p)' = [operation' EXCEPT !.stash = Op(p)'.stash]
  BY <1>5, <1>11 DEF Operation
<1>13. HoldsRecord(p)'
  BY <1>2, <1>5, <1>6, <1>10, <1>11, <1>12 DEF HoldsRecord, RollingBack, CleaningUp
<1>14. KnowsContext(p)' /\ KnowsSnapshot(p)'
  BY <1>2, <1>3, <1>6, <1>7, <1>10, <1>11 DEF KnowsContext, KnowsSnapshot, Moving, RollingBack, Looking, Secured
<1> QED
  BY <1>1, <1>3, <1>8, <1>9, <1>13, <1>14, ControlOf DEF Knows

\* At the push, the only entry is the user's.
LEMMA PushStash ==
    ASSUME Control, NEW p \in Processes, pc[p] = "push", Push(p)
    PROVE  /\ stashes' \in Seq(Entry) /\ OneEntryEach'
           /\ IF changes[From(p)] = {} THEN stashes' = stashes
              ELSE LET e == [owner |-> Op(p).id, edits |-> changes[From(p)]]
                   IN  /\ e \in Entry /\ e.owner # 0 /\ e.owner = operation.id
                       /\ Stashed' = Stashed \cup {e} /\ Head(stashes') = e
<1> DEFINE e == [owner |-> Op(p).id, edits |-> changes[From(p)]]
<1>1. stashes \in Seq(Entry) /\ OneEntryEach /\ TypeOK
  BY DEF Control, TypeOK
<1>2. CASE changes[From(p)] = {}
  BY <1>1, <1>2 DEF Push, OneEntryEach
<1>3. CASE changes[From(p)] # {}
  <2>1. e \in Entry /\ e.owner # 0 /\ e.owner = operation.id
    <3>1. Op(p).id \in Ids /\ From(p) \in Locations /\ Op(p).id = operation.id
      BY HeldType, RecordFields, <1>1
    <3> QED
      BY <1>1, <3>1, MaxHandoffsAssumption DEF Entry, Ids, TypeOK
  <2>2. stashes' = <<e>> \o stashes
    BY <1>3 DEF Push
  <2>3. \A f \in Stashed : f.owner # e.owner
    BY <2>1, AloneFacts DEF Knows, KnowsSnapshot
  <2> HIDE DEF e
  <2>4. stashes' \in Seq(Entry) /\ OneEntryEach' /\ Stashed' = Stashed \cup {e} /\ Head(stashes') = e
    BY <1>1, <2>1, <2>2, <2>3, PushFacts
  <2> QED
    BY <1>3, <2>1, <2>4 DEF e
<1> QED
  BY <1>2, <1>3

LEMMA StashPushControl ==
    ASSUME Control, NEW p \in Processes, StashPush(p) \/ StashPushFails(p), TypeOK' PROVE Control'
<1>1. pc[p] = "push" /\ pc[p] # "idle" /\ Knows(p) /\ TypeOK
  BY AloneFacts DEF StashPush, StashPushFails
<1>2. /\ UNCHANGED <<refs, operation, context>> /\ service' = service
      /\ \/ pc' = [pc EXCEPT ![p] = "verify"] /\ held' = held /\ Push(p)
         \/ Leave(p) /\ UNCHANGED stashes
         \/ Leave(p) /\ Push(p)
  BY DEF StashPush, StashPushFails, database, Goto, Leave, Hold
<1>3. CASE Leave(p) /\ UNCHANGED stashes
  BY <1>1, <1>2, <1>3, LeaveControl
<1>4. CASE Push(p)
  <2>1. PICK step \in {"verify", "idle"} :
           pc' = [pc EXCEPT ![p] = step] /\ (step = "verify" => held' = held)
    BY <1>2, <1>4, <1>3 DEF Leave, Hold
  <2>2. /\ operation # None /\ operation.stash = None /\ Op(p).stash = None
        /\ refs[operation.id] = None /\ \A e \in Stashed : e.owner = 0
    BY <1>1, RecordFields DEF Knows, HoldsRecord, KnowsSnapshot
  <2>3. OneEntryEach'
    BY <1>1, <1>4, PushStash
  <2>4. /\ \A e \in Stashed' : e.owner # 0 => e.owner = operation.id /\ e = Head(stashes')
        /\ \A e \in Stashed' : e.owner = 0 => e \in Stashed
        /\ \A e, f \in Stashed' : e.owner # 0 /\ f.owner # 0 => e = f
    <3>1. CASE changes[From(p)] = {}
      <4>1. Stashed' = Stashed
        BY <1>1, <1>4, <3>1, PushStash DEF Stashed
      <4> QED
        BY <2>2, <4>1
    <3>2. CASE changes[From(p)] # {}
      <4>1. PICK e \in Entry : /\ e.owner # 0 /\ e.owner = operation.id
                               /\ Stashed' = Stashed \cup {e} /\ Head(stashes') = e
        BY <1>1, <1>4, <3>2, PushStash
      <4> QED
        BY <2>2, <4>1
    <3> QED
      BY <3>1, <3>2
  <2>5. NothingElseKept'
    BY <1>2, <2>2, <2>4 DEF Control, NothingElseKept
  <2>6. step = "verify" => Op(p)'.stash = None
    BY <2>1, <2>2 DEF Op
  <2>7. ASSUME NEW e \in Snapshots' PROVE e \in Stashed' /\ e.owner # 0
    <3>1. e \in Entry /\ \/ e = operation'.stash
                         \/ e = refs'[operation'.id]
                         \/ e \in Stashed' /\ e.owner # 0
                         \/ step # "idle" /\ e = Op(p)'.stash
      BY <1>1, <2>1, SnapshotsAfter
    <3> QED
      BY <1>2, <2>1, <2>2, <2>6, <3>1, NoneAssumption
  <2>8. RecordIsSound'
    BY <1>2, <2>4, <2>7 DEF Control, RecordIsSound
  <2>9. ASSUME step = "verify" PROVE Knows(p)'
    <3>1. pc'[p] = "verify" /\ held' = held
      BY <2>1, <2>9, <1>1 DEF TypeOK
    <3>2. HoldsRecord(p)'
      BY <1>1, <1>2, <3>1 DEF Knows, HoldsRecord, From, To, Op, Moving, RollingBack, CleaningUp
    <3>3. KnowsContext(p)'
      BY <1>1, <1>2, <3>1 DEF Knows, KnowsContext, From, To, Op, Moving, RollingBack, Looking
    <3>4. KnowsSnapshot(p)'
      BY <1>1, <1>2, <2>4, <3>1 DEF Knows, KnowsSnapshot, Op, Secured, RollingBack
    <3> QED
      BY <3>2, <3>3, <3>4 DEF Knows
  <2> QED
    BY <1>1, <1>2, <2>1, <2>3, <2>5, <2>8, <2>9, ControlOf
<1> QED
  BY <1>2, <1>3, <1>4

LEMMA VerifyStashControl ==
    ASSUME Control, NEW p \in Processes, VerifyStash(p), TypeOK' PROVE Control'
<1>1. pc[p] = "verify" /\ pc[p] # "idle" /\ Knows(p) /\ TypeOK /\ held[p] \in Held
  BY AloneFacts, HeldType DEF VerifyStash
<1>2. UNCHANGED <<stashes, refs, operation, context>>
  BY DEF VerifyStash, git, database
<1>3. CASE Leave(p)
  BY <1>1, <1>2, <1>3, LeaveControl
<1>4. CASE stashes # <<>> /\ Hold(p, "secure", [held[p] EXCEPT !.op.stash = Head(stashes)])
  <2> DEFINE e == Head(stashes)
             op == [Op(p) EXCEPT !.stash = e]
             h == [held[p] EXCEPT !.op.stash = e]
  <2>1. e \in Stashed /\ e \in Entry
    BY <1>1, <1>4, StashTypes DEF TypeOK
  <2>2. op \in Operation /\ Op(p) \in Operation
    BY <1>1, <2>1, HeldType DEF Operation
  <2>3. h \in Held /\ h.op = op
    BY <1>1, <2>2 DEF Held, Op
  <2>4. Hold(p, "secure", h)
    BY <1>4
  <2>6. op.from = From(p) /\ op.to = To(p) /\ op.id = Op(p).id /\ op.stash = e
    BY <2>2 DEF Operation, From, To
  <2>7. op = [operation EXCEPT !.stash = op.stash]
    <3>1. /\ operation \in Operation /\ Op(p).id = operation.id /\ From(p) = operation.from
          /\ To(p) = operation.to /\ Op(p).sourceHead = operation.sourceHead
          /\ Op(p).sourceTree = operation.sourceTree /\ Op(p).targetHead = operation.targetHead
          /\ Op(p).targetTree = operation.targetTree
      BY <1>1, RecordFields
    <3>2. /\ op.sourceHead = Op(p).sourceHead /\ op.sourceTree = Op(p).sourceTree
          /\ op.targetHead = Op(p).targetHead /\ op.targetTree = Op(p).targetTree
      BY <2>2 DEF Operation
    <3> HIDE DEF op
    <3> QED
      BY <2>2, <2>6, <3>1, <3>2, RecordLike
  <2> HIDE DEF h, op, e
  <2>5. /\ pc' = [pc EXCEPT ![p] = "secure"] /\ service' = service /\ pc'[p] = "secure"
        /\ Op(p)' = op /\ From(p)' = op.from /\ To(p)' = op.to
    BY <1>1, <2>3, <2>4, HeldAfter
  <2>8. /\ operation # None /\ operation.stash = None /\ refs[operation.id] = None
        /\ \A f \in Stashed : f.owner # 0 => f = e
    BY <1>1, RecordFields DEF Knows, HoldsRecord, KnowsSnapshot, e
  <2>9. Stashed' = Stashed
    BY <1>2 DEF Stashed
  <2>10. ASSUME NEW f \in Snapshots' PROVE f = e
    <3>1. f \in Entry /\ \/ f = operation'.stash
                         \/ f = refs'[operation'.id]
                         \/ f \in Stashed' /\ f.owner # 0
                         \/ f = Op(p)'.stash
      BY <1>1, <2>5, SnapshotsAfter
    <3> QED
      BY <1>2, <2>5, <2>6, <2>8, <2>9, <3>1, NoneAssumption
  <2>11. OneEntryEach' /\ NothingElseKept'
    BY <1>2, <2>9 DEF Control, OneEntryEach, NothingElseKept
  <2>12. RecordIsSound'
    BY <1>2, <2>10 DEF Control, RecordIsSound
  <2>13. HoldsRecord(p)'
    <3>1. op.stash # None
      BY <2>1, <2>6, NoneAssumption
    <3>2. From(p) # To(p) /\ operation.targetTree = None
      BY <1>1 DEF Knows, HoldsRecord, Moving
    <3> QED
      BY <1>2, <2>5, <2>6, <2>7, <2>8, <3>1, <3>2 DEF HoldsRecord, RollingBack, CleaningUp
  <2>14. KnowsContext(p)'
    BY <1>1, <1>2, <2>5, <2>6 DEF Knows, KnowsContext, Moving, RollingBack, Looking
  <2>15. KnowsSnapshot(p)'
    <3>1. Op(p)'.id = operation.id /\ Op(p)'.stash = e
      BY <1>1, <2>5, <2>6, RecordFields
    <3> QED
      BY <1>2, <2>1, <2>5, <2>8, <2>9, <3>1 DEF KnowsSnapshot, RollingBack, Secured
  <2> QED
    BY <1>1, <2>5, <2>11, <2>12, <2>13, <2>14, <2>15, ControlOf DEF Knows
<1> QED
  BY <1>3, <1>4 DEF VerifyStash

LEMMA SecureRefControl ==
    ASSUME Control, NEW p \in Processes, SecureRef(p), TypeOK' PROVE Control'
<1>1. /\ pc[p] \in {"secure", "secureAgain"} /\ pc[p] # "idle" /\ pc[p] # "snapshot"
      /\ Knows(p) /\ TypeOK /\ held[p] \in Held /\ Op(p).id \in Ids
  BY AloneFacts, HeldType DEF SecureRef
<1>2. /\ UNCHANGED <<stashes, operation, context>> /\ refs' = [refs EXCEPT ![Op(p).id] = Op(p).stash]
      /\ Goto(p, IF pc[p] = "secure" THEN "mark" ELSE "dropAgain")
  BY DEF SecureRef, database
<1> DEFINE step == IF pc[p] = "secure" THEN "mark" ELSE "dropAgain"
<1>3. Goto(p, step)
  BY <1>2
<1>4. /\ step \in {"mark", "dropAgain"} /\ step # "idle"
      /\ (pc[p] = "secure" <=> step = "mark") /\ (pc[p] = "secureAgain" <=> step = "dropAgain")
  BY <1>1
<1> HIDE DEF step
<1>5. /\ pc' = [pc EXCEPT ![p] = step] /\ service' = service /\ pc'[p] = step
      /\ Op(p)' = Op(p) /\ From(p)' = From(p) /\ To(p)' = To(p)
      /\ held'[p].context = held[p].context
  BY <1>1, <1>3, GotoAfter
<1>6. operation # None /\ operation.id = Op(p).id /\ Op(p).stash # None
  BY <1>1, RecordFields DEF Knows, HoldsRecord
<1>7. Stashed' = Stashed /\ refs'[Op(p).id] = Op(p).stash
      /\ \A i \in Ids : i # Op(p).id => refs'[i] = refs[i]
  BY <1>1, <1>2 DEF Stashed, TypeOK
<1>8. OneEntryEach' /\ NothingElseKept'
  BY <1>2, <1>6, <1>7 DEF Control, OneEntryEach, NothingElseKept
<1>9. ASSUME NEW f \in Snapshots' PROVE f \in Snapshots
  <2>1. f \in Entry /\ \/ f = operation'.stash
                       \/ f = refs'[operation'.id]
                       \/ f \in Stashed' /\ f.owner # 0
                       \/ f = Op(p)'.stash
    BY <1>1, <1>5, SnapshotsAfter
  <2>2. f \in Entry /\ \/ f = operation.stash
                       \/ f \in Stashed /\ f.owner # 0
                       \/ f = Op(p).stash
    BY <1>2, <1>5, <1>6, <1>7, <2>1
  <2> QED
    BY <1>1, <2>2, SnapshotsOf
<1>10. RecordIsSound'
  BY <1>2, <1>9 DEF Control, RecordIsSound
<1>11. HoldsRecord(p)'
  BY <1>1, <1>2, <1>4, <1>5 DEF Knows, HoldsRecord, Moving, RollingBack, CleaningUp
<1>12. KnowsContext(p)' /\ KnowsSnapshot(p)'
  BY <1>1, <1>2, <1>4, <1>5, <1>7
     DEF Knows, KnowsContext, KnowsSnapshot, Moving, RollingBack, Looking, Secured
<1> QED
  BY <1>1, <1>5, <1>8, <1>10, <1>11, <1>12, ControlOf DEF Knows

LEMMA MarkStashedControl ==
    ASSUME Control, NEW p \in Processes, MarkStashed(p), TypeOK' PROVE Control'
<1>1. /\ pc[p] = "mark" /\ pc[p] # "idle" /\ Knows(p) /\ TypeOK /\ Recorded(p)
      /\ operation \in Operation /\ Op(p) \in Operation /\ Op(p).id = operation.id
  BY AloneFacts, RecordFields DEF MarkStashed
<1>2. /\ UNCHANGED <<stashes, refs, context>> /\ operation' = [operation EXCEPT !.stash = Op(p).stash]
      /\ Goto(p, "drop")
  BY <1>1 DEF MarkStashed, git
<1>3. /\ pc' = [pc EXCEPT ![p] = "drop"] /\ service' = service /\ pc'[p] = "drop"
      /\ Op(p)' = Op(p) /\ From(p)' = From(p) /\ To(p)' = To(p)
  BY <1>1, <1>2, GotoAfter
<1>4. /\ operation' \in Operation /\ operation'.id = operation.id /\ operation'.stash = Op(p).stash
      /\ operation'.from = operation.from /\ operation'.to = operation.to
      /\ operation'.targetTree = operation.targetTree
  <2>1. Op(p).stash \in Entry \cup {None}
    BY <1>1 DEF Operation
  <2> QED
    BY <1>1, <1>2, <2>1 DEF Operation
<1>5. operation' # None /\ operation # None /\ Op(p).stash # None
  BY <1>1, <1>4, NoneAssumption DEF Knows, HoldsRecord
<1>6. Op(p) = [operation' EXCEPT !.stash = Op(p).stash]
  <2>1. Op(p) = [operation EXCEPT !.stash = Op(p).stash]
    BY <1>1 DEF Knows, HoldsRecord
  <2> QED
    BY <1>1, <1>2, <1>4, <2>1 DEF Operation
<1>7. Stashed' = Stashed /\ OneEntryEach' /\ NothingElseKept'
  <2>1. Stashed' = Stashed
    BY <1>2 DEF Stashed
  <2> QED
    BY <1>2, <1>4, <1>5, <2>1 DEF Control, OneEntryEach, NothingElseKept
<1>8. ASSUME NEW f \in Snapshots' PROVE f \in Snapshots
  <2>1. f \in Entry /\ \/ f = operation'.stash
                       \/ f = refs'[operation'.id]
                       \/ f \in Stashed' /\ f.owner # 0
                       \/ f = Op(p)'.stash
    BY <1>1, <1>3, SnapshotsAfter
  <2>2. f \in Entry /\ \/ f = refs[operation.id]
                       \/ f \in Stashed /\ f.owner # 0
                       \/ f = Op(p).stash
    BY <1>2, <1>3, <1>4, <1>7, <2>1
  <2> QED
    BY <1>1, <2>2, SnapshotsOf
<1>9. RecordIsSound'
  BY <1>2, <1>4, <1>5, <1>8 DEF Control, RecordIsSound
<1>10. HoldsRecord(p)'
  <2>1. From(p) # To(p) /\ operation.targetTree = None
    BY <1>1 DEF Knows, HoldsRecord, Moving
  <2> QED
    BY <1>3, <1>4, <1>5, <1>6, <2>1 DEF HoldsRecord, RollingBack, CleaningUp
<1>11. KnowsContext(p)' /\ KnowsSnapshot(p)'
  BY <1>1, <1>2, <1>3 DEF Knows, KnowsContext, KnowsSnapshot, Moving, RollingBack, Looking, Secured
<1> QED
  BY <1>1, <1>3, <1>7, <1>9, <1>10, <1>11, ControlOf DEF Knows

LEMMA DropStashControl ==
    ASSUME Control, NEW p \in Processes, DropStash(p), TypeOK' PROVE Control'
<1>1. /\ pc[p] \in {"drop", "dropAgain", "cleanDrop"} /\ pc[p] # "idle" /\ pc[p] # "snapshot"
      /\ Knows(p) /\ TypeOK
  BY AloneFacts DEF DropStash
<1>2. UNCHANGED <<refs, operation, context>> /\ stashes' = Dropped(Op(p).stash)
  BY DEF DropStash, database
<1>3. PICK step \in {"apply", "markAgain", "cleanRef"} :
         /\ Goto(p, step)
         /\ step = "apply" <=> pc[p] = "drop"
         /\ step = "markAgain" <=> pc[p] = "dropAgain"
         /\ step = "cleanRef" <=> pc[p] = "cleanDrop"
  BY <1>1 DEF DropStash
<1>4. /\ pc' = [pc EXCEPT ![p] = step] /\ service' = service /\ pc'[p] = step
      /\ Op(p)' = Op(p) /\ From(p)' = From(p) /\ To(p)' = To(p)
      /\ held'[p].context = held[p].context
  BY <1>1, <1>3, GotoAfter
<1>5. OneEntryEach' /\ Stashed' = Stashed \ {Op(p).stash}
  <2>1. stashes \in Seq(Entry) /\ OneEntryEach
    BY <1>1 DEF Control, TypeOK
  <2> QED
    BY <1>2, <2>1, DropFacts
<1>6. NothingElseKept'
  BY <1>2, <1>5 DEF Control, NothingElseKept
<1>7. ASSUME NEW f \in Snapshots' PROVE f \in Snapshots
  <2>1. f \in Entry /\ \/ f = operation'.stash
                       \/ f = refs'[operation'.id]
                       \/ f \in Stashed' /\ f.owner # 0
                       \/ f = Op(p)'.stash
    BY <1>1, <1>4, SnapshotsAfter
  <2> QED
    BY <1>1, <1>2, <1>4, <1>5, <2>1, SnapshotsOf
<1>8. RecordIsSound'
  BY <1>2, <1>7 DEF Control, RecordIsSound
<1>9. HoldsRecord(p)'
  BY <1>1, <1>2, <1>3, <1>4 DEF Knows, HoldsRecord, Moving, RollingBack, CleaningUp
<1>10. KnowsContext(p)'
  BY <1>1, <1>2, <1>3, <1>4 DEF Knows, KnowsContext, Moving, RollingBack, Looking
<1>11. KnowsSnapshot(p)'
  BY <1>1, <1>2, <1>3, <1>4, <1>5 DEF Knows, KnowsSnapshot, RollingBack, Secured
<1> QED
  BY <1>1, <1>3, <1>4, <1>5, <1>6, <1>8, <1>9, <1>10, <1>11, ControlOf DEF Knows

\* #rollbackHandoff reads the record it was called with.
LEMMA EnterRollbackControl ==
    ASSUME Control, NEW p \in Processes, pc[p] \in {"apply", "survey"},
           NEW step \in {"discard", "compare"}, EnterRollback(p, operation, step),
           UNCHANGED <<stashes, refs, operation, context>>, TypeOK'
    PROVE  Control'
<1>1. /\ pc[p] # "idle" /\ pc[p] # "snapshot" /\ Knows(p) /\ TypeOK /\ held[p] \in Held
      /\ operation \in Operation /\ operation # None
  BY AloneFacts, HeldType, RecordFields
<1>2. CASE Leave(p)
  BY <1>1, <1>2, LeaveControl
<1>3. CASE Hold(p, step, [held[p] EXCEPT !.op = operation])
  <2> DEFINE h == [held[p] EXCEPT !.op = operation]
  <2>1. h \in Held /\ h.op = operation /\ Hold(p, step, h)
    BY <1>1, <1>3 DEF Held
  <2> HIDE DEF h
  <2>2. /\ pc' = [pc EXCEPT ![p] = step] /\ service' = service /\ pc'[p] = step
        /\ Op(p)' = operation /\ From(p)' = operation.from /\ To(p)' = operation.to
    BY <1>1, <2>1, HeldAfter
  <2>3. OneEntryEach' /\ NothingElseKept' /\ RecordIsSound'
    BY <1>1, <2>2, SameSnapshots
  <2>4. /\ operation = [operation EXCEPT !.stash = operation.stash]
        /\ From(p) = operation.from /\ To(p) = operation.to /\ Op(p).id = operation.id
    BY <1>1, RecordFields DEF Operation
  <2>5. HoldsRecord(p)'
    BY <1>1, <2>2, <2>4 DEF Knows, HoldsRecord, Moving, RollingBack, CleaningUp
  <2>6. KnowsContext(p)'
    BY <1>1, <2>2, <2>4 DEF Knows, KnowsContext, Moving, RollingBack, Looking
  <2>7. KnowsSnapshot(p)'
    BY <1>1, <2>2, <2>4 DEF Knows, KnowsSnapshot, HoldsRecord, RollingBack, Secured
  <2> QED
    BY <1>1, <2>2, <2>3, <2>5, <2>6, <2>7, ControlOf DEF Knows
<1> QED
  BY <1>2, <1>3 DEF EnterRollback

LEMMA ApplyControl ==
    ASSUME Control, NEW p \in Processes,
           ApplyToTarget(p) \/ ApplyToTargetFails(p) \/ NothingToRecord(p), TypeOK'
    PROVE  Control'
<1>1. CASE ApplyToTarget(p)
  <2>1. pc[p] = "apply" /\ pc[p] # "idle" /\ pc[p] # "snapshot" /\ Knows(p) /\ TypeOK
    BY <1>1, AloneFacts DEF ApplyToTarget
  <2>2. UNCHANGED <<stashes, refs, operation, context>> /\ Goto(p, "record")
    BY <1>1 DEF ApplyToTarget, database
  <2>3. /\ pc' = [pc EXCEPT ![p] = "record"] /\ service' = service /\ pc'[p] = "record"
        /\ Op(p)' = Op(p) /\ From(p)' = From(p) /\ To(p)' = To(p)
    BY <2>1, <2>2, GotoAfter
  <2>4. OneEntryEach' /\ NothingElseKept' /\ RecordIsSound'
    BY <2>1, <2>2, <2>3, SameSnapshots
  <2>5. HoldsRecord(p)'
    BY <2>1, <2>2, <2>3 DEF Knows, HoldsRecord, Moving, RollingBack, CleaningUp
  <2>6. KnowsContext(p)' /\ KnowsSnapshot(p)'
    BY <2>1, <2>2, <2>3 DEF Knows, KnowsContext, KnowsSnapshot, Moving, RollingBack, Looking, Secured
  <2> QED
    BY <2>1, <2>3, <2>4, <2>5, <2>6, ControlOf DEF Knows
<1>2. CASE ApplyToTargetFails(p)
  BY <1>2, EnterRollbackControl DEF ApplyToTargetFails, database
<1>3. CASE NothingToRecord(p)
  <2>1. pc[p] # "idle" /\ Leave(p) /\ UNCHANGED <<stashes, refs, operation, context>>
    BY <1>3 DEF NothingToRecord, git, database
  <2> QED
    BY <2>1, LeaveControl
<1> QED
  BY <1>1, <1>2, <1>3

\* The record with the identity of what the target holds.
LEMMA RecordTargetFacts ==
    ASSUME Control, NEW p \in Processes, pc[p] = "record",
           operation' = [operation EXCEPT !.targetTree = Tree(To(p))]
    PROVE  /\ operation' \in Operation /\ operation' # None
           /\ operation'.id = operation.id /\ operation'.stash = operation.stash
           /\ operation'.from = operation.from /\ operation'.to = operation.to
           /\ operation'.sourceTree = operation.sourceTree
           /\ operation'.sourceHead = operation.sourceHead
           /\ operation'.targetHead = operation.targetHead
           /\ operation'.targetTree = Tree(To(p))
           /\ operation' = [operation' EXCEPT !.stash = operation'.stash]
<1>1. operation \in Operation /\ Tree(To(p)) \in SUBSET Edits
  BY RecordFields, AloneFacts, HeldType
<1>2. operation' \in Operation
  BY <1>1 DEF Operation
<1> QED
  BY <1>1, <1>2, NoneAssumption DEF Operation

LEMMA RecordTargetControl ==
    ASSUME Control, NEW p \in Processes, RecordTarget(p), TypeOK' PROVE Control'
<1>1. /\ pc[p] = "record" /\ pc[p] # "idle" /\ pc[p] # "snapshot" /\ Knows(p) /\ TypeOK
      /\ held[p] \in Held /\ operation # None
      /\ From(p) = operation.from /\ To(p) = operation.to /\ Op(p).id = operation.id
  BY AloneFacts, HeldType, RecordFields DEF RecordTarget
<1>2. /\ UNCHANGED <<stashes, refs>> /\ operation' = [operation EXCEPT !.targetTree = Tree(To(p))]
      /\ \/ context' = To(p) /\ Hold(p, "cleanDrop", [held[p] EXCEPT !.op = operation'])
         \/ context' = context /\ EnterRollback(p, operation', "compare")
  BY DEF RecordTarget, git
<1>3. /\ operation' \in Operation /\ operation' # None /\ operation'.id = operation.id
      /\ operation'.stash = operation.stash /\ operation'.from = operation.from
      /\ operation'.to = operation.to /\ operation' = [operation' EXCEPT !.stash = operation'.stash]
  BY <1>1, <1>2, RecordTargetFacts
<1>4. operation.stash = Op(p).stash /\ operation.stash # None /\ refs[operation.id] = operation.stash
  BY <1>1 DEF Knows, HoldsRecord, KnowsSnapshot, Secured
<1> DEFINE h == [held[p] EXCEPT !.op = operation']
<1>5. PICK step \in {"cleanDrop", "compare", "idle"} :
         /\ pc' = [pc EXCEPT ![p] = step] /\ service' = service
         /\ step = "cleanDrop" => context' = To(p)
         /\ step # "cleanDrop" => context' = context
         /\ step # "idle" => Hold(p, step, h)
  BY <1>2 DEF EnterRollback, Leave, Hold
<1>6. h \in Held /\ h.op = operation'
  BY <1>1, <1>3 DEF Held
<1> HIDE DEF h
<1>7. step # "idle" => /\ pc'[p] = step /\ Op(p)' = operation'
                       /\ From(p)' = operation'.from /\ To(p)' = operation'.to
  BY <1>1, <1>5, <1>6, HeldAfter
<1>8. Stashed' = Stashed /\ OneEntryEach' /\ NothingElseKept'
  <2>1. Stashed' = Stashed
    BY <1>2 DEF Stashed
  <2> QED
    BY <1>1, <1>2, <1>3, <2>1 DEF Control, OneEntryEach, NothingElseKept
<1>9. ASSUME NEW f \in Snapshots' PROVE f \in Snapshots
  <2>1. f \in Entry /\ \/ f = operation'.stash
                       \/ f = refs'[operation'.id]
                       \/ f \in Stashed' /\ f.owner # 0
                       \/ step # "idle" /\ f = Op(p)'.stash
    BY <1>1, <1>5, SnapshotsAfter
  <2>2. f \in Entry /\ \/ f = operation.stash
                       \/ f = refs[operation.id]
                       \/ f \in Stashed /\ f.owner # 0
    BY <1>2, <1>3, <1>7, <1>8, <2>1
  <2> QED
    BY <1>1, <2>2, SnapshotsOf
<1>10. RecordIsSound'
  BY <1>1, <1>3, <1>4, <1>5, <1>9 DEF Control, RecordIsSound
<1>11. ASSUME step # "idle" PROVE Knows(p)'
  <2>1. HoldsRecord(p)'
    BY <1>1, <1>3, <1>4, <1>5, <1>7, <1>11 DEF Knows, HoldsRecord, Moving, RollingBack, CleaningUp
  <2>2. KnowsContext(p)'
    BY <1>1, <1>3, <1>5, <1>7, <1>11 DEF Knows, KnowsContext, Moving, RollingBack, Looking
  <2>3. KnowsSnapshot(p)'
    BY <1>2, <1>3, <1>4, <1>5, <1>7, <1>11 DEF KnowsSnapshot, RollingBack, Secured
  <2> QED
    BY <2>1, <2>2, <2>3 DEF Knows
<1> QED
  BY <1>1, <1>5, <1>8, <1>10, <1>11, ControlOf

LEMMA MoveControl == ASSUME Control, NEW p \in Processes, MoveStep(p) PROVE Control'
<1>1. TypeOK'
  BY MoveTypeOK DEF Control
<1> QED
  BY <1>1, MoveRecordsControl, StashPushControl, VerifyStashControl, SecureRefControl,
     MarkStashedControl, DropStashControl, ApplyControl, RecordTargetControl DEF MoveStep

\* Steps of a rollback that change the worktrees only.
LEMMA RollbackControl == ASSUME Control, NEW p \in Processes, RollbackStep(p) PROVE Control'
<1>1. TypeOK' /\ TypeOK
  BY RollbackTypeOK DEF Control
<1>2. /\ pc[p] \in RollingBack /\ pc[p] # "idle" /\ pc[p] # "snapshot" /\ Knows(p)
      /\ held[p] \in Held
  <2>1. pc[p] \in RollingBack
    BY DEF RollbackStep, DiscardPartialApply, CompareTrees, ResetTarget, CleaningFails,
           RestoreSource, RestoreSourceFails, ConfirmSource, RollingBack
  <2> QED
    BY <2>1, AloneFacts, HeldType DEF RollingBack
<1>3. UNCHANGED <<stashes, refs, operation, context>>
  BY DEF RollbackStep, DiscardPartialApply, CompareTrees, ResetTarget, CleaningFails,
         RestoreSource, RestoreSourceFails, ConfirmSource, database, git
<1>4. ASSUME NEW step \in RollingBack \cup {"cleanDrop"}, NEW h \in Held, h.op = Op(p),
             Hold(p, step, h) \/ (Goto(p, step) /\ h = held[p])
      PROVE  Control'
  <2>1. /\ pc' = [pc EXCEPT ![p] = step] /\ service' = service /\ pc'[p] = step
        /\ Op(p)' = Op(p) /\ From(p)' = From(p) /\ To(p)' = To(p)
    <3>1. CASE Hold(p, step, h)
      <4>1. h.op.from = From(p) /\ h.op.to = To(p)
        BY <1>4 DEF From, To
      <4> QED
        BY <1>1, <1>4, <3>1, <4>1, HeldAfter
    <3>2. CASE Goto(p, step)
      BY <1>1, <3>2, GotoAfter
    <3> QED
      BY <1>4, <3>1, <3>2
  <2>2. OneEntryEach' /\ NothingElseKept' /\ RecordIsSound'
    BY <1>2, <1>3, <2>1, SameSnapshots
  <2>3. HoldsRecord(p)'
    BY <1>2, <1>3, <2>1 DEF Knows, HoldsRecord, Moving, RollingBack, CleaningUp
  <2>4. KnowsContext(p)'
    BY <1>2, <1>3, <2>1 DEF Knows, KnowsContext, Moving, RollingBack, Looking
  <2>5. KnowsSnapshot(p)'
    BY <1>2, <1>3, <2>1 DEF Knows, KnowsSnapshot, RollingBack, Secured
  <2> QED
    BY <1>1, <1>2, <2>1, <2>2, <2>3, <2>4, <2>5, ControlOf DEF Knows
<1>5. CASE Leave(p)
  BY <1>1, <1>2, <1>3, <1>5, LeaveControl
<1>6. CASE CompareTrees(p)
  <2>1. PICK step \in RollingBack : Hold(p, step, [held[p] EXCEPT !.clean = SourceIsClean(p)])
    BY <1>6 DEF CompareTrees, RollingBack
  <2>2. /\ [held[p] EXCEPT !.clean = SourceIsClean(p)] \in Held
        /\ [held[p] EXCEPT !.clean = SourceIsClean(p)].op = Op(p)
    BY <1>2 DEF Held, Op, SourceIsClean
  <2> QED
    BY <1>4, <2>1, <2>2
<1>7. CASE \E step \in RollingBack \cup {"cleanDrop"} : Goto(p, step)
  BY <1>2, <1>4, <1>7 DEF Op
<1>8. \/ Leave(p) \/ CompareTrees(p)
      \/ \E step \in RollingBack \cup {"cleanDrop"} : Goto(p, step)
  BY DEF RollbackStep, DiscardPartialApply, ResetTarget, CleaningFails,
         RestoreSource, RestoreSourceFails, ConfirmSource, RollingBack
<1> QED
  BY <1>5, <1>6, <1>7, <1>8

LEMMA FindControl ==
    ASSUME Control, NEW p \in Processes, FindNothing(p) \/ FindStash(p), TypeOK'
    PROVE  Control'
<1>1. /\ pc[p] = "find" /\ pc[p] # "idle" /\ Knows(p) /\ TypeOK /\ held[p] \in Held
      /\ operation # None /\ Op(p).id = operation.id /\ Op(p) \in Operation
      /\ Op(p).stash = operation.stash /\ held[p].context = context
      /\ From(p) = operation.from /\ To(p) = operation.to
  <2>1. pc[p] = "find" /\ pc[p] # "idle"
    BY DEF FindNothing, FindStash
  <2> QED
    BY <2>1, AloneFacts, HeldType, RecordFields DEF Knows, HoldsRecord, KnowsContext, Looking
<1>2. stashes \in Seq(Entry) /\ OneEntryEach
  BY <1>1 DEF Control, TypeOK
<1>3. CASE FindNothing(p)
  <2>1. operation.stash = None /\ \A e \in Stashed : e.owner # operation.id
    BY <1>1, <1>2, <1>3, FoundNothing
  <2>2. /\ Leave(p) /\ UNCHANGED <<stashes, refs, context>>
        /\ operation' = None \/ operation' = operation
    BY <1>3 DEF FindNothing, git
  <2>3. CASE operation' = operation
    BY <1>1, <2>2, <2>3, LeaveControl
  <2>4. CASE operation' = None
    <3>1. Stashed' = Stashed
      BY <2>2 DEF Stashed
    <3>2. NothingElseKept' /\ OneEntryEach'
      BY <1>1, <2>1, <2>2, <2>4, <3>1 DEF Control, NothingElseKept, OneEntryEach
    <3>3. RecordIsSound'
      BY <2>4 DEF RecordIsSound
    <3> QED
      BY <1>1, <2>2, <3>2, <3>3, ControlOf DEF Leave, Hold
  <2> QED
    BY <2>2, <2>3, <2>4
<1>4. CASE FindStash(p)
  <2>5. PICK ref \in Resolved(p) :
          /\ Found(p, ref) # None
          /\ \/ Hold(p, "secureAgain", [held[p] EXCEPT !.op.stash = Found(p, ref)])
             \/ Leave(p)
    BY <1>4 DEF FindStash
  <2>1. Found(p, ref) # None /\ UNCHANGED <<stashes, refs, operation, context>>
    BY <1>4, <2>5 DEF FindStash, git, database
  <2>2. /\ Found(p, ref) \in Entry
        /\ \/ Found(p, ref) = operation.stash
           \/ Found(p, ref) = refs[operation.id]
           \/ Found(p, ref) \in Stashed /\ Found(p, ref).owner # 0
    <3>1. /\ \/ Found(p, ref) = operation.stash
             \/ Found(p, ref) = refs[operation.id]
             \/ Found(p, ref) \in Stashed /\ Found(p, ref).owner = operation.id
      BY <1>1, <1>2, <2>1, FoundFacts
    <3>2. operation.id \in Ids /\ operation.id # 0 /\ Stashed \subseteq Entry
      BY <1>1, <1>2, StashTypes, HeldType DEF Ids
    <3>3. refs[operation.id] \in Entry \cup {None} /\ operation.stash \in Entry \cup {None}
      BY <1>1, HeldType
    <3> QED
      BY <2>1, <3>1, <3>2, <3>3
  <2>3. CASE Leave(p)
    BY <1>1, <2>1, <2>3, LeaveControl
  <2>4. CASE Hold(p, "secureAgain", [held[p] EXCEPT !.op.stash = Found(p, ref)])
    <3> DEFINE op == [Op(p) EXCEPT !.stash = Found(p, ref)]
               h == [held[p] EXCEPT !.op.stash = Found(p, ref)]
    <3>1. op \in Operation
      BY <1>1, <2>2 DEF Operation
    <3>2. h \in Held /\ h.op = op /\ Hold(p, "secureAgain", h)
      BY <1>1, <2>4, <3>1 DEF Held, Op
    <3>3. op.from = From(p) /\ op.to = To(p) /\ op.id = Op(p).id /\ op.stash = Found(p, ref)
      BY <1>1 DEF Operation, From, To
    <3>4. op = [operation EXCEPT !.stash = op.stash]
      <4>1. Op(p) = [operation EXCEPT !.stash = Op(p).stash] /\ operation \in Operation
        BY <1>1, RecordFields DEF Knows, HoldsRecord
      <4> QED
        BY <1>1, <3>3, <4>1 DEF Operation
    <3> HIDE DEF op, h
    <3>5. /\ pc' = [pc EXCEPT ![p] = "secureAgain"] /\ service' = service /\ pc'[p] = "secureAgain"
          /\ Op(p)' = op /\ From(p)' = op.from /\ To(p)' = op.to
          /\ held'[p].context = h.context
      BY <1>1, <3>2, HeldAfter
    <3>6. h.context = held[p].context
      BY <1>1 DEF h, Held
    <3>7. Stashed' = Stashed /\ OneEntryEach' /\ NothingElseKept'
      <4>1. Stashed' = Stashed
        BY <2>1 DEF Stashed
      <4> QED
        BY <2>1, <4>1 DEF Control, OneEntryEach, NothingElseKept
    <3>8. ASSUME NEW f \in Snapshots' PROVE f \in Snapshots
      <4>1. f \in Entry /\ \/ f = operation'.stash
                           \/ f = refs'[operation'.id]
                           \/ f \in Stashed' /\ f.owner # 0
                           \/ f = Op(p)'.stash
        BY <1>1, <3>5, SnapshotsAfter
      <4> QED
        BY <1>1, <2>1, <2>2, <3>3, <3>5, <3>7, <4>1, SnapshotsOf
    <3>9. RecordIsSound'
      BY <2>1, <3>8 DEF Control, RecordIsSound
    <3>10. HoldsRecord(p)'
      BY <1>1, <2>1, <3>3, <3>4, <3>5 DEF Knows, HoldsRecord, Moving, RollingBack, CleaningUp
    <3>11. KnowsContext(p)'
      BY <1>1, <2>1, <3>5, <3>6 DEF KnowsContext, Moving, RollingBack, Looking
    <3>12. KnowsSnapshot(p)'
      BY <1>1, <2>1, <2>2, <3>3, <3>5, <3>7 DEF KnowsSnapshot, RollingBack, Secured
    <3> QED
      BY <1>1, <3>5, <3>7, <3>9, <3>10, <3>11, <3>12, ControlOf DEF Knows
  <2> QED
    BY <2>3, <2>4, <2>5
<1> QED
  BY <1>3, <1>4

LEMMA MarkRecoveredControl ==
    ASSUME Control, NEW p \in Processes, MarkRecovered(p), TypeOK' PROVE Control'
<1>1. /\ pc[p] = "markAgain" /\ pc[p] # "idle" /\ Knows(p) /\ TypeOK /\ Recorded(p)
      /\ operation \in Operation /\ Op(p) \in Operation /\ Op(p).id = operation.id
      /\ From(p) = operation.from /\ To(p) = operation.to /\ held[p] \in Held
  BY AloneFacts, HeldType, RecordFields DEF MarkRecovered
<1>2. UNCHANGED <<stashes, refs, context>> /\ operation' = [operation EXCEPT !.stash = Op(p).stash]
  BY <1>1 DEF MarkRecovered, git
<1>3. /\ operation' \in Operation /\ operation'.id = operation.id /\ operation'.stash = Op(p).stash
      /\ operation'.from = operation.from /\ operation'.to = operation.to
      /\ operation' = [operation' EXCEPT !.stash = operation'.stash]
  <2>1. Op(p).stash \in Entry \cup {None}
    BY <1>1 DEF Operation
  <2> QED
    BY <1>1, <1>2, <2>1 DEF Operation
<1>4. /\ operation' # None /\ operation # None /\ Op(p).stash # None
      /\ refs[operation.id] = Op(p).stash /\ held[p].context = context
  BY <1>1, <1>3, NoneAssumption DEF Knows, HoldsRecord, KnowsSnapshot, KnowsContext, Secured, Looking
<1> DEFINE h == [held[p] EXCEPT !.op = operation']
<1>5. PICK step \in {"cleanDrop", "survey", "idle"} :
         /\ pc' = [pc EXCEPT ![p] = step] /\ service' = service
         /\ step = "survey" => context = From(p)
         /\ step # "idle" => Hold(p, step, h)
  BY <1>1, <1>4 DEF MarkRecovered, Leave, Hold
<1>6. h \in Held /\ h.op = operation' /\ h.context = held[p].context
  BY <1>1, <1>3 DEF Held
<1> HIDE DEF h
<1>7. step # "idle" => /\ pc'[p] = step /\ Op(p)' = operation' /\ held'[p].context = h.context
                       /\ From(p)' = operation'.from /\ To(p)' = operation'.to
  BY <1>1, <1>5, <1>6, HeldAfter
<1>8. Stashed' = Stashed /\ OneEntryEach' /\ NothingElseKept'
  <2>1. Stashed' = Stashed
    BY <1>2 DEF Stashed
  <2> QED
    BY <1>2, <1>3, <1>4, <2>1 DEF Control, OneEntryEach, NothingElseKept
<1>9. ASSUME NEW f \in Snapshots' PROVE f \in Snapshots
  <2>1. f \in Entry /\ \/ f = operation'.stash
                       \/ f = refs'[operation'.id]
                       \/ f \in Stashed' /\ f.owner # 0
                       \/ step # "idle" /\ f = Op(p)'.stash
    BY <1>1, <1>5, SnapshotsAfter
  <2>2. f \in Entry /\ \/ f = Op(p).stash
                       \/ f = refs[operation.id]
                       \/ f \in Stashed /\ f.owner # 0
    BY <1>2, <1>3, <1>7, <1>8, <2>1
  <2> QED
    BY <1>1, <2>2, SnapshotsOf
<1>10. RecordIsSound'
  BY <1>2, <1>3, <1>4, <1>9 DEF Control, RecordIsSound
<1>11. ASSUME step # "idle" PROVE Knows(p)'
  <2>1. HoldsRecord(p)'
    BY <1>1, <1>3, <1>4, <1>5, <1>7, <1>11 DEF Knows, HoldsRecord, Moving, RollingBack, CleaningUp
  <2>2. KnowsContext(p)'
    BY <1>1, <1>2, <1>3, <1>4, <1>5, <1>6, <1>7, <1>11 DEF KnowsContext, Moving, RollingBack, Looking
  <2>3. KnowsSnapshot(p)'
    BY <1>2, <1>3, <1>4, <1>5, <1>7, <1>11 DEF KnowsSnapshot, RollingBack, Secured
  <2> QED
    BY <2>1, <2>2, <2>3 DEF Knows
<1> QED
  BY <1>1, <1>5, <1>8, <1>10, <1>11, ControlOf

LEMMA SurveyControl ==
    ASSUME Control, NEW p \in Processes, Survey(p), TypeOK' PROVE Control'
<1>1. pc[p] = "survey" /\ pc[p] # "idle" /\ pc[p] # "snapshot" /\ Knows(p) /\ TypeOK
  BY AloneFacts DEF Survey
<1>2. UNCHANGED <<stashes, refs, operation, context>>
  BY DEF Survey, git, database
<1>3. CASE Goto(p, "cleanDrop")
  <2>1. /\ pc' = [pc EXCEPT ![p] = "cleanDrop"] /\ service' = service /\ pc'[p] = "cleanDrop"
        /\ Op(p)' = Op(p) /\ From(p)' = From(p) /\ To(p)' = To(p)
    BY <1>1, <1>3, GotoAfter
  <2>2. OneEntryEach' /\ NothingElseKept' /\ RecordIsSound'
    BY <1>1, <1>2, <2>1, SameSnapshots
  <2>3. HoldsRecord(p)'
    BY <1>1, <1>2, <2>1 DEF Knows, HoldsRecord, Moving, RollingBack, CleaningUp
  <2>4. KnowsContext(p)' /\ KnowsSnapshot(p)'
    BY <1>1, <1>2, <2>1 DEF Knows, KnowsContext, KnowsSnapshot, Moving, RollingBack, Looking, Secured
  <2> QED
    BY <1>1, <2>1, <2>2, <2>3, <2>4, ControlOf DEF Knows
<1>4. CASE EnterRollback(p, operation, "compare")
  BY <1>1, <1>2, <1>4, EnterRollbackControl
<1>5. CASE Leave(p)
  BY <1>1, <1>2, <1>5, LeaveControl
<1> QED
  BY <1>3, <1>4, <1>5 DEF Survey

LEMMA RecoverControl == ASSUME Control, NEW p \in Processes, RecoverStep(p) PROVE Control'
<1>1. TypeOK'
  BY RecoverTypeOK DEF Control
<1> QED
  BY <1>1, FindControl, MarkRecoveredControl, SurveyControl DEF RecoverStep

LEMMA CleanupControl ==
    ASSUME Control, NEW p \in Processes, DeleteRef(p) \/ DeleteRecord(p) \/ Fails(p), TypeOK'
    PROVE  Control'
<1>1. pc[p] # "idle" /\ TypeOK /\ Knows(p)
  <2>1. pc[p] # "idle"
    BY DEF DeleteRef, DeleteRecord, Fails
  <2> QED
    BY <2>1, AloneFacts
<1>2. CASE DeleteRef(p)
  <2>1. /\ pc[p] = "cleanRef" /\ pc[p] # "snapshot" /\ Op(p).id \in Ids
        /\ operation # None /\ Op(p).id = operation.id
        /\ refs' = [refs EXCEPT ![Op(p).id] = None]
        /\ UNCHANGED <<stashes, operation, context>> /\ Goto(p, "cleanRecord")
    BY <1>1, <1>2, HeldType, RecordFields DEF DeleteRef, database
  <2>2. /\ pc' = [pc EXCEPT ![p] = "cleanRecord"] /\ service' = service /\ pc'[p] = "cleanRecord"
        /\ Op(p)' = Op(p) /\ From(p)' = From(p) /\ To(p)' = To(p)
    BY <1>1, <2>1, GotoAfter
  <2>3. /\ Stashed' = Stashed /\ refs'[Op(p).id] = None
        /\ \A i \in Ids : i # Op(p).id => refs'[i] = refs[i]
    BY <1>1, <2>1 DEF Stashed, TypeOK
  <2>4. OneEntryEach' /\ NothingElseKept'
    BY <2>1, <2>3 DEF Control, OneEntryEach, NothingElseKept
  <2>5. ASSUME NEW f \in Snapshots' PROVE f \in Snapshots
    <3>1. f \in Entry /\ \/ f = operation'.stash
                         \/ f = refs'[operation'.id]
                         \/ f \in Stashed' /\ f.owner # 0
                         \/ f = Op(p)'.stash
      BY <1>1, <2>2, SnapshotsAfter
    <3>2. f \in Entry /\ \/ f = operation.stash
                         \/ f \in Stashed /\ f.owner # 0
                         \/ f = Op(p).stash
      BY <2>1, <2>2, <2>3, <3>1, NoneAssumption
    <3> QED
      BY <1>1, <3>2, SnapshotsOf
  <2>6. RecordIsSound'
    BY <2>1, <2>5 DEF Control, RecordIsSound
  <2>7. HoldsRecord(p)'
    BY <1>1, <2>1, <2>2 DEF Knows, HoldsRecord, Moving, RollingBack, CleaningUp
  <2>8. KnowsContext(p)' /\ KnowsSnapshot(p)'
    BY <1>1, <2>1, <2>2, <2>3
       DEF Knows, KnowsContext, KnowsSnapshot, Moving, RollingBack, Looking, Secured
  <2> QED
    BY <1>1, <2>2, <2>4, <2>6, <2>7, <2>8, ControlOf DEF Knows
<1>3. CASE DeleteRecord(p)
  <2>1. /\ pc[p] = "cleanRecord" /\ operation # None /\ Recorded(p) /\ Op(p).id = operation.id
        /\ Op(p).stash = operation.stash /\ Op(p).stash # None
        /\ operation' = None /\ UNCHANGED <<stashes, refs, context>> /\ Leave(p)
    BY <1>1, <1>3, RecordFields DEF DeleteRecord, git, Knows, HoldsRecord, CleaningUp
  <2>2. refs[operation.id] = None /\ operation.stash \notin Stashed
    BY <1>1, <2>1 DEF Knows, KnowsSnapshot
  <2>3. operation.stash \in Snapshots /\ \A e \in Stashed : e.owner # 0 => e \in Snapshots
    <3>1. operation.stash \in Entry /\ Stashed \subseteq Entry
      BY <1>1, <2>1, StashTypes, HeldType DEF TypeOK
    <3> QED
      BY <1>1, <3>1, SnapshotsOf
  <2>4. \A e \in Stashed : e.owner = 0
    BY <2>1, <2>2, <2>3 DEF Control, RecordIsSound
  <2>5. Stashed' = Stashed
    BY <2>1 DEF Stashed
  <2>6. OneEntryEach' /\ NothingElseKept' /\ RecordIsSound'
    BY <2>1, <2>2, <2>4, <2>5 DEF Control, OneEntryEach, NothingElseKept, RecordIsSound
  <2> QED
    BY <1>1, <2>1, <2>6, ControlOf DEF Leave, Hold
<1>4. CASE Fails(p)
  BY <1>1, <1>4, LeaveControl DEF Fails, git, database
<1> QED
  BY <1>2, <1>3, <1>4

\* What the user does in the worktrees is none of the control's business.
LEMMA SameControl ==
    ASSUME Control, TypeOK', UNCHANGED <<stashes, refs, operation, context, service, pc, held>>
    PROVE  Control'
<1>1. OneEntryEach' /\ Alone' /\ Stashed' = Stashed
  BY DEF Control, OneEntryEach, Alone, Running, Stashed
<1>2. Snapshots' = Snapshots
  BY <1>1 DEF Snapshots, Op
<1>3. NothingElseKept' /\ RecordIsSound'
  BY <1>1, <1>2 DEF Control, NothingElseKept, RecordIsSound
<1>4. ASSUME NEW p \in Processes, pc'[p] # "idle" PROVE Knows(p)'
  <2>1. Knows(p) /\ pc'[p] = pc[p] /\ Op(p)' = Op(p) /\ From(p)' = From(p) /\ To(p)' = To(p)
    BY <1>4 DEF Control, Op, From, To
  <2>2. HoldsRecord(p)'
    BY <2>1 DEF Knows, HoldsRecord
  <2>3. KnowsContext(p)'
    BY <2>1 DEF Knows, KnowsContext
  <2>4. KnowsSnapshot(p)'
    BY <1>1, <2>1 DEF Knows, KnowsSnapshot
  <2> QED
    BY <2>2, <2>3, <2>4 DEF Knows
<1> QED
  BY <1>1, <1>3, <1>4 DEF Control

\* A crash ends what runs; what git and the database hold stays.
LEMMA KillControl == ASSUME Control, Kill, TypeOK' PROVE Control'
<1>1. /\ UNCHANGED <<stashes, refs, operation, context>>
      /\ \A p \in Processes : pc'[p] = "idle"
  BY DEF Kill, git, database
<1>2. OneEntryEach' /\ Alone' /\ Stashed' = Stashed
  BY <1>1 DEF Control, OneEntryEach, Alone, Running, Stashed
<1>3. Snapshots' \subseteq Snapshots
  BY <1>1, <1>2 DEF Snapshots
<1> QED
  BY <1>1, <1>2, <1>3 DEF Control, NothingElseKept, RecordIsSound

LEMMA KilledBeforeSwitchControl ==
    ASSUME Control, NEW p \in Processes, KilledBeforeSwitch(p), TypeOK' PROVE Control'
<1>1. /\ UNCHANGED <<stashes, refs, context>>
      /\ operation' = [operation EXCEPT !.targetTree = Tree(To(p))]
      /\ pc[p] = "record" /\ pc[p] # "idle" /\ pc[p] # "snapshot"
      /\ \A q \in Processes : pc'[q] = "idle"
  BY DEF KilledBeforeSwitch, git
<1>2. /\ operation' # None /\ operation'.id = operation.id /\ operation # None
      /\ operation'.stash = operation.stash /\ operation'.from = operation.from
      /\ operation'.to = operation.to
  BY <1>1, RecordTargetFacts, RecordFields
<1>3. OneEntryEach' /\ Alone' /\ Stashed' = Stashed
  BY <1>1 DEF Control, OneEntryEach, Alone, Running, Stashed
<1>4. Snapshots' \subseteq Snapshots
  BY <1>1, <1>2, <1>3 DEF Snapshots
<1> QED
  BY <1>1, <1>2, <1>3, <1>4 DEF Control, NothingElseKept, RecordIsSound

LEMMA BeginControl ==
    ASSUME Control, ~Running, NEW p \in Processes, BeginRecovery(p), service' # "down",
           UNCHANGED <<git, database>>, TypeOK'
    PROVE  Control'
<1>1. UNCHANGED <<stashes, refs, operation, context>>
  BY DEF git, database
<1>2. /\ TypeOK /\ operation # None /\ \A q \in Processes : pc'[q] # "idle" <=> q = p
      /\ pc'[p] = "find" /\ held'[p] = [op |-> operation, context |-> context, clean |-> FALSE]
  BY DEF Control, BeginRecovery, TypeOK, Running
<1>3. /\ Op(p)' = operation /\ From(p)' = operation.from /\ To(p)' = operation.to
      /\ held'[p].context = context /\ operation \in Operation
  BY <1>2 DEF Op, From, To, TypeOK
<1>4. OneEntryEach' /\ Alone' /\ Stashed' = Stashed
  BY <1>1, <1>2 DEF Control, OneEntryEach, Alone, Running, Stashed
<1>5. ASSUME NEW f \in Snapshots' PROVE f \in Snapshots
  <2>1. f \in Entry /\ \/ f = operation'.stash
                       \/ f = refs'[operation'.id]
                       \/ f \in Stashed' /\ f.owner # 0
                       \/ f = Op(p)'.stash
    BY <1>2 DEF Snapshots
  <2> QED
    BY <1>1, <1>3, <1>4, <2>1 DEF Snapshots
<1>6. NothingElseKept' /\ RecordIsSound'
  BY <1>1, <1>4, <1>5 DEF Control, NothingElseKept, RecordIsSound
<1>7. HoldsRecord(p)'
  <2>1. operation.from # operation.to /\ operation = [operation EXCEPT !.stash = operation.stash]
    BY <1>2, <1>3 DEF Control, RecordIsSound, Operation
  <2> QED
    BY <1>1, <1>2, <1>3, <2>1 DEF HoldsRecord, Moving, RollingBack, CleaningUp
<1>8. KnowsContext(p)' /\ KnowsSnapshot(p)'
  BY <1>1, <1>2, <1>3 DEF KnowsContext, KnowsSnapshot, Moving, RollingBack, Looking, Secured
<1> QED
  BY <1>2, <1>4, <1>6, <1>7, <1>8 DEF Control, Knows

LEMMA HandOffAlone ==
    ASSUME Control, NEW to \in Locations, CanHandOff(to)
    PROVE  ~Running /\ "move" \in Processes
<1>1. ASSUME NEW p \in Processes, pc[p] # "idle" PROVE FALSE
  BY <1>1 DEF CanHandOff, Control, Knows, HoldsRecord
<1> QED
  BY <1>1 DEF Running, Processes

LEMMA BeginsControl ==
    ASSUME Control, RefsAccountedFor, NEW to \in Locations,
           HandoffWithoutChanges(to) \/ MoveBegins(to), TypeOK'
    PROVE  Control'
<1>1. /\ ~Running /\ "move" \in Processes /\ TypeOK /\ operation = None /\ operation' = None
      /\ service # "down" /\ to # context /\ UNCHANGED <<stashes, refs>> /\ service' = service
  BY HandOffAlone
     DEF HandoffWithoutChanges, MoveBegins, CanHandOff, Control, git, database, memory, Hold
<1>2. OneEntryEach' /\ NothingElseKept' /\ RecordIsSound' /\ Stashed' = Stashed
  <2>1. Stashed' = Stashed
    BY <1>1 DEF Stashed
  <2> QED
    BY <1>1, <2>1 DEF Control, OneEntryEach, NothingElseKept, RecordIsSound
<1>3. CASE HandoffWithoutChanges(to)
  <2>1. \A p \in Processes : pc'[p] = "idle"
    BY <1>1, <1>3 DEF HandoffWithoutChanges, memory, Running
  <2> QED
    BY <1>1, <1>2, <2>1 DEF Control, Alone, Running
<1>4. CASE MoveBegins(to)
  <2> DEFINE op == [id |-> handoffs', from |-> context, to |-> to, stash |-> None,
                    sourceHead |-> {}, sourceTree |-> {},
                    targetHead |-> {}, targetTree |-> None]
  <2>1. /\ context' = context /\ held' = [held EXCEPT !["move"] = [op |-> op, context |-> context, clean |-> FALSE]]
        /\ pc' = [pc EXCEPT !["move"] = "snapshot"]
    BY <1>4 DEF MoveBegins, database, Hold
  <2>2. /\ op.stash = None /\ op.targetTree = None /\ op.from = context /\ op.to = to
        /\ op.id = handoffs'
    OBVIOUS
  <2> HIDE DEF op
  <2>7. refs'[op.id] = None
    <3>1. handoffs' = handoffs + 1 /\ handoffs' \in Ids /\ handoffs \in Nat
      BY <1>4, MaxHandoffsAssumption DEF MoveBegins, Control, TypeOK, Ids
    <3>2. ~(handoffs' <= handoffs)
      BY <3>1
    <3> QED
      BY <1>1, <2>2, <3>1, <3>2 DEF RefsAccountedFor
  <2>3. /\ \A q \in Processes : pc'[q] # "idle" <=> q = "move"
        /\ pc'["move"] = "snapshot" /\ held'["move"].op = op
    BY <1>1, <2>1 DEF TypeOK, Running
  <2>4. Op("move")' = op /\ From("move")' = context /\ To("move")' = to
    BY <2>2, <2>3 DEF Op, From, To
  <2>5. Alone'
    BY <1>1, <2>3 DEF Alone, Running
  <2>6. Knows("move")'
    BY <1>1, <2>1, <2>2, <2>3, <2>4, <2>7
       DEF Knows, HoldsRecord, KnowsContext, KnowsSnapshot, Moving, RollingBack, Looking,
           CleaningUp, Secured
  <2> QED
    BY <1>2, <2>3, <2>5, <2>6 DEF Control
<1> QED
  BY <1>3, <1>4

LEMMA InitControl == Init => Control
<1> SUFFICES ASSUME Init PROVE Control
  OBVIOUS
<1>1. TypeOK /\ \A p \in Processes : pc[p] = "idle"
  BY InitTypeOK DEF Init
<1>2. Stashed \subseteq {[owner |-> 0, edits |-> UserStash]} /\ OneEntryEach
  <2>1. CASE UserStash = {}
    <3>1. stashes = <<>> /\ Len(stashes) = 0
      BY <2>1, EmptySeq DEF Init
    <3> QED
      BY <3>1 DEF Stashed, OneEntryEach
  <2>2. CASE UserStash # {}
    <3>1. stashes = <<[owner |-> 0, edits |-> UserStash]>>
      BY <2>2 DEF Init
    <3>2. Len(stashes) = 1 /\ stashes[1] = [owner |-> 0, edits |-> UserStash]
      BY <3>1
    <3> QED
      BY <3>2 DEF Stashed, OneEntryEach
  <2> QED
    BY <2>1, <2>2
<1>3. NothingElseKept /\ RecordIsSound
  BY <1>2 DEF Init, NothingElseKept, RecordIsSound
<1> QED
  BY <1>1, <1>2, <1>3 DEF Control, Alone, Running

LEMMA NextControl ==
    ASSUME "retry" \notin Habits PROVE Control /\ RefsAccountedFor /\ [Next]_vars => Control'
<1> SUFFICES ASSUME Control, RefsAccountedFor, [Next]_vars PROVE Control'
  OBVIOUS
<1>1. TypeOK'
  BY NextTypeOK DEF Control
<1>2. CASE UNCHANGED vars
  BY <1>1, <1>2, SameControl DEF vars, git, database, memory
<1>3. ASSUME NEW x \in Locations, Commit(x) \/ \E e \in Edits : Edit(x, e) PROVE Control'
  BY <1>1, <1>3, SameControl DEF Commit, Edit, database, memory
<1>4. ASSUME NEW p \in Retries, Retry(p) \/ BootRecovers(p) PROVE Control'
  <2>1. ~Running /\ service' # "down"
    BY <1>4 DEF Retry, BootRecovers, Control, Alone
  <2> QED
    BY <1>1, <1>4, <2>1, BeginControl DEF Retry, BootRecovers, Processes
<1>5. CASE Boot \/ Recovered
  <2>1. ~Running /\ UNCHANGED <<stashes, refs, operation, context, pc, held>> /\ service' = "up"
    BY <1>5 DEF Boot, Recovered, Control, Alone, git, database
  <2>2. OneEntryEach' /\ Alone' /\ Stashed' = Stashed
    BY <2>1 DEF Control, OneEntryEach, Alone, Running, Stashed
  <2>3. Snapshots' \subseteq Snapshots
    BY <2>1, <2>2 DEF Snapshots, Running
  <2> QED
    BY <1>1, <2>1, <2>2, <2>3 DEF Control, NothingElseKept, RecordIsSound, Running
<1> QED
  BY <1>1, <1>2, <1>3, <1>4, <1>5, BeginsControl, MoveControl, RollbackControl, RecoverControl,
     CleanupControl, KilledBeforeSwitchControl, KillControl DEF Next

-----------------------------------------------------------------------------
(* The files: the steps that leave the worktrees alone.                    *)

LEMMA HeldSnapshot ==
    ASSUME Control, NEW p \in Processes,
           pc[p] \notin {"idle", "snapshot", "push", "verify", "find"}
    PROVE  Op(p).stash \in Entry /\ Op(p).stash # None /\ Snapshots = {Op(p).stash} /\ operation # None
<1>1. /\ Op(p).stash \in Entry /\ Op(p).stash # None /\ operation # None
  BY AloneFacts, HeldType, RecordFields DEF Knows, HoldsRecord
<1>2. Op(p).stash \in Snapshots
  BY <1>1, SnapshotsOf
<1> QED
  BY <1>1, <1>2 DEF Control, RecordIsSound

LEMMA HeldSnapshotAfter ==
    ASSUME Control, Control', NEW p \in Processes, pc[p] # "idle", NEW step,
           pc' = [pc EXCEPT ![p] = step], step \notin {"idle", "snapshot", "push", "verify", "find"}
    PROVE  /\ Op(p)'.stash \in Entry /\ Op(p)'.stash # None /\ Snapshots' = {Op(p)'.stash}
           /\ operation' # None
<1>1. pc'[p] = step /\ pc'[p] # "idle" /\ Knows(p)'
  BY DEF Control, TypeOK
<1>2. held'[p] \in Held
  BY <1>1 DEF Control, TypeOK
<1>3. Op(p)' \in Operation
  BY <1>2 DEF Op, Held
<1>4. Op(p)'.stash # None /\ operation' # None
  BY <1>1 DEF Knows, HoldsRecord
<1>5. Op(p)'.stash \in Entry
  BY <1>3, <1>4 DEF Operation
<1>6. Op(p)'.stash \in Snapshots'
  BY <1>5, SnapshotsAfter
<1> QED
  BY <1>4, <1>5, <1>6 DEF Control, RecordIsSound

\* The snapshot held outside the record and the ref is in the stash.
LEMMA SnapshotsAtRest ==
    ASSUME \A p \in Processes : pc[p] = "idle"
    PROVE  Snapshots = {e \in Entry : \/ e = operation.stash
                                      \/ e = refs[operation.id]
                                      \/ e \in Stashed /\ e.owner # 0}
BY DEF Snapshots

LEMMA KeepsFiles ==
    ASSUME Control, FilesKept, UNCHANGED <<committed, changes, quiet, exposed, context>>,
           Stashed' \subseteq Stashed,
           operation = None <=> operation' = None,
           operation # None =>
               /\ Snapshots' \subseteq Snapshots
               /\ Snapshots' = {} => operation.sourceTree \subseteq Tree(operation.from)
               /\ operation'.from = operation.from /\ operation'.to = operation.to
               /\ operation'.sourceTree = operation.sourceTree
               /\ operation'.sourceHead = operation.sourceHead
               /\ operation'.targetHead = operation.targetHead
               /\ operation'.targetTree = operation.targetTree
               /\ operation.stash # None => operation'.stash = operation.stash
               /\ \A e \in {operation.stash, refs[operation.id]} \ {None} :
                    e \in {operation'.stash, refs'[operation'.id]}
    PROVE  FilesKept'
<1>1. \A x \in Locations : Tree(x)' = Tree(x)
  BY DEF Tree
<1>2. Used' = Used
  BY DEF Used
<1>3. KnownEdits'
  BY <1>1, <1>2 DEF FilesKept, KnownEdits
<1>4. SnapshotHoldsSource'
  <2>1. operation # None => operation \in Operation /\ operation.from \in Locations
    BY DEF Control, TypeOK, Operation
  <2> QED
    BY <1>1, <2>1 DEF FilesKept, SnapshotHoldsSource
<1>5. TargetHoldsWork'
  <2>1. operation # None => operation \in Operation /\ operation.to \in Locations
    BY DEF Control, TypeOK, Operation
  <2>2. operation # None /\ context = operation.to => operation.stash # None
    BY DEF Control, RecordIsSound
  <2> QED
    BY <1>1, <2>1, <2>2 DEF FilesKept, TargetHoldsWork
<1>6. UserEntryApart'
  <2>1. None \notin Stashed
    BY StashTypes, NoneAssumption DEF Control, TypeOK
  <2> QED
    BY <2>1 DEF FilesKept, UserEntryApart
<1>7. NoCopies'
  BY DEF FilesKept, NoCopies
<1> QED
  BY <1>3, <1>4, <1>5, <1>6, <1>7 DEF FilesKept

LEMMA FilesOf ==
    ASSUME Control, NEW p \in Processes, pc[p] # "idle", NEW step,
           pc' = [pc EXCEPT ![p] = step], FilesKept', step # "idle" => KnowsTrees(p)'
    PROVE  Files'
<1>1. \A q \in Processes : pc'[q] # "idle" => q = p /\ step # "idle"
  BY AloneFacts DEF TypeOK
<1> QED
  BY <1>1 DEF Files

\* A process that ends leaves no work behind that only it knew of.
LEMMA Abandoned ==
    ASSUME Control, FilesKept, NEW p \in Processes, pc[p] # "idle", operation # None,
           \A e \in Entry : ~ (\/ e = operation.stash
                               \/ e = refs[operation.id]
                               \/ e \in Stashed /\ e.owner # 0)
    PROVE  operation.sourceTree \subseteq Tree(operation.from)
<1>1. CASE Snapshots = {}
  BY <1>1 DEF FilesKept, SnapshotHoldsSource
<1>2. CASE Snapshots # {}
  <2>1. PICK e \in Entry : e = Op(p).stash /\ e \in Snapshots /\ e # None
    BY <1>2, SnapshotsOf, NoneAssumption
  <2>2. pc[p] # "snapshot" /\ Op(p).id = operation.id /\ Knows(p)
    BY AloneFacts, RecordFields DEF Knows, HoldsRecord
  <2>3. pc[p] = "secure"
    <3>1. pc[p] \in Steps
      BY DEF Control, TypeOK
    <3> QED
      BY <2>1, <2>2, <3>1
         DEF Knows, HoldsRecord, KnowsSnapshot, Secured, RollingBack, CleaningUp, Steps
  <2>4. e.owner = 0
    BY <2>1, <2>2, <2>3 DEF Knows, KnowsSnapshot
  <2> QED
    BY <2>1, <2>4 DEF FilesKept, SnapshotHoldsSource, Tree
<1> QED
  BY <1>1, <1>2

LEMMA LeaveFiles ==
    ASSUME Control, Files, NEW p \in Processes, pc[p] # "idle", Leave(p),
           UNCHANGED <<git, database, quiet, exposed>>
    PROVE  Files'
<1>1. /\ UNCHANGED <<committed, changes, stashes, refs, operation, context>>
      /\ pc' = [pc EXCEPT ![p] = "idle"]
  BY DEF Leave, Hold, git, database
<1>2. Snapshots' \subseteq Snapshots /\ Stashed' = Stashed
  BY <1>1, SameSnapshots DEF Stashed
<1>3. ASSUME operation # None, Snapshots' = {}
      PROVE  operation.sourceTree \subseteq Tree(operation.from)
  <2>1. \A e \in Entry : ~ (\/ e = operation.stash
                            \/ e = refs[operation.id]
                            \/ e \in Stashed /\ e.owner # 0)
    BY <1>1, <1>2, <1>3, SnapshotsAfter
  <2> QED
    BY <1>3, <2>1, Abandoned DEF Files
<1>4. FilesKept'
  BY <1>1, <1>2, <1>3, KeepsFiles DEF Files
<1> QED
  BY <1>1, <1>4, FilesOf

LEMMA KillFiles == ASSUME Control, Files, Kill PROVE Files'
<1>1. /\ UNCHANGED <<committed, changes, stashes, refs, operation, context, quiet, exposed>>
      /\ \A q \in Processes : pc'[q] = "idle"
  BY DEF Kill, git, database, history
<1>2. /\ Stashed' = Stashed
      /\ Snapshots' = {e \in Entry : \/ e = operation.stash
                                     \/ e = refs[operation.id]
                                     \/ e \in Stashed /\ e.owner # 0}
      /\ Snapshots' \subseteq Snapshots
  BY <1>1 DEF Stashed, Snapshots
<1>3. ASSUME operation # None, Snapshots' = {}
      PROVE  operation.sourceTree \subseteq Tree(operation.from)
  <2>1. CASE Running
    BY <1>2, <1>3, <2>1, Abandoned DEF Running, Files
  <2>2. CASE ~Running
    <3>1. Snapshots = {}
      BY <1>2, <1>3, <2>2, SnapshotsAtRest DEF Running
    <3> QED
      BY <1>3, <3>1 DEF Files, FilesKept, SnapshotHoldsSource
  <2> QED
    BY <2>1, <2>2
<1>4. FilesKept'
  BY <1>1, <1>2, <1>3, KeepsFiles DEF Files
<1> QED
  BY <1>1, <1>4 DEF Files

\* Nothing runs, or a recovery begins.
LEMMA RestFiles ==
    ASSUME Control, Files, ~Running, UNCHANGED <<git, database, quiet, exposed>>,
           \/ UNCHANGED <<pc, held>>
           \/ \E p \in Processes : BeginRecovery(p)
    PROVE  Files'
<1>1. UNCHANGED <<committed, changes, stashes, refs, operation, context, quiet, exposed>>
  BY DEF git, database
<1>2. \A q \in Processes : pc'[q] # "idle" => pc'[q] = "find" /\ Op(q)'.stash = operation.stash
  BY DEF BeginRecovery, Running, Control, TypeOK, Op
<1>3. Stashed' = Stashed /\ Snapshots' = Snapshots
  <2>1. Stashed' = Stashed
    BY <1>1 DEF Stashed
  <2> QED
    BY <1>1, <1>2, <2>1, SnapshotsAtRest DEF Running, Snapshots
<1>4. FilesKept'
  <2>1. operation # None /\ Snapshots' = {} => operation.sourceTree \subseteq Tree(operation.from)
    BY <1>3 DEF Files, FilesKept, SnapshotHoldsSource
  <2> QED
    BY <1>1, <1>3, <2>1, KeepsFiles DEF Files
<1>5. \A q \in Processes : pc'[q] # "idle" => KnowsTrees(q)'
  BY <1>2 DEF KnowsTrees, Moving, CleaningUp
<1> QED
  BY <1>4, <1>5 DEF Files

\* A step of a process that holds the snapshot and leaves the worktrees alone.
LEMMA StepFiles ==
    ASSUME Control, Control', Files, NEW p \in Processes, NEW step,
           pc[p] \notin {"idle", "snapshot", "push", "verify", "find"},
           step \notin {"idle", "snapshot", "push", "verify", "find"},
           pc' = [pc EXCEPT ![p] = step], Op(p)'.stash = Op(p).stash,
           UNCHANGED <<committed, changes, quiet, exposed, context>>,
           Stashed' \subseteq Stashed,
           operation'.from = operation.from, operation'.to = operation.to,
           operation'.sourceTree = operation.sourceTree,
           operation'.sourceHead = operation.sourceHead,
           operation'.targetHead = operation.targetHead,
           operation'.targetTree = operation.targetTree,
           operation.stash # None => operation'.stash = operation.stash,
           operation'.stash = Op(p).stash \/ refs'[operation'.id] = Op(p).stash,
           KnowsTrees(p)'
    PROVE  Files'
<1>1. /\ Snapshots = {Op(p).stash} /\ Snapshots' = Snapshots /\ operation # None /\ operation' # None
      /\ TypeOK /\ Op(p).stash # None
  BY HeldSnapshot, HeldSnapshotAfter DEF Control
<1>2. \A e \in {operation.stash, refs[operation.id]} \ {None} : e = Op(p).stash
  <2>1. refs[operation.id] \in Entry \cup {None} /\ operation.stash \in Entry \cup {None}
    BY <1>1 DEF TypeOK, Operation
  <2> QED
    BY <1>1, <2>1, SnapshotsOf
<1>3. FilesKept'
  BY <1>1, <1>2, KeepsFiles DEF Files
<1> QED
  BY <1>3, FilesOf

LEMMA SecureRefFiles ==
    ASSUME Control, Control', Files, NEW p \in Processes, SecureRef(p) PROVE Files'
<1>1. /\ pc[p] \in {"secure", "secureAgain"} /\ TypeOK /\ Op(p).id \in Ids
      /\ KnowsTrees(p) /\ Op(p).id = operation.id /\ held[p] \in Held
  BY HeldType, RecordFields DEF SecureRef, Files, Control
<1>2. /\ UNCHANGED <<committed, changes, stashes, operation, context, quiet, exposed>>
      /\ refs' = [refs EXCEPT ![Op(p).id] = Op(p).stash]
      /\ Goto(p, IF pc[p] = "secure" THEN "mark" ELSE "dropAgain")
  BY DEF SecureRef, database, history
<1>3. PICK step \in {"mark", "dropAgain"} : Goto(p, step) /\ (step = "mark" => pc[p] = "secure")
  BY <1>1, <1>2
<1>4. /\ pc' = [pc EXCEPT ![p] = step] /\ pc'[p] = step
      /\ Op(p)' = Op(p) /\ From(p)' = From(p) /\ To(p)' = To(p)
  BY <1>1, <1>3, GotoAfter
<1>5. /\ Stashed' = Stashed /\ refs'[operation'.id] = Op(p).stash
      /\ \A x \in Locations : Tree(x)' = Tree(x)
  BY <1>1, <1>2 DEF Stashed, Tree, TypeOK
<1>6. KnowsTrees(p)'
  BY <1>1, <1>2, <1>3, <1>4, <1>5, HeldType DEF KnowsTrees, Moving, CleaningUp
<1> QED
  BY <1>1, <1>2, <1>4, <1>5, <1>6, StepFiles

LEMMA MarkFiles ==
    ASSUME Control, Control', Files, NEW p \in Processes, MarkStashed(p) \/ MarkRecovered(p)
    PROVE  Files'
<1>1. /\ pc[p] \in {"mark", "markAgain"} /\ pc[p] # "idle" /\ TypeOK /\ KnowsTrees(p) /\ Recorded(p)
      /\ held[p] \in Held /\ operation \in Operation /\ operation # None
      /\ Op(p).id = operation.id /\ From(p) = operation.from /\ To(p) = operation.to
      /\ From(p) \in Locations /\ To(p) \in Locations /\ From(p) # To(p)
      /\ Op(p).stash \in Entry \cup {None} /\ refs[operation.id] = Op(p).stash
  <2>1. pc[p] \in {"mark", "markAgain"}
    BY DEF MarkStashed, MarkRecovered
  <2> QED
    BY <2>1, HeldType, RecordFields, AloneFacts
       DEF Files, Control, Knows, KnowsSnapshot, HoldsRecord, Secured
<1>2. /\ UNCHANGED <<committed, changes, stashes, refs, context, quiet, exposed>>
      /\ operation' = [operation EXCEPT !.stash = Op(p).stash]
  BY <1>1 DEF MarkStashed, MarkRecovered, git, history
<1>3. /\ operation' \in Operation /\ operation'.id = operation.id /\ operation'.stash = Op(p).stash
      /\ operation'.from = operation.from /\ operation'.to = operation.to
      /\ operation'.sourceTree = operation.sourceTree
      /\ operation'.sourceHead = operation.sourceHead
      /\ operation'.targetHead = operation.targetHead
      /\ operation'.targetTree = operation.targetTree
  BY <1>1, <1>2 DEF Operation
<1>4. operation.stash # None => operation.stash = Op(p).stash
  <2>1. operation.stash \in Entry \cup {None} /\ Snapshots = {Op(p).stash}
    BY <1>1, HeldSnapshot DEF Operation
  <2> QED
    BY <1>1, <2>1, SnapshotsOf
<1>5. Stashed' = Stashed /\ \A x \in Locations : Tree(x)' = Tree(x)
  BY <1>1, <1>2 DEF Stashed, Tree
<1>6. operation' # None
  BY <1>3, NoneAssumption
<1>7. CASE pc[p] = "mark"
  <2>1. Goto(p, "drop")
    BY <1>1, <1>7 DEF MarkStashed, MarkRecovered
  <2>2. /\ pc' = [pc EXCEPT ![p] = "drop"] /\ pc'[p] = "drop"
        /\ Op(p)' = Op(p) /\ From(p)' = From(p) /\ To(p)' = To(p)
    BY <1>1, <2>1, GotoAfter
  <2>3. KnowsTrees(p)'
    BY <1>1, <1>2, <1>3, <1>5, <1>7, <2>2 DEF KnowsTrees, Moving, CleaningUp
  <2> QED
    BY <1>1, <1>2, <1>3, <1>4, <1>5, <1>7, <2>2, <2>3, StepFiles
<1>8. CASE pc[p] = "markAgain"
  <2> DEFINE h == [held[p] EXCEPT !.op = operation']
  <2>1. PICK step \in {"cleanDrop", "survey", "idle"} :
           /\ pc' = [pc EXCEPT ![p] = step]
           /\ step = "cleanDrop" => context = To(p)
           /\ step # "idle" => Hold(p, step, h)
    <3>1. held[p].context = context
      BY <1>1, <1>8, AloneFacts DEF Knows, KnowsContext, Looking
    <3> QED
      BY <1>1, <1>8, <3>1 DEF MarkRecovered, MarkStashed, Leave, Hold
  <2>2. h \in Held /\ h.op = operation'
    BY <1>1, <1>3 DEF Held
  <2> HIDE DEF h
  <2>3. step # "idle" => /\ pc'[p] = step /\ Op(p)' = operation'
                         /\ From(p)' = operation'.from /\ To(p)' = operation'.to
    BY <1>1, <2>1, <2>2, HeldAfter
  <2>4. CASE step = "idle"
    <3>1. Snapshots' = {Op(p).stash}
      <4>1. Op(p).stash \in Entry /\ Op(p).stash \in Snapshots'
        BY <1>1, <1>3, <2>1, HeldSnapshot, SnapshotsAfter
      <4> QED
        BY <1>6, <4>1 DEF Control, RecordIsSound
    <3>2. Snapshots = {Op(p).stash}
      BY <1>1, HeldSnapshot
    <3>3. FilesKept'
      BY <1>1, <1>2, <1>3, <1>4, <1>5, <1>6, <3>1, <3>2, KeepsFiles DEF Files
    <3> QED
      BY <1>1, <2>1, <2>4, <3>3, FilesOf
  <2>5. CASE step # "idle"
    <3>1. KnowsTrees(p)'
      BY <1>1, <1>2, <1>3, <2>1, <2>3, <2>5 DEF KnowsTrees, Moving, CleaningUp
    <3> QED
      BY <1>1, <1>2, <1>3, <1>4, <1>5, <1>8, <2>1, <2>3, <2>5, <3>1, StepFiles
  <2> QED
    BY <2>4, <2>5
<1> QED
  BY <1>1, <1>7, <1>8

LEMMA DropFiles ==
    ASSUME Control, Control', Files, NEW p \in Processes, DropStash(p) \/ DeleteRef(p)
    PROVE  Files'
<1>1. /\ pc[p] \in {"drop", "dropAgain", "cleanDrop", "cleanRef"} /\ TypeOK /\ KnowsTrees(p)
      /\ Op(p).id \in Ids /\ Op(p).id = operation.id /\ Knows(p) /\ pc[p] # "idle"
      /\ From(p) \in Locations /\ To(p) \in Locations
      /\ UNCHANGED <<committed, changes, operation, context, quiet, exposed>>
  <2>1. pc[p] \in {"drop", "dropAgain", "cleanDrop", "cleanRef"}
    BY DEF DropStash, DeleteRef
  <2> QED
    BY <2>1, HeldType, RecordFields DEF Files, Control, DropStash, DeleteRef, database, history
<1>2. PICK step \in {"apply", "markAgain", "cleanRef", "cleanRecord"} :
         /\ Goto(p, step)
         /\ step = "apply" <=> pc[p] = "drop"
         /\ step = "markAgain" <=> pc[p] = "dropAgain"
         /\ step = "cleanRef" <=> pc[p] = "cleanDrop"
  BY DEF DropStash, DeleteRef
<1>3. /\ pc' = [pc EXCEPT ![p] = step] /\ pc'[p] = step
      /\ Op(p)' = Op(p) /\ From(p)' = From(p) /\ To(p)' = To(p)
  BY <1>1, <1>2, GotoAfter
<1>4. /\ Stashed' \subseteq Stashed
      /\ operation.stash = Op(p).stash \/ refs'[operation.id] = Op(p).stash
  <2>1. CASE DropStash(p)
    <3>1. stashes \in Seq(Entry) /\ OneEntryEach /\ stashes' = Dropped(Op(p).stash) /\ refs' = refs
      BY <1>1, <2>1 DEF Control, TypeOK, DropStash
    <3> QED
      BY <1>1, <3>1, DropFacts DEF Knows, KnowsSnapshot, Secured
  <2>2. CASE DeleteRef(p)
    BY <1>1, <2>2 DEF DeleteRef, Stashed, Knows, HoldsRecord, CleaningUp
  <2> QED
    BY <2>1, <2>2
<1>5. KnowsTrees(p)'
  <2>1. \A x \in Locations : Tree(x)' = Tree(x)
    BY <1>1 DEF Tree
  <2> QED
    BY <1>1, <1>2, <1>3, <2>1 DEF KnowsTrees, Moving, CleaningUp
<1> QED
  BY <1>1, <1>2, <1>3, <1>4, <1>5, StepFiles

LEMMA FindFiles ==
    ASSUME Control, Control', Files, NEW p \in Processes, FindNothing(p) \/ FindStash(p)
    PROVE  Files'
<1>1. /\ pc[p] = "find" /\ pc[p] # "idle" /\ Knows(p) /\ TypeOK /\ held[p] \in Held
      /\ operation # None /\ Op(p).id = operation.id /\ Op(p) \in Operation
      /\ Op(p).stash = operation.stash
  <2>1. pc[p] = "find" /\ pc[p] # "idle"
    BY DEF FindNothing, FindStash
  <2> QED
    BY <2>1, AloneFacts, HeldType, RecordFields DEF Knows, HoldsRecord
<1>2. /\ UNCHANGED <<committed, changes, stashes, refs, context, quiet, exposed>>
      /\ stashes \in Seq(Entry) /\ OneEntryEach /\ Stashed' = Stashed
  BY <1>1 DEF FindNothing, FindStash, git, history, database, Control, TypeOK, Stashed
<1>3. CASE Leave(p) /\ UNCHANGED operation
  BY <1>1, <1>2, <1>3, LeaveFiles DEF git, database
<1>4. CASE FindNothing(p) /\ operation' = None
  <2>1. operation.stash = None
    BY <1>1, <1>2, <1>4, FoundNothing
  <2>2. KnownEdits' /\ SnapshotHoldsSource' /\ TargetHoldsWork'
    <3>1. \A x \in Locations : Tree(x)' = Tree(x)
      BY <1>2 DEF Tree
    <3>2. Used' = Used
      BY <1>2 DEF Used
    <3> QED
      BY <1>2, <1>4, <3>1, <3>2
         DEF Files, FilesKept, KnownEdits, SnapshotHoldsSource, TargetHoldsWork
  <2>3. UserEntryApart'
    <3>1. None \notin Stashed
      BY <1>2, StashTypes, NoneAssumption
    <3> QED
      BY <1>2, <1>4, <2>1, <3>1 DEF Files, FilesKept, UserEntryApart
  <2>4. NoCopies'
    BY <1>2 DEF Files, FilesKept, NoCopies
  <2> QED
    BY <1>1, <1>4, <2>2, <2>3, <2>4, FilesOf DEF FilesKept, FindNothing, Leave, Hold
<1>5. ASSUME NEW ref \in Resolved(p), FindStash(p), Found(p, ref) # None,
             Hold(p, "secureAgain", [held[p] EXCEPT !.op.stash = Found(p, ref)])
      PROVE  Files'
  <2>1. /\ Found(p, ref) # None /\ UNCHANGED operation
        /\ \/ Found(p, ref) = operation.stash
           \/ Found(p, ref) = refs[operation.id]
           \/ Found(p, ref) \in Stashed /\ Found(p, ref).owner = operation.id
    BY <1>1, <1>2, <1>5, FoundFacts DEF FindStash, database
  <2>2. Found(p, ref) \in Entry /\ Found(p, ref) \in Snapshots
    <3>1. operation.id \in Ids /\ operation.id # 0 /\ Stashed \subseteq Entry
      BY <1>1, <1>2, StashTypes, HeldType DEF Ids
    <3>2. refs[operation.id] \in Entry \cup {None} /\ operation.stash \in Entry \cup {None}
      BY <1>1, HeldType
    <3> QED
      BY <1>1, <2>1, <3>1, <3>2, SnapshotsOf
  <2> DEFINE op == [Op(p) EXCEPT !.stash = Found(p, ref)]
             h == [held[p] EXCEPT !.op.stash = Found(p, ref)]
  <2>3. op \in Operation /\ op.stash = Found(p, ref)
    BY <1>1, <2>2 DEF Operation
  <2>4. h \in Held /\ h.op = op /\ Hold(p, "secureAgain", h)
    BY <1>1, <1>5, <2>3 DEF Held, Op
  <2> HIDE DEF op, h
  <2>5. /\ pc' = [pc EXCEPT ![p] = "secureAgain"] /\ pc'[p] = "secureAgain" /\ Op(p)' = op
    BY <1>1, <2>4, HeldAfter
  <2>6. Snapshots' = {Found(p, ref)} /\ Snapshots = {Found(p, ref)}
    <3>1. Snapshots' = {Op(p)'.stash}
      BY <1>1, <2>5, HeldSnapshotAfter
    <3> QED
      BY <1>1, <2>2, <2>3, <2>5, <3>1 DEF Control, RecordIsSound
  <2>7. FilesKept'
    BY <1>1, <1>2, <2>1, <2>6, KeepsFiles DEF Files
  <2>8. KnowsTrees(p)'
    BY <2>5 DEF KnowsTrees, Moving, CleaningUp
  <2> QED
    BY <1>1, <2>5, <2>7, <2>8, FilesOf
<1> QED
  BY <1>2, <1>3, <1>4, <1>5 DEF FindNothing, FindStash, database

\* Reading the worktrees decides how a rollback goes on.
LEMMA DecideFiles ==
    ASSUME Control, Control', Files, NEW p \in Processes,
           Survey(p) \/ CompareTrees(p) \/ ConfirmSource(p)
    PROVE  Files'
<1>1. /\ pc[p] \in {"survey", "compare", "confirm"} /\ pc[p] # "idle" /\ Knows(p) /\ KnowsTrees(p)
      /\ TypeOK /\ held[p] \in Held /\ operation # None /\ operation \in Operation
      /\ Op(p).sourceTree = operation.sourceTree /\ Op(p).targetHead = operation.targetHead
      /\ Op(p).targetTree = operation.targetTree /\ Op(p).stash = operation.stash
      /\ From(p) = operation.from /\ To(p) = operation.to
      /\ From(p) \in Locations /\ To(p) \in Locations /\ context = From(p) /\ From(p) # To(p)
      /\ Tree(To(p)) \in SUBSET Edits /\ Op(p) \in Operation /\ operation.stash # None
  <2>1. pc[p] \in {"survey", "compare", "confirm"}
    BY DEF Survey, CompareTrees, ConfirmSource
  <2> QED
    BY <2>1, AloneFacts, HeldType, RecordFields
       DEF Files, Knows, HoldsRecord, KnowsContext, RollingBack
<1>2. /\ UNCHANGED <<committed, changes, stashes, refs, operation, context, quiet, exposed>>
      /\ Stashed' = Stashed /\ \A x \in Locations : Tree(x)' = Tree(x)
  BY DEF Survey, CompareTrees, ConfirmSource, git, database, history, Stashed, Tree
<1>3. TargetIsClean(p) => changes[To(p)] = {}
  BY <1>1 DEF TargetIsClean, Tree, Files, FilesKept, KnownEdits, TargetHoldsWork
<1>4. ASSUME NEW step \in {"cleanDrop", "reset", "restore", "confirm", "compare"}, NEW h \in Held,
             Hold(p, step, h), h.op.stash = operation.stash, h.op.from = From(p), h.op.to = To(p),
             step = "reset" =>
               Tree(To(p)) \cap quiet \subseteq committed[To(p)] \cup operation.stash.edits,
             step \in {"restore", "confirm", "cleanDrop"} =>
               changes[To(p)] \cap operation.stash.edits = {},
             step = "cleanDrop" => operation.sourceTree \subseteq Tree(From(p))
      PROVE  Files'
  <2>1. /\ pc' = [pc EXCEPT ![p] = step] /\ pc'[p] = step
        /\ Op(p)'.stash = operation.stash /\ From(p)' = From(p) /\ To(p)' = To(p)
    BY <1>1, <1>4, HeldAfter
  <2>2. KnowsTrees(p)'
    BY <1>1, <1>2, <1>4, <2>1 DEF KnowsTrees, Moving, CleaningUp
  <2> QED
    BY <1>1, <1>2, <2>1, <2>2, StepFiles
<1>5. CASE Leave(p)
  BY <1>1, <1>2, <1>5, LeaveFiles DEF git, database
<1>6. CASE EnterRollback(p, operation, "compare")
  <2> DEFINE h == [held[p] EXCEPT !.op = operation]
  <2>1. h \in Held /\ h.op = operation
    BY <1>1 DEF Held
  <2>2. Hold(p, "compare", h) \/ Leave(p)
    BY <1>6 DEF EnterRollback
  <2> HIDE DEF h
  <2> QED
    BY <1>1, <1>4, <1>5, <2>1, <2>2
<1>7. ASSUME Goto(p, "cleanDrop"), SourceIsOriginal(p), TargetIsClean(p) \/ pc[p] = "confirm"
      PROVE  Files'
  <2>2. /\ pc' = [pc EXCEPT ![p] = "cleanDrop"] /\ pc'[p] = "cleanDrop"
        /\ Op(p)' = Op(p) /\ From(p)' = From(p) /\ To(p)' = To(p)
    BY <1>1, <1>7, GotoAfter
  <2>3. changes[To(p)] \cap operation.stash.edits = {} /\ operation.sourceTree \subseteq Tree(From(p))
    BY <1>1, <1>3, <1>7 DEF SourceIsOriginal, KnowsTrees
  <2>4. KnowsTrees(p)'
    BY <1>1, <1>2, <2>2, <2>3 DEF KnowsTrees, Moving, CleaningUp
  <2> QED
    BY <1>1, <1>2, <2>2, <2>4, StepFiles
<1>8. CASE CompareTrees(p)
  <2>1. PICK step \in {"reset", "restore", "confirm"} :
          /\ Hold(p, step, [held[p] EXCEPT !.clean = SourceIsClean(p)])
          /\ step = "reset" => ~TargetIsClean(p)
          /\ step # "reset" => TargetIsClean(p)
    BY <1>8 DEF CompareTrees
  <2> DEFINE h == [held[p] EXCEPT !.clean = SourceIsClean(p)]
  <2>2. h \in Held /\ h.op = Op(p) /\ Hold(p, step, h)
    BY <1>1, <2>1 DEF Held, Op, SourceIsClean
  <2> HIDE DEF h
  <2>3. h.op.from = From(p) /\ h.op.to = To(p) /\ h.op.stash = operation.stash
    BY <1>1, <2>2 DEF From, To
  <2>4. ASSUME step = "reset"
        PROVE  Tree(To(p)) \cap quiet \subseteq committed[To(p)] \cup operation.stash.edits
    <3>1. TargetIsApplied(p)
      BY <1>8, <2>1, <2>4 DEF CompareTrees
    <3>2. Tree(To(p)) = operation.targetTree /\ operation.targetTree # None
      BY <1>1, <3>1, NoneAssumption DEF TargetIsApplied
    <3> QED
      BY <1>1, <3>2 DEF Files, FilesKept, TargetHoldsWork
  <2> QED
    BY <1>3, <1>4, <2>1, <2>2, <2>3, <2>4
<1> QED
  BY <1>1, <1>5, <1>6, <1>7, <1>8 DEF Survey, ConfirmSource

-----------------------------------------------------------------------------
(* The files: the steps that change the worktrees.                         *)

\* Some of the uncommitted changes of a worktree are removed.
LEMMA LessChanges ==
    ASSUME TypeOK, NEW x \in Locations, Clean(x) \/ CleanInPart(x), committed' = committed
    PROVE  /\ \A y \in Locations : y # x => changes'[y] = changes[y] /\ Tree(y)' = Tree(y)
           /\ changes'[x] \subseteq changes[x] /\ Tree(x)' \subseteq Tree(x)
           /\ Clean(x) => changes'[x] = {}
<1>1. PICK left \in SUBSET changes[x] :
         changes' = [changes EXCEPT ![x] = left] /\ (Clean(x) => left = {})
  BY DEF Clean, CleanInPart
<1> QED
  BY <1>1 DEF TypeOK, Tree

\* Edits are brought into a worktree.
LEMMA MoreChanges ==
    ASSUME TypeOK, NEW x \in Locations, NEW edits, Brings(x, edits), committed' = committed
    PROVE  /\ \A y \in Locations : y # x => changes'[y] = changes[y] /\ Tree(y)' = Tree(y)
           /\ changes'[x] = changes[x] \cup (edits \ committed[x])
           /\ Tree(x)' = Tree(x) \cup edits
BY DEF TypeOK, Brings, Tree

\* A worktree that is cleaned while the conversation and the record hold the snapshot.
LEMMA CleanTarget ==
    ASSUME Control, Control', Files, operation # None, operation.stash # None,
           context = operation.from, Clean(operation.to) \/ CleanInPart(operation.to),
           UNCHANGED <<committed, stashes, refs, operation, context, quiet, exposed>>,
           Snapshots' \subseteq Snapshots
    PROVE  FilesKept'
<1>1. /\ operation \in Operation /\ operation.from \in Locations /\ operation.to \in Locations
      /\ operation.from # operation.to /\ TypeOK /\ operation.stash \in Entry
  BY DEF Control, TypeOK, RecordIsSound, Operation
<1>2. /\ \A y \in Locations : changes'[y] \subseteq changes[y] /\ Tree(y)' \subseteq Tree(y)
      /\ Tree(operation.from)' = Tree(operation.from)
  BY <1>1, LessChanges
<1>3. Stashed' = Stashed /\ Used' = Used /\ operation.stash \in Snapshots'
  <2>1. Stashed' = Stashed /\ Used' = Used
    BY DEF Stashed, Used
  <2> QED
    BY <1>1, <2>1 DEF Snapshots
<1>4. KnownEdits'
  BY <1>2, <1>3 DEF Files, FilesKept, KnownEdits
<1>5. SnapshotHoldsSource'
  BY <1>1, <1>2, <1>3 DEF Files, FilesKept, SnapshotHoldsSource
<1>6. TargetHoldsWork'
  BY <1>1, <1>2 DEF Files, FilesKept, TargetHoldsWork
<1>7. UserEntryApart'
  BY <1>2, <1>3 DEF Files, FilesKept, UserEntryApart
<1>8. NoCopies'
  BY <1>2 DEF Files, FilesKept, NoCopies
<1> QED
  BY <1>4, <1>5, <1>6, <1>7, <1>8 DEF FilesKept

\* A part of the snapshot is brought to the target, or back to the source.
LEMMA BringSnapshot ==
    ASSUME Control, Control', Files, operation # None, operation.stash # None,
           context = operation.from, NEW x \in {operation.from, operation.to},
           NEW part \in SUBSET operation.stash.edits, Brings(x, part),
           \A y \in {operation.from, operation.to} :
             y # x => changes[y] \cap operation.stash.edits = {},
           x = operation.to =>
             committed[operation.from] \cap operation.stash.edits \cap quiet = {},
           UNCHANGED <<committed, stashes, refs, operation, context, quiet, exposed>>,
           Snapshots' \subseteq Snapshots
    PROVE  FilesKept'
<1>1. /\ operation \in Operation /\ operation.from \in Locations /\ operation.to \in Locations
      /\ operation.from # operation.to /\ TypeOK /\ operation.stash \in Entry
  BY DEF Control, TypeOK, RecordIsSound, Operation
<1>2. Stashed' = Stashed /\ Used' = Used /\ operation.stash \in Snapshots' /\ operation.stash \in Snapshots
  <2>1. Stashed' = Stashed /\ Used' = Used
    BY DEF Stashed, Used
  <2> QED
    BY <1>1, <2>1 DEF Snapshots
<1>3. /\ \A y \in Locations : y # x => changes'[y] = changes[y] /\ Tree(y)' = Tree(y)
      /\ changes'[x] = changes[x] \cup (part \ committed[x]) /\ Tree(x)' = Tree(x) \cup part
      /\ x \in Locations
  BY <1>1, MoreChanges
<1>4. KnownEdits'
  <2>1. \A y \in Locations : Tree(y)' \subseteq Used /\ committed[y] \cap changes'[y] = {}
    BY <1>2, <1>3 DEF Files, FilesKept, KnownEdits
  <2> QED
    BY <1>2, <2>1 DEF Files, FilesKept, KnownEdits
<1>5. SnapshotHoldsSource'
  BY <1>1, <1>2, <1>3 DEF Files, FilesKept, SnapshotHoldsSource
<1>6. TargetHoldsWork'
  <2>1. changes[operation.to] \cap committed[operation.from] \cap quiet = {}
    BY DEF Files, FilesKept, TargetHoldsWork
  <2>2. changes'[operation.to] \cap committed[operation.from] \cap quiet = {}
    BY <1>1, <1>3, <2>1
  <2> QED
    BY <1>1, <2>2 DEF Files, FilesKept, TargetHoldsWork
<1>7. UserEntryApart'
  <2> SUFFICES ASSUME NEW e \in Stashed, e.owner = 0, e # operation.stash
               PROVE  /\ \A y \in Locations : changes'[y] \cap UserStash = {}
                      /\ \A f \in Snapshots \ {e} : f.edits \cap UserStash = {}
    BY <1>2 DEF UserEntryApart
  <2>1. /\ \A y \in Locations : changes[y] \cap UserStash = {}
        /\ \A f \in Snapshots \ {e} : f.edits \cap UserStash = {}
    BY DEF Files, FilesKept, UserEntryApart
  <2>2. operation.stash.edits \cap UserStash = {}
    BY <1>2, <2>1
  <2> QED
    BY <1>3, <2>1, <2>2
<1>8. NoCopies'
  <2>1. \A y \in Locations : y # x => changes[y] \cap operation.stash.edits = {}
    BY <1>1, <1>2 DEF Files, FilesKept, SnapshotHoldsSource
  <2>2. \A y \in Locations : y # x => changes'[y] \cap changes'[x] = {}
    BY <1>3, <2>1 DEF Files, FilesKept, NoCopies
  <2> QED
    BY <1>3, <2>2 DEF Files, FilesKept, NoCopies
<1> QED
  BY <1>4, <1>5, <1>6, <1>7, <1>8 DEF FilesKept

\* What a process knows that changes the worktrees of a snapshot it secured.
LEMMA WorkFacts ==
    ASSUME Control, Files, NEW p \in Processes, pc[p] \in {"apply", "record"} \cup RollingBack
    PROVE  /\ pc[p] # "idle" /\ Knows(p) /\ KnowsTrees(p) /\ TypeOK /\ held[p] \in Held
           /\ operation # None /\ operation \in Operation /\ Op(p).id = operation.id
           /\ Op(p).stash = operation.stash /\ operation.stash # None /\ operation.stash \in Entry
           /\ refs[operation.id] = operation.stash /\ operation.stash \in Snapshots
           /\ From(p) = operation.from /\ To(p) = operation.to /\ context = operation.from
           /\ From(p) \in Locations /\ To(p) \in Locations /\ From(p) # To(p)
<1>1. /\ pc[p] # "idle" /\ Knows(p) /\ KnowsTrees(p) /\ TypeOK /\ held[p] \in Held
      /\ operation # None /\ operation \in Operation /\ Op(p).id = operation.id
      /\ From(p) = operation.from /\ To(p) = operation.to
      /\ From(p) \in Locations /\ To(p) \in Locations
  BY AloneFacts, HeldType, RecordFields DEF RollingBack, Files
<1>2. /\ Op(p).stash = operation.stash /\ operation.stash # None /\ From(p) # To(p)
      /\ context = operation.from /\ refs[operation.id] = operation.stash
  BY <1>1 DEF Knows, HoldsRecord, KnowsContext, KnowsSnapshot, Secured, RollingBack, Moving
<1>3. operation.stash \in Entry
  BY <1>1, <1>2 DEF Operation
<1> QED
  BY <1>1, <1>2, <1>3 DEF Snapshots

LEMMA CleanFiles ==
    ASSUME Control, Control', Files, NEW p \in Processes,
           DiscardPartialApply(p) \/ ResetTarget(p) \/ CleaningFails(p)
    PROVE  Files'
<1>1. /\ pc[p] \in {"discard", "reset"} /\ UNCHANGED <<committed, stashes, refs, operation, context, quiet, exposed>>
      /\ Clean(To(p)) \/ CleanInPart(To(p))
  BY DEF DiscardPartialApply, ResetTarget, CleaningFails, database, history
<1>2. /\ pc[p] # "idle" /\ Knows(p) /\ KnowsTrees(p) /\ TypeOK
      /\ operation # None /\ operation.stash # None
      /\ From(p) = operation.from /\ To(p) = operation.to /\ context = operation.from
      /\ To(p) \in Locations
  BY <1>1, WorkFacts DEF RollingBack
<1>3. \/ Leave(p)
      \/ /\ Clean(To(p)) /\ \E step \in {"compare", "restore", "confirm"} : Goto(p, step)
  BY DEF DiscardPartialApply, ResetTarget, CleaningFails
<1>4. PICK step \in {"compare", "restore", "confirm", "idle"} :
         /\ pc' = [pc EXCEPT ![p] = step] /\ pc'[p] = step
         /\ step # "idle" => /\ Op(p)' = Op(p) /\ To(p)' = To(p) /\ From(p)' = From(p)
                             /\ Clean(To(p))
  <2>1. CASE Leave(p)
    BY <1>2, <2>1 DEF Leave, Hold, TypeOK
  <2>2. ASSUME NEW step \in {"compare", "restore", "confirm"}, Goto(p, step)
        PROVE  /\ pc' = [pc EXCEPT ![p] = step] /\ pc'[p] = step
               /\ Op(p)' = Op(p) /\ To(p)' = To(p) /\ From(p)' = From(p)
    BY <1>2, <2>2, GotoAfter
  <2> QED
    BY <1>3, <2>1, <2>2
<1>5. Snapshots' \subseteq Snapshots
  BY <1>1, <1>2, <1>4, SameSnapshots
<1>6. FilesKept'
  BY <1>1, <1>2, <1>5, CleanTarget
<1>7. step # "idle" => KnowsTrees(p)'
  <2>1. Clean(To(p)) => changes'[To(p)] = {}
    BY <1>1, <1>2, LessChanges
  <2> QED
    BY <1>4, <2>1 DEF KnowsTrees, Moving, CleaningUp
<1> QED
  BY <1>2, <1>4, <1>6, <1>7, FilesOf

LEMMA BringFiles ==
    ASSUME Control, Control', Files, NEW p \in Processes,
           ApplyToTarget(p) \/ ApplyToTargetFails(p) \/ RestoreSource(p) \/ RestoreSourceFails(p)
    PROVE  Files'
<1>1. /\ pc[p] \in {"apply", "restore"}
      /\ UNCHANGED <<committed, stashes, refs, operation, context, quiet, exposed>>
  BY DEF ApplyToTarget, ApplyToTargetFails, RestoreSource, RestoreSourceFails, database, history
<1>2. /\ pc[p] # "idle" /\ Knows(p) /\ KnowsTrees(p) /\ TypeOK /\ held[p] \in Held
      /\ operation # None /\ operation \in Operation /\ operation.stash # None
      /\ refs[Op(p).id] = operation.stash /\ operation.stash \in Entry
      /\ Op(p).stash = operation.stash /\ Recorded(p)
      /\ From(p) = operation.from /\ To(p) = operation.to /\ context = operation.from
      /\ From(p) \in Locations /\ To(p) \in Locations /\ From(p) # To(p)
  BY <1>1, WorkFacts, RecordFields DEF RollingBack
<1>4. PICK x \in {operation.from, operation.to} : /\ x \in Locations
                                                  /\ pc[p] = "apply" => x = To(p)
                                                  /\ pc[p] = "restore" => x = From(p)
  BY <1>1, <1>2
<1>3. PICK part \in SUBSET operation.stash.edits :
         /\ Brings(x, part)
         /\ ApplyToTarget(p) \/ RestoreSource(p) => part = operation.stash.edits
  BY <1>1, <1>2, <1>4
     DEF ApplyToTarget, ApplyToTargetFails, RestoreSource, RestoreSourceFails, Apply, ApplyFails
<1>5. /\ \A y \in Locations : y # x => changes'[y] = changes[y] /\ Tree(y)' = Tree(y)
      /\ Tree(x)' = Tree(x) \cup part
  <2>1. TypeOK /\ committed' = committed /\ x \in Locations /\ Brings(x, part)
    BY <1>1, <1>2, <1>3, <1>4
  <2> QED
    BY <2>1, MoreChanges
<1>6. PICK step \in {"record", "discard", "confirm", "idle"} :
         /\ pc' = [pc EXCEPT ![p] = step] /\ pc'[p] = step
         /\ step # "idle" => /\ Op(p)'.stash = operation.stash /\ To(p)' = To(p)
                             /\ From(p)' = From(p)
         /\ step = "record" => pc[p] = "apply" /\ part = operation.stash.edits
         /\ step = "discard" => pc[p] = "apply"
         /\ step = "confirm" => pc[p] = "restore"
  <2>1. CASE ApplyToTarget(p)
    <3>1. Goto(p, "record") /\ pc[p] = "apply"
      BY <2>1 DEF ApplyToTarget
    <3> QED
      BY <1>2, <1>3, <2>1, <3>1, GotoAfter
  <2>2. CASE RestoreSource(p)
    <3>1. Goto(p, "confirm") /\ pc[p] = "restore"
      BY <2>2 DEF RestoreSource
    <3> QED
      BY <1>2, <3>1, GotoAfter
  <2>3. CASE Leave(p)
    BY <1>2, <2>3 DEF Leave, Hold, TypeOK
  <2>4. CASE ApplyToTargetFails(p)
    <3> DEFINE h == [held[p] EXCEPT !.op = operation]
    <3>1. Leave(p) \/ Hold(p, "discard", h)
      BY <2>4 DEF ApplyToTargetFails, EnterRollback
    <3>2. h \in Held /\ h.op = operation /\ pc[p] = "apply"
      BY <1>2, <2>4 DEF Held, ApplyToTargetFails
    <3> HIDE DEF h
    <3> QED
      BY <1>2, <2>3, <3>1, <3>2, HeldAfter
  <2> QED
    BY <2>1, <2>2, <2>3, <2>4 DEF RestoreSourceFails
<1>7. Snapshots' \subseteq Snapshots
  BY <1>1, <1>2, <1>6, SameSnapshots
<1>8. FilesKept'
  <2>1. \A y \in {operation.from, operation.to} :
          y # x => changes[y] \cap operation.stash.edits = {}
    BY <1>1, <1>2, <1>4 DEF KnowsTrees
  <2>2. x = operation.to => committed[operation.from] \cap operation.stash.edits \cap quiet = {}
    BY <1>1, <1>2, <1>4 DEF KnowsTrees
  <2> QED
    BY <1>1, <1>2, <1>3, <1>4, <1>7, <2>1, <2>2, BringSnapshot
<1>9. ASSUME step # "idle" PROVE KnowsTrees(p)'
  <2>1. CASE pc[p] = "apply"
    <3>1. /\ step # "confirm" /\ Tree(To(p))' = Tree(To(p)) \cup part
          /\ changes'[From(p)] = changes[From(p)]
      BY <1>2, <1>4, <1>5, <1>6, <1>9, <2>1
    <3>2. /\ Tree(To(p)) \cap quiet \subseteq operation.targetHead
          /\ changes[From(p)] \cap operation.stash.edits = {}
      BY <1>2, <2>1 DEF KnowsTrees, Moving
    <3> QED
      BY <1>1, <1>2, <1>6, <1>9, <2>1, <3>1, <3>2 DEF KnowsTrees, Moving, CleaningUp
  <2>2. CASE pc[p] = "restore"
    <3>1. changes'[To(p)] = changes[To(p)] /\ changes[To(p)] \cap operation.stash.edits = {}
      BY <1>2, <1>4, <1>5, <2>2 DEF KnowsTrees
    <3> QED
      BY <1>1, <1>2, <1>6, <1>9, <2>2, <3>1 DEF KnowsTrees, Moving, CleaningUp
  <2> QED
    BY <1>1, <2>1, <2>2
<1> QED
  BY <1>2, <1>6, <1>8, <1>9, FilesOf

LEMMA MoveRecordsFiles ==
    ASSUME Control, Control', Files, NEW p \in Processes, MoveRecords(p) PROVE Files'
<1>1. /\ pc[p] = "snapshot" /\ pc[p] # "idle" /\ Knows(p) /\ KnowsTrees(p) /\ TypeOK
      /\ held[p] \in Held /\ Op(p) \in Operation
      /\ From(p) \in Locations /\ To(p) \in Locations
  BY AloneFacts, HeldType DEF MoveRecords, Files
<1>2. operation = None /\ Op(p).stash = None /\ Op(p).targetTree = None /\ context = From(p) /\ From(p) # To(p)
  BY <1>1 DEF Knows, HoldsRecord, KnowsContext
<1>3. /\ operation' = [Op(p) EXCEPT !.sourceHead = committed[From(p)],
                                    !.sourceTree = Tree(From(p)),
                                    !.targetHead = committed[To(p)]]
      /\ UNCHANGED <<committed, changes, stashes, refs, context, quiet, exposed>>
  BY DEF MoveRecords, git, history
<1> DEFINE h == [held[p] EXCEPT !.op = operation']
<1>4. h \in Held /\ h.op = operation' /\ Hold(p, "push", h)
  <2>1. Hold(p, "push", h)
    BY DEF MoveRecords
  <2>2. operation' \in Operation
    <3>1. /\ committed[From(p)] \in SUBSET Edits /\ committed[To(p)] \in SUBSET Edits
          /\ Tree(From(p)) \in SUBSET Edits
      BY <1>1, HeldType DEF TypeOK
    <3> QED
      BY <1>1, <1>3, <3>1 DEF Operation
  <2> QED
    BY <1>1, <2>1, <2>2 DEF Held
<1> HIDE DEF h
<1>5. /\ pc' = [pc EXCEPT ![p] = "push"] /\ pc'[p] = "push" /\ Op(p)' = operation'
      /\ From(p)' = operation'.from /\ To(p)' = operation'.to
  BY <1>1, <1>4, HeldAfter
<1>6. /\ operation'.stash = None /\ operation'.targetTree = None
      /\ operation'.from = From(p) /\ operation'.to = To(p) /\ operation'.sourceTree = Tree(From(p))
      /\ operation'.sourceHead = committed[From(p)] /\ operation'.targetHead = committed[To(p)]
      /\ operation' # None
  <2>1. operation'.stash = None /\ operation'.targetTree = None
    BY <1>1, <1>2, <1>3 DEF Operation
  <2>2. operation'.from = From(p) /\ operation'.to = To(p)
    BY <1>1, <1>3 DEF Operation, From, To
  <2>3. /\ operation'.sourceTree = Tree(From(p)) /\ operation'.sourceHead = committed[From(p)]
        /\ operation'.targetHead = committed[To(p)]
    BY <1>1, <1>3 DEF Operation
  <2>4. operation' # None
    BY <1>1, <1>5 DEF Control, Knows, HoldsRecord
  <2> QED
    BY <2>1, <2>2, <2>3, <2>4
<1>7. Snapshots' = {}
  <2>1. \A e \in Stashed : e.owner = 0
    BY <1>2 DEF Control, NothingElseKept
  <2>2. refs[operation'.id] = None /\ Stashed' = Stashed
    <3>1. operation'.id = Op(p).id /\ Stashed' = Stashed
      BY <1>1, <1>3 DEF Operation, Stashed
    <3> QED
      BY <1>1, <3>1 DEF Knows, KnowsSnapshot
  <2>3. ASSUME NEW e \in Snapshots' PROVE FALSE
    <3>1. e \in Entry /\ \/ e = operation'.stash
                         \/ e = refs'[operation'.id]
                         \/ e \in Stashed' /\ e.owner # 0
                         \/ e = Op(p)'.stash
      BY <1>1, <1>5, SnapshotsAfter
    <3> QED
      BY <1>3, <1>5, <1>6, <2>1, <2>2, <3>1, NoneAssumption
  <2> QED
    BY <2>3
<1>8. Stashed' = Stashed /\ Used' = Used /\ \A x \in Locations : Tree(x)' = Tree(x)
  BY <1>3 DEF Stashed, Used, Tree
<1>9. KnownEdits' /\ SnapshotHoldsSource' /\ TargetHoldsWork' /\ UserEntryApart' /\ NoCopies'
  <2>1. KnownEdits'
    BY <1>3, <1>6, <1>7, <1>8 DEF Files, FilesKept, KnownEdits
  <2>2. SnapshotHoldsSource'
    BY <1>1, <1>3, <1>6, <1>7, <1>8 DEF SnapshotHoldsSource
  <2>3. TargetHoldsWork'
    <3>1. changes[To(p)] \cap quiet = {}
      BY <1>1 DEF KnowsTrees
    <3> QED
      BY <1>1, <1>2, <1>3, <1>6, <3>1 DEF TargetHoldsWork
  <2>4. UserEntryApart'
    BY <1>2, <1>3, <1>7, <1>8 DEF Files, FilesKept, UserEntryApart
  <2>5. NoCopies'
    BY <1>2, <1>3 DEF Files, FilesKept, NoCopies
  <2> QED
    BY <2>1, <2>2, <2>3, <2>4, <2>5
<1>10. KnowsTrees(p)'
  <2>1. changes[To(p)] \cap quiet = {}
    BY <1>1 DEF KnowsTrees
  <2>2. Tree(To(p)) \cap quiet \subseteq committed[To(p)] /\ changes[From(p)] \cap quiet \subseteq Tree(From(p))
    BY <2>1 DEF Tree
  <2>3. /\ Tree(From(p)') = Tree(From(p)) /\ Tree(To(p)') = Tree(To(p))
        /\ From(p)' = From(p) /\ To(p)' = To(p)
    BY <1>5, <1>6
  <2>4. /\ Tree(From(p))' = Tree(From(p)) /\ Tree(To(p))' = Tree(To(p))
    BY <1>1, <1>3, <2>3 DEF Tree
  <2> QED
    BY <1>3, <1>5, <1>6, <2>2, <2>3, <2>4 DEF KnowsTrees, Moving, CleaningUp
<1> QED
  BY <1>1, <1>5, <1>9, <1>10, FilesOf DEF FilesKept

LEMMA PushFiles ==
    ASSUME Control, Control', Files, NEW p \in Processes, StashPush(p) \/ StashPushFails(p)
    PROVE  Files'
<1>1. /\ pc[p] = "push" /\ pc[p] # "idle" /\ Knows(p) /\ KnowsTrees(p) /\ TypeOK
      /\ operation # None /\ operation \in Operation /\ Op(p).id = operation.id
      /\ From(p) = operation.from /\ To(p) = operation.to
      /\ From(p) \in Locations /\ To(p) \in Locations /\ From(p) # To(p)
  <2>1. pc[p] = "push"
    BY DEF StashPush, StashPushFails
  <2> QED
    BY <2>1, AloneFacts, HeldType, RecordFields DEF Files, Knows, HoldsRecord
<1>2. /\ UNCHANGED <<committed, refs, operation, context, quiet, exposed>>
      /\ \/ UNCHANGED <<stashes, changes>> /\ Leave(p)
         \/ /\ Push(p)
            /\ Clean(From(p)) \/ CleanInPart(From(p))
            /\ (Goto(p, "verify") /\ Clean(From(p))) \/ Leave(p)
  BY DEF StashPush, StashPushFails, database, history
<1>3. /\ operation.stash = None /\ Op(p).stash = None /\ operation.targetTree = None
      /\ context = operation.from /\ refs[operation.id] = None
      /\ \A e \in Stashed : e.owner = 0
  BY <1>1 DEF Knows, HoldsRecord, KnowsContext, KnowsSnapshot, Moving
<1>4. Snapshots = {}
  BY <1>1, <1>3, SnapshotsOf, NoneAssumption
<1>5. CASE UNCHANGED <<stashes, changes>> /\ Leave(p)
  BY <1>1, <1>2, <1>5, LeaveFiles DEF git, database
<1>6. ASSUME Push(p), Clean(From(p)) \/ CleanInPart(From(p)),
             (Goto(p, "verify") /\ Clean(From(p))) \/ Leave(p)
      PROVE  Files'
  <2>1. PICK step \in {"verify", "idle"} :
          /\ pc' = [pc EXCEPT ![p] = step] /\ pc'[p] = step
          /\ step = "verify" => /\ Op(p)' = Op(p) /\ From(p)' = From(p) /\ To(p)' = To(p)
    BY <1>1, <1>6, GotoAfter DEF Leave, Hold, TypeOK
  <2>2. /\ \A y \in Locations : y # operation.from => changes'[y] = changes[y] /\ Tree(y)' = Tree(y)
        /\ \A y \in Locations : changes'[y] \subseteq changes[y] /\ Tree(y)' \subseteq Tree(y)
    BY <1>1, <1>2, <1>6, LessChanges
  <2>3. \E new \in SUBSET Entry :
          /\ Stashed' = Stashed \cup new
          /\ new = {} => changes[operation.from] = {}
          /\ \A e \in new : e.owner # 0 /\ e.edits = changes[operation.from]
          /\ \A e, f \in new : e = f
    <3>1. CASE changes[From(p)] = {}
      <4>1. stashes' = stashes
        BY <1>6, <3>1 DEF Push
      <4>2. Stashed' = Stashed \cup {}
        BY <4>1 DEF Stashed
      <4> QED
        BY <1>1, <3>1, <4>2
    <3>2. CASE changes[From(p)] # {}
      <4> DEFINE e == [owner |-> Op(p).id, edits |-> changes[From(p)]]
      <4>1. e \in Entry /\ e.owner # 0 /\ Stashed' = Stashed \cup {e}
        BY <1>1, <1>6, <3>2, PushStash
      <4>2. e.edits = changes[operation.from]
        BY <1>1
      <4> HIDE DEF e
      <4>3. {e} \in SUBSET Entry
        BY <4>1
      <4> QED
        BY <4>1, <4>2, <4>3
    <3> QED
      BY <3>1, <3>2
  <2>4. PICK new \in SUBSET Entry :
          /\ Stashed' = Stashed \cup new
          /\ new = {} => changes[operation.from] = {}
          /\ \A e \in new : e.owner # 0 /\ e.edits = changes[operation.from]
    BY <2>3
  <2>5. \A e : e \in Snapshots' <=> e \in new
    <3>1. \A e : e \in Snapshots' <=>
                   e \in Entry /\ \/ e = operation'.stash
                                  \/ e = refs'[operation'.id]
                                  \/ e \in Stashed' /\ e.owner # 0
                                  \/ step # "idle" /\ e = Op(p)'.stash
      BY <1>1, <2>1, SnapshotsAfter
    <3> QED
      BY <1>2, <1>3, <2>1, <2>4, <3>1, NoneAssumption
  <2>6. /\ operation.sourceTree \subseteq committed[operation.from] \cup changes[operation.from]
        /\ changes[operation.from] \cap quiet \subseteq operation.sourceTree
    BY <1>1 DEF KnowsTrees, Tree
  <2>7. \A x, y \in Locations : x # y => changes[x] \cap changes[y] = {}
    BY <1>3 DEF Files, FilesKept, NoCopies
  <2>8. Used' = Used /\ changes[operation.from] \subseteq Used
    BY <1>1, <1>2 DEF Used, Files, FilesKept, KnownEdits, Tree
  <2>9. KnownEdits'
    BY <1>2, <1>3, <2>2, <2>4, <2>5, <2>8 DEF Files, FilesKept, KnownEdits
  <2>10. SnapshotHoldsSource'
    <3>1. Snapshots' = {} => operation.sourceTree \subseteq committed[operation.from]
      BY <2>4, <2>5, <2>6
    <3>4. /\ operation.sourceHead \subseteq committed[operation.from]
          /\ committed[operation.from] \cap changes[operation.from] = {}
      BY <1>1 DEF Files, FilesKept, SnapshotHoldsSource, KnownEdits
    <3>2. \A e \in Snapshots' :
              /\ operation.sourceTree \subseteq committed[operation.from] \cup e.edits
              /\ e.owner # 0 /\ e.edits \cap quiet \subseteq operation.sourceTree \ operation.sourceHead
      BY <2>4, <2>5, <2>6, <3>4
    <3>3. \A e \in Snapshots' : \A x \in Locations \ {operation.from, operation.to} :
              changes'[x] \cap e.edits = {}
      BY <1>1, <2>2, <2>4, <2>5, <2>7
    <3> QED
      BY <1>2, <3>1, <3>2, <3>3, <3>4 DEF SnapshotHoldsSource, Tree
  <2>11. TargetHoldsWork'
    BY <1>1, <1>2, <1>3, <2>2 DEF Files, FilesKept, TargetHoldsWork
  <2>12. UserEntryApart'
    <3> SUFFICES ASSUME NEW e \in Stashed', e.owner = 0
                 PROVE  /\ \A x \in Locations : changes'[x] \cap UserStash = {}
                        /\ \A f \in Snapshots' : f.edits \cap UserStash = {}
      BY DEF UserEntryApart
    <3>1. e \in Stashed /\ e # None
      BY <1>1, <2>4, StashTypes, NoneAssumption DEF TypeOK
    <3>2. \A x \in Locations : changes[x] \cap UserStash = {}
      BY <1>3, <3>1 DEF Files, FilesKept, UserEntryApart
    <3> QED
      BY <1>1, <2>2, <2>4, <2>5, <3>2
  <2>13. NoCopies'
    BY <2>2, <2>7 DEF NoCopies
  <2>14. ASSUME step = "verify" PROVE KnowsTrees(p)'
    <3>1. (\A e \in Stashed' : e.owner = 0) => operation.sourceTree \subseteq committed[operation.from]
      BY <2>4, <2>6
    <3>2. Tree(operation.to) \cap quiet \subseteq operation.targetHead
      BY <1>1 DEF KnowsTrees, Moving
    <3>3. /\ From(p)' = operation.from /\ To(p)' = operation.to
          /\ Tree(To(p))' \cap quiet \subseteq operation.targetHead
      BY <1>1, <1>2, <2>1, <2>2, <2>14, <3>2
    <3>4. \A e \in Stashed' : Tree(operation.from)' \cap e.edits \cap quiet = {}
      <4>1. Tree(operation.from)' = committed[operation.from]
        <5>1. Clean(From(p))
          BY <1>1, <1>6, <2>1, <2>14 DEF Leave, Hold, TypeOK
        <5> QED
          BY <1>1, <1>2, <5>1, LessChanges DEF Tree
      <4>2. committed[operation.from] \cap changes[operation.from] = {} /\ quiet \cap UserStash = {}
        BY <1>1 DEF Files, FilesKept, KnownEdits
      <4>3. \A e \in Stashed : e.edits = UserStash
        BY <1>3 DEF Control, NothingElseKept
      <4> QED
        BY <2>4, <4>1, <4>2, <4>3
    <3>5. Tree(From(p))' = Tree(operation.from)'
      BY <1>2, <3>3 DEF Tree
    <3> QED
      BY <1>2, <2>1, <2>14, <3>1, <3>3, <3>4, <3>5 DEF KnowsTrees, Moving, CleaningUp
  <2> QED
    BY <1>1, <2>1, <2>9, <2>10, <2>11, <2>12, <2>13, <2>14, FilesOf DEF FilesKept
<1> QED
  BY <1>2, <1>5, <1>6

LEMMA VerifyFiles ==
    ASSUME Control, Control', Files, NEW p \in Processes, VerifyStash(p) PROVE Files'
<1>1. /\ pc[p] = "verify" /\ pc[p] # "idle" /\ Knows(p) /\ KnowsTrees(p) /\ TypeOK /\ held[p] \in Held
      /\ operation # None /\ operation \in Operation /\ Op(p).id = operation.id /\ Op(p) \in Operation
      /\ From(p) = operation.from /\ To(p) = operation.to
      /\ From(p) \in Locations /\ To(p) \in Locations /\ From(p) # To(p)
  BY AloneFacts, HeldType, RecordFields DEF VerifyStash, Files, Knows, HoldsRecord
<1>2. /\ UNCHANGED <<committed, changes, stashes, refs, operation, context, quiet, exposed>>
      /\ Stashed' = Stashed /\ Used' = Used /\ \A x \in Locations : Tree(x)' = Tree(x)
  BY DEF VerifyStash, git, database, history, Stashed, Used, Tree
<1>3. /\ operation.stash = None /\ operation.targetTree = None
      /\ context = operation.from /\ refs[operation.id] = None
      /\ \A e \in Stashed : e.owner # 0 => e = Head(stashes)
  BY <1>1 DEF Knows, HoldsRecord, KnowsContext, KnowsSnapshot, Moving
<1>4. CASE Leave(p)
  BY <1>1, <1>2, <1>4, LeaveFiles DEF git, database
<1>5. CASE stashes # <<>> /\ changes[From(p)] = {} /\ Hold(p, "secure", [held[p] EXCEPT !.op.stash = Head(stashes)])
  <2> DEFINE e == Head(stashes)
             op == [Op(p) EXCEPT !.stash = e]
             h == [held[p] EXCEPT !.op.stash = e]
  <2>1. e \in Stashed /\ e \in Entry
    BY <1>1, <1>5, StashTypes DEF TypeOK
  <2>2. op \in Operation /\ op.stash = e /\ op.from = From(p) /\ op.to = To(p)
    BY <1>1, <2>1 DEF Operation, From, To
  <2>3. h \in Held /\ h.op = op /\ Hold(p, "secure", h)
    BY <1>1, <1>5, <2>2 DEF Held, Op
  <2>4. \A f \in Stashed : f.owner # 0 => f = e
    BY <1>3
  <2>5. \A f \in Stashed : f.owner = e.owner => f = e
    BY <1>1, <2>1 DEF Control, OneEntryEach, Stashed
  <2> HIDE DEF e, op, h
  <2>6. PICK x \in Stashed : x = e
    BY <2>1
  <2>7. /\ pc' = [pc EXCEPT ![p] = "secure"] /\ pc'[p] = "secure" /\ Op(p)'.stash = x
        /\ From(p)' = From(p) /\ To(p)' = To(p)
    BY <1>1, <2>2, <2>3, <2>6, HeldAfter
  <2>8. Snapshots' = {x}
    BY <1>1, <2>7, HeldSnapshotAfter
  <2>9. x \in Entry /\ (x.owner # 0 => Snapshots = {x})
    <3>1. ASSUME x.owner # 0 PROVE x \in Snapshots
      BY <1>1, <2>1, <2>6, <3>1, SnapshotsOf
    <3> QED
      BY <1>1, <2>1, <2>6, <3>1 DEF Control, RecordIsSound
  <2>10. x.owner = 0 => /\ x.edits = UserStash
                        /\ operation.sourceTree \subseteq committed[operation.from]
                        /\ \A y \in Locations : changes[y] \cap x.edits = {}
    <3> SUFFICES ASSUME x.owner = 0
                 PROVE  /\ x.edits = UserStash
                        /\ operation.sourceTree \subseteq committed[operation.from]
                        /\ \A y \in Locations : changes[y] \cap x.edits = {}
      OBVIOUS
    <3>1. x.edits = UserStash
      BY DEF Control, NothingElseKept
    <3>2. \A f \in Stashed : f.owner = 0
      BY <2>4, <2>6
    <3>3. x # None
      BY <2>9, NoneAssumption
    <3>4. \A y \in Locations : changes[y] \cap UserStash = {}
      BY <1>3, <3>3 DEF Files, FilesKept, UserEntryApart
    <3> QED
      BY <1>1, <3>1, <3>2, <3>4 DEF KnowsTrees
  <2>11. KnownEdits'
    BY <1>2, <2>8 DEF Files, FilesKept, KnownEdits
  <2>12. SnapshotHoldsSource'
    <3>1. CASE x.owner # 0
      BY <1>1, <1>2, <2>8, <2>9, <3>1 DEF Files, FilesKept, SnapshotHoldsSource
    <3>2. CASE x.owner = 0
      <4>1. quiet \cap UserStash = {} /\ operation.sourceHead \subseteq committed[operation.from]
        BY <1>1 DEF Files, FilesKept, KnownEdits, SnapshotHoldsSource
      <4> QED
        BY <1>1, <1>2, <2>8, <2>10, <3>2, <4>1 DEF SnapshotHoldsSource
    <3> QED
      BY <3>1, <3>2
  <2>13. TargetHoldsWork'
    BY <1>1, <1>2, <1>3 DEF Files, FilesKept, TargetHoldsWork
  <2>14. UserEntryApart'
    <3> SUFFICES ASSUME NEW f \in Stashed, f.owner = 0
                 PROVE  /\ \A y \in Locations : changes[y] \cap UserStash = {}
                        /\ f # x => x.edits \cap UserStash = {}
      BY <1>2, <2>8 DEF UserEntryApart
    <3>1. f # None
      BY <1>1, StashTypes, NoneAssumption DEF TypeOK
    <3>2. /\ \A y \in Locations : changes[y] \cap UserStash = {}
          /\ \A g \in Snapshots \ {f} : g.edits \cap UserStash = {}
      BY <1>1, <1>3, <3>1 DEF Files, FilesKept, UserEntryApart
    <3>3. f # x => x.owner # 0
      BY <2>5, <2>6
    <3> QED
      BY <2>9, <3>2, <3>3
  <2>15. NoCopies'
    BY <1>2 DEF Files, FilesKept, NoCopies
  <2>16. KnowsTrees(p)'
    <3>1. Tree(To(p)) \cap quiet \subseteq operation.targetHead
      BY <1>1 DEF KnowsTrees, Moving
    <3>2. Tree(To(p))' = Tree(To(p)) /\ changes'[From(p)'] = {}
      BY <1>1, <1>2, <1>5, <2>7 DEF Tree
    <3>3. committed[From(p)] \cap x.edits \cap quiet = {}
      BY <1>1, <2>6 DEF KnowsTrees, Tree
    <3> QED
      BY <1>2, <2>7, <3>1, <3>2, <3>3 DEF KnowsTrees, Moving, CleaningUp
  <2> QED
    BY <1>1, <2>7, <2>11, <2>12, <2>13, <2>14, <2>15, <2>16, FilesOf DEF FilesKept
<1> QED
  BY <1>4, <1>5 DEF VerifyStash

\* The target's tree is recorded; the conversation may move, the application may end.
LEMMA RecordTargetFiles ==
    ASSUME Control, Control', Files, NEW p \in Processes, RecordTarget(p) \/ KilledBeforeSwitch(p)
    PROVE  Files'
<1>1. pc[p] = "record"
  BY DEF RecordTarget, KilledBeforeSwitch
<1>2. /\ pc[p] # "idle" /\ KnowsTrees(p) /\ TypeOK /\ held[p] \in Held
      /\ operation # None /\ operation \in Operation
      /\ Op(p).stash = operation.stash /\ operation.stash # None /\ operation.stash \in Entry
      /\ refs[operation.id] = operation.stash
      /\ From(p) = operation.from /\ To(p) = operation.to /\ context = operation.from
      /\ From(p) \in Locations /\ To(p) \in Locations /\ From(p) # To(p)
  BY <1>1, WorkFacts
<1>3. /\ UNCHANGED <<committed, changes, stashes, refs, quiet, exposed>>
      /\ operation' = [operation EXCEPT !.targetTree = Tree(To(p))]
      /\ context' \in {To(p), context}
      /\ Stashed' = Stashed /\ Used' = Used /\ \A x \in Locations : Tree(x)' = Tree(x)
  BY DEF RecordTarget, KilledBeforeSwitch, git, history, Stashed, Used, Tree
<1>4. /\ operation'.id = operation.id /\ operation'.stash = operation.stash
      /\ operation'.from = operation.from /\ operation'.to = operation.to
      /\ operation'.sourceTree = operation.sourceTree
      /\ operation'.sourceHead = operation.sourceHead
      /\ operation'.targetHead = operation.targetHead /\ operation' # None
      /\ operation'.targetTree = Tree(operation.to) /\ operation' \in Operation
  BY <1>1, <1>2, <1>3, RecordTargetFacts
<1>5. Snapshots = {operation.stash} /\ Snapshots' = {operation.stash}
  <2>1. Snapshots = {operation.stash}
    BY <1>1, <1>2, HeldSnapshot
  <2>2. operation.stash \in Snapshots'
    BY <1>2, <1>4 DEF Snapshots
  <2> QED
    BY <1>4, <2>1, <2>2 DEF Control, RecordIsSound
<1>6. /\ Tree(operation.to) \cap quiet \subseteq operation.targetHead \cup operation.stash.edits
      /\ operation.stash.edits \subseteq Tree(operation.to)
      /\ changes[operation.from] \cap operation.stash.edits = {}
  BY <1>1, <1>2 DEF KnowsTrees
<1>7. KnownEdits'
  BY <1>2, <1>3, <1>4, <1>5 DEF Files, FilesKept, KnownEdits
<1>8. SnapshotHoldsSource'
  BY <1>2, <1>3, <1>4, <1>5 DEF Files, FilesKept, SnapshotHoldsSource
<1>9. TargetHoldsWork'
  BY <1>2, <1>3, <1>4, <1>6 DEF Files, FilesKept, TargetHoldsWork
<1>10. UserEntryApart'
  BY <1>2, <1>3, <1>4, <1>5 DEF Files, FilesKept, UserEntryApart
<1>11. NoCopies'
  BY <1>2, <1>3, <1>4 DEF Files, FilesKept, NoCopies
<1>12. FilesKept'
  BY <1>7, <1>8, <1>9, <1>10, <1>11 DEF FilesKept
<1>13. CASE KilledBeforeSwitch(p)
  <2>1. \A q \in Processes : pc'[q] = "idle"
    BY <1>13 DEF KilledBeforeSwitch
  <2> QED
    BY <1>12, <2>1 DEF Files
<1>14. CASE RecordTarget(p)
  <2> DEFINE h == [held[p] EXCEPT !.op = operation']
  <2>1. PICK step \in {"cleanDrop", "compare", "idle"} :
           /\ pc' = [pc EXCEPT ![p] = step]
           /\ step = "cleanDrop" => context' = To(p)
           /\ step # "idle" => Hold(p, step, h)
    BY <1>14 DEF RecordTarget, EnterRollback, Leave, Hold
  <2>2. h \in Held /\ h.op = operation'
    BY <1>2, <1>4 DEF Held
  <2> HIDE DEF h
  <2>3. step # "idle" => /\ pc'[p] = step /\ From(p)' = operation.from
    BY <1>2, <1>4, <2>1, <2>2, HeldAfter
  <2>4. step # "idle" => KnowsTrees(p)'
    BY <1>2, <2>1, <2>3 DEF KnowsTrees, Moving, CleaningUp
  <2> QED
    BY <1>2, <1>12, <2>1, <2>4, FilesOf
<1> QED
  BY <1>13, <1>14

LEMMA DeleteRecordFiles ==
    ASSUME Control, Control', Files, NEW p \in Processes, DeleteRecord(p) PROVE Files'
<1>1. /\ pc[p] = "cleanRecord" /\ pc[p] # "idle" /\ Knows(p) /\ KnowsTrees(p) /\ TypeOK
      /\ operation # None /\ operation \in Operation /\ Recorded(p) /\ Op(p).id = operation.id
      /\ From(p) = operation.from /\ To(p) = operation.to
  BY AloneFacts, RecordFields DEF DeleteRecord, Files
<1>2. /\ UNCHANGED <<committed, changes, stashes, refs, context, quiet, exposed>> /\ operation' = None
      /\ Stashed' = Stashed /\ Used' = Used /\ \A x \in Locations : Tree(x)' = Tree(x)
      /\ pc' = [pc EXCEPT ![p] = "idle"]
  BY <1>1 DEF DeleteRecord, git, history, Stashed, Used, Tree, Leave, Hold
<1>3. /\ Op(p).stash = operation.stash /\ operation.stash # None
      /\ operation.stash \notin Stashed /\ refs[operation.id] = None
  BY <1>1 DEF Knows, HoldsRecord, KnowsSnapshot, CleaningUp
<1>4. KnownEdits' /\ SnapshotHoldsSource' /\ TargetHoldsWork'
  BY <1>2 DEF Files, FilesKept, KnownEdits, SnapshotHoldsSource, TargetHoldsWork
<1>5. UserEntryApart'
  <2>1. None \notin Stashed
    BY <1>1, StashTypes, NoneAssumption DEF TypeOK
  <2> QED
    BY <1>2, <1>3, <2>1 DEF Files, FilesKept, UserEntryApart
<1>6. NoCopies'
  BY <1>2 DEF Files, FilesKept, NoCopies
<1> QED
  BY <1>1, <1>2, <1>4, <1>5, <1>6, FilesOf DEF FilesKept

\* An edit is new: no snapshot and no record knows it.
LEMMA EditFiles ==
    ASSUME Control, Control', Files, NEW x \in Locations, NEW e \in Edits, Edit(x, e)
    PROVE  Files'
<1>1. /\ e \notin Used /\ UNCHANGED <<committed, stashes, refs, operation, context, pc, held>>
      /\ Used' = Used \cup {e} /\ quiet' \subseteq quiet \cup {e} /\ TypeOK
      /\ Running => quiet' = quiet
      /\ Stashed' = Stashed
  BY DEF Edit, Used, database, memory, Control, Stashed
<1>2. /\ \A y \in Locations : y # x => changes'[y] = changes[y] /\ Tree(y)' = Tree(y)
      /\ changes'[x] = changes[x] \cup {e} /\ Tree(x)' = Tree(x) \cup {e}
  BY <1>1 DEF Edit, TypeOK, Tree
<1>3. Snapshots' = Snapshots
  BY <1>1 DEF Snapshots, Op
<1>4. \A y \in Locations : /\ e \notin changes[y] /\ e \notin committed[y]
                           /\ Tree(y) \subseteq Tree(y)' /\ Tree(y)' \subseteq Tree(y) \cup {e}
                           /\ changes'[y] \subseteq changes[y] \cup {e}
  BY <1>1, <1>2 DEF Files, FilesKept, KnownEdits, Tree
<1>5. /\ e \notin UserStash
      /\ operation # None => \A f \in Snapshots : e \notin f.edits
      /\ operation # None /\ operation.targetTree # None => e \notin operation.targetTree
  BY <1>1 DEF Files, FilesKept, KnownEdits, Used
<1>6. ASSUME operation # None
      PROVE  /\ operation \in Operation /\ operation.from \in Locations /\ operation.to \in Locations
             /\ operation.from # operation.to
             /\ operation.stash # None => operation.stash \in Snapshots
  BY <1>1, <1>6 DEF Control, TypeOK, Operation, RecordIsSound, Snapshots
<1>7. KnownEdits'
  <2>1. quiet' \cap (exposed' \cup UserStash) = {}
    BY <1>1 DEF Edit, Used, Files, FilesKept, KnownEdits
  <2>2. \A y \in Locations : Tree(y)' \subseteq Used' /\ committed[y] \cap changes'[y] = {}
    BY <1>1, <1>4 DEF Files, FilesKept, KnownEdits
  <2> QED
    BY <1>1, <1>3, <2>1, <2>2 DEF Files, FilesKept, KnownEdits
<1>8. SnapshotHoldsSource'
  <2> SUFFICES ASSUME operation # None
               PROVE  /\ operation.sourceHead \subseteq committed[operation.from]
                      /\ \A f \in Snapshots :
                           /\ operation.sourceTree \subseteq
                                committed[operation.from] \cup (IF f.owner = 0 THEN {} ELSE f.edits)
                           /\ f.edits \cap quiet' \subseteq operation.sourceTree \ operation.sourceHead
                           /\ \A y \in Locations \ {operation.from, operation.to} :
                                changes'[y] \cap f.edits = {}
                      /\ Snapshots = {} => operation.sourceTree \subseteq Tree(operation.from)'
    BY <1>1, <1>3 DEF SnapshotHoldsSource
  <2>1. Tree(operation.from) \subseteq Tree(operation.from)'
    BY <1>1, <1>4, <1>6 DEF Tree
  <2> QED
    BY <1>1, <1>4, <1>5, <2>1 DEF Files, FilesKept, SnapshotHoldsSource
<1>9. TargetHoldsWork'
  <2> SUFFICES ASSUME operation # None
               PROVE  /\ operation.targetHead \subseteq committed[operation.to]
                      /\ changes'[operation.to] \cap committed[operation.from] \cap quiet' = {}
                      /\ operation.targetTree # None =>
                           /\ operation.stash # None
                           /\ operation.targetTree \cap quiet' \subseteq
                                operation.targetHead \cup operation.stash.edits
                      /\ context = operation.to =>
                           /\ operation.stash.edits \subseteq Tree(operation.to)'
                           /\ operation.stash.edits \cap changes'[operation.from] = {}
    BY <1>1 DEF TargetHoldsWork
  <2>1. Tree(operation.to) \subseteq Tree(operation.to)'
    BY <1>1, <1>4, <1>6 DEF Tree
  <2>2. context = operation.to => operation.stash # None
    BY DEF Control, RecordIsSound
  <2> QED
    BY <1>1, <1>4, <1>5, <1>6, <2>1, <2>2 DEF Files, FilesKept, TargetHoldsWork
<1>10. UserEntryApart'
  BY <1>1, <1>3, <1>4, <1>5 DEF Files, FilesKept, UserEntryApart
<1>11. NoCopies'
  <2> SUFFICES ASSUME NEW y \in Locations, NEW z \in Locations, y # z,
                      NEW f \in changes'[y] \cap changes'[z]
               PROVE  f \in changes[y] \cap changes[z]
    BY <1>1 DEF Files, FilesKept, NoCopies
  <2> QED
    BY <1>2, <1>4
<1>12. ASSUME NEW p \in Processes, pc'[p] # "idle" PROVE KnowsTrees(p)'
  <2>1. /\ pc[p] # "idle" /\ quiet' = quiet /\ KnowsTrees(p) /\ Op(p)' = Op(p)
        /\ From(p)' = From(p) /\ To(p)' = To(p) /\ e \notin quiet
        /\ From(p) \in Locations /\ To(p) \in Locations
    BY <1>1, <1>12, HeldType DEF Running, Files, Op, From, To, Used
  <2>2. /\ Tree(From(p)) \subseteq Tree(From(p))' /\ Tree(To(p)) \subseteq Tree(To(p))'
        /\ Tree(From(p))' \subseteq Tree(From(p)) \cup {e} /\ Tree(To(p))' \subseteq Tree(To(p)) \cup {e}
    BY <1>1, <1>4, <2>1 DEF Tree
  <2>3. pc[p] \notin {"snapshot", "push", "verify", "find"} => e \notin Op(p).stash.edits
    BY <1>5, <2>1, HeldSnapshot
  <2>4. changes'[From(p)] \subseteq changes[From(p)] \cup {e} /\ changes'[To(p)] \subseteq changes[To(p)] \cup {e}
    BY <1>4, <2>1
  <2>5. /\ pc[p] = "snapshot" => changes'[To(p)] \cap quiet = {}
        /\ pc[p] = "push" => /\ changes'[From(p)] \cap quiet \subseteq operation.sourceTree
                             /\ operation.sourceTree \subseteq Tree(From(p))'
        /\ pc[p] \in Moving \ {"record"} => Tree(To(p))' \cap quiet \subseteq operation.targetHead
        /\ pc[p] \in {"record", "discard"} =>
             Tree(To(p))' \cap quiet \subseteq operation.targetHead \cup Op(p).stash.edits
    BY <2>1, <2>2, <2>4 DEF KnowsTrees
  <2>6. /\ pc[p] \in {"secure", "mark", "drop", "apply", "record"} =>
             changes'[From(p)] \cap Op(p).stash.edits = {}
        /\ pc[p] = "record" => Op(p).stash.edits \subseteq Tree(To(p))'
        /\ pc[p] = "reset" => Tree(To(p))' \cap quiet \subseteq committed[To(p)] \cup Op(p).stash.edits
        /\ pc[p] \in {"restore", "confirm"} => changes'[To(p)] \cap Op(p).stash.edits = {}
        /\ pc[p] \in CleaningUp /\ context = From(p) =>
             /\ operation.sourceTree \subseteq Tree(From(p))'
             /\ changes'[To(p)] \cap Op(p).stash.edits = {}
    BY <2>1, <2>2, <2>3, <2>4 DEF KnowsTrees, CleaningUp
  <2>7. /\ pc[p] = "verify" /\ (\A f \in Stashed : f.owner = 0) =>
             operation.sourceTree \subseteq committed[From(p)]
        /\ pc[p] = "verify" => \A f \in Stashed : Tree(From(p))' \cap f.edits \cap quiet = {}
        /\ pc[p] \in {"secure", "mark", "drop", "apply"} =>
             committed[From(p)] \cap Op(p).stash.edits \cap quiet = {}
    BY <2>1, <2>2 DEF KnowsTrees
  <2> QED
    BY <1>1, <2>1, <2>5, <2>6, <2>7 DEF KnowsTrees
<1> QED
  BY <1>7, <1>8, <1>9, <1>10, <1>11, <1>12 DEF Files, FilesKept

LEMMA CommitFiles ==
    ASSUME Control, Control', Files, NEW x \in Locations, Commit(x)
    PROVE  Files'
<1>1. /\ UNCHANGED <<stashes, refs, operation, context, pc, held, quiet, exposed>>
      /\ Used' = Used /\ TypeOK /\ Stashed' = Stashed
  BY DEF Commit, Used, database, memory, history, Control, Stashed
<1>2. \A y \in Locations : /\ changes'[y] \subseteq changes[y] /\ committed[y] \subseteq committed'[y]
                           /\ Tree(y)' = Tree(y) /\ committed'[y] \cap changes'[y] = {}
  BY <1>1 DEF Commit, TypeOK, Tree, Clean, Files, FilesKept, KnownEdits
<1>3. Snapshots' = Snapshots
  BY <1>1 DEF Snapshots, Op
<1>4. operation # None => operation.from \in Locations /\ operation.to \in Locations
  BY <1>1 DEF TypeOK, Operation
<1>5. KnownEdits'
  BY <1>1, <1>2, <1>3 DEF Files, FilesKept, KnownEdits
<1>6. SnapshotHoldsSource'
  BY <1>1, <1>2, <1>3, <1>4 DEF Files, FilesKept, SnapshotHoldsSource
<1>7. TargetHoldsWork'
  <2> SUFFICES ASSUME operation # None PROVE TargetHoldsWork'
    BY <1>1 DEF TargetHoldsWork
  <2>1. operation.from \in Locations /\ operation.to \in Locations /\ operation.from # operation.to
    BY <1>4 DEF Control, RecordIsSound
  <2>2. committed'[operation.from] \subseteq committed[operation.from] \cup changes[operation.from]
    BY <1>2, <2>1 DEF Tree
  <2>3. /\ changes[operation.to] \cap committed[operation.from] \cap quiet = {}
        /\ changes[operation.to] \cap changes[operation.from] = {}
    BY <2>1 DEF Files, FilesKept, TargetHoldsWork, NoCopies
  <2>4. changes'[operation.to] \cap committed'[operation.from] \cap quiet = {}
    BY <1>2, <2>1, <2>2, <2>3
  <2> QED
    BY <1>1, <1>2, <1>4, <2>4 DEF Files, FilesKept, TargetHoldsWork
<1>8. UserEntryApart'
  BY <1>1, <1>2, <1>3 DEF Files, FilesKept, UserEntryApart
<1>9. NoCopies'
  BY <1>1, <1>2 DEF Files, FilesKept, NoCopies
<1>10. ASSUME NEW p \in Processes, pc'[p] # "idle" PROVE KnowsTrees(p)'
  <2>1. /\ pc[p] # "idle" /\ KnowsTrees(p) /\ Op(p)' = Op(p)
        /\ From(p)' = From(p) /\ To(p)' = To(p)
        /\ From(p) \in Locations /\ To(p) \in Locations
    BY <1>1, <1>10, HeldType DEF Files, Op, From, To
  <2>2. /\ Tree(From(p))' = Tree(From(p)) /\ Tree(To(p))' = Tree(To(p))
    BY <1>1, <1>2, <2>1 DEF Tree
  <2>3. /\ changes'[From(p)] \subseteq changes[From(p)] /\ changes'[To(p)] \subseteq changes[To(p)]
        /\ committed[From(p)] \subseteq committed'[From(p)] /\ committed[To(p)] \subseteq committed'[To(p)]
    BY <1>2, <2>1
  <2>4. pc[p] \in {"secure", "mark", "drop", "apply"} =>
          committed'[From(p)] \cap Op(p).stash.edits \cap quiet = {}
    <3>1. committed'[From(p)] \subseteq committed[From(p)] \cup changes[From(p)]
      BY <2>1, <2>2 DEF Tree
    <3> QED
      BY <2>1, <3>1 DEF KnowsTrees
  <2> QED
    BY <1>1, <2>1, <2>2, <2>3, <2>4 DEF KnowsTrees
<1> QED
  BY <1>5, <1>6, <1>7, <1>8, <1>9, <1>10 DEF Files, FilesKept

LEMMA BeginsFiles ==
    ASSUME Control, Control', Files, NEW to \in Locations, HandoffWithoutChanges(to) \/ MoveBegins(to)
    PROVE  Files'
<1>1. /\ UNCHANGED <<committed, changes, stashes, refs, quiet, exposed>>
      /\ operation = None /\ operation' = None /\ ~Running /\ TypeOK
      /\ Stashed' = Stashed /\ Used' = Used /\ \A x \in Locations : Tree(x)' = Tree(x)
  BY HandOffAlone
     DEF HandoffWithoutChanges, MoveBegins, CanHandOff, git, database, history, Control, Stashed, Used, Tree
<1>2. FilesKept'
  BY <1>1 DEF Files, FilesKept, KnownEdits, SnapshotHoldsSource, TargetHoldsWork, UserEntryApart, NoCopies
<1>3. ASSUME NEW p \in Processes, pc'[p] # "idle" PROVE KnowsTrees(p)'
  <2>1. MoveBegins(to) /\ p = "move" /\ pc'[p] = "snapshot"
    BY <1>1, <1>3 DEF HandoffWithoutChanges, MoveBegins, memory, Hold, Running, TypeOK
  <2>2. To(p)' = to
    <3>1. held'[p] = [op |-> [id |-> handoffs', from |-> context, to |-> to, stash |-> None,
                             sourceHead |-> {}, sourceTree |-> {},
                             targetHead |-> {}, targetTree |-> None],
                      context |-> context, clean |-> FALSE]
      BY <1>1, <2>1 DEF MoveBegins, Hold, TypeOK
    <3> QED
      BY <3>1 DEF To, Op
  <2>3. changes[to] = {}
    BY <2>1 DEF MoveBegins
  <2> QED
    BY <1>1, <2>1, <2>2, <2>3 DEF KnowsTrees, Moving, CleaningUp
<1> QED
  BY <1>2, <1>3 DEF Files

LEMMA InitFiles == Init => Files
<1> SUFFICES ASSUME Init PROVE Files
  OBVIOUS
<1>1. \A e \in Stashed : e.edits = UserStash
  BY InitControl DEF Control, NothingElseKept, Init
<1>2. KnownEdits
  BY <1>1 DEF Init, KnownEdits, Used, Tree
<1> QED
  BY <1>2 DEF Init, Files, FilesKept, SnapshotHoldsSource, TargetHoldsWork, UserEntryApart, NoCopies

LEMMA NextFiles ==
    ASSUME "retry" \notin Habits PROVE Control /\ RefsAccountedFor /\ Files /\ [Next]_vars => Files'
<1> SUFFICES ASSUME Control, RefsAccountedFor, Files, [Next]_vars PROVE Files'
  OBVIOUS
<1>1. Control'
  BY NextControl
<1>2. CASE UNCHANGED vars
  <2>1. UNCHANGED <<committed, changes, stashes, refs, operation, context, pc, held, quiet, exposed>>
    BY <1>2 DEF vars, git, database, memory, history
  <2>2. \A x \in Locations : Tree(x)' = Tree(x)
    BY <2>1 DEF Tree
  <2>3. Stashed' = Stashed /\ Used' = Used /\ Snapshots' = Snapshots
    BY <2>1 DEF Stashed, Used, Snapshots, Op
  <2>4. \A p \in Processes : Op(p)' = Op(p) /\ From(p)' = From(p) /\ To(p)' = To(p)
                             /\ Tree(From(p))' = Tree(From(p)) /\ Tree(To(p))' = Tree(To(p))
    BY <2>1 DEF Op, From, To, Tree
  <2>5. FilesKept'
    <3>1. KnownEdits'
      BY <2>1, <2>2, <2>3 DEF Files, FilesKept, KnownEdits
    <3>2. SnapshotHoldsSource' /\ TargetHoldsWork'
      <4>1. operation # None => operation.from \in Locations /\ operation.to \in Locations
        BY DEF Control, TypeOK, Operation
      <4> QED
        BY <2>1, <2>2, <2>3, <4>1 DEF Files, FilesKept, SnapshotHoldsSource, TargetHoldsWork
    <3>3. UserEntryApart' /\ NoCopies'
      BY <2>1, <2>3 DEF Files, FilesKept, UserEntryApart, NoCopies
    <3> QED
      BY <3>1, <3>2, <3>3 DEF FilesKept
  <2>6. \A p \in Processes : pc'[p] # "idle" => KnowsTrees(p)'
    BY <2>1, <2>3, <2>4 DEF Files, KnowsTrees
  <2> QED
    BY <2>5, <2>6 DEF Files
<1>3. ASSUME NEW p \in Processes, MoveStep(p) PROVE Files'
  <2>1. CASE NothingToRecord(p)
    <3>1. pc[p] # "idle" /\ Leave(p) /\ UNCHANGED <<git, database, quiet, exposed>>
      BY <2>1 DEF NothingToRecord, history
    <3> QED
      BY <3>1, LeaveFiles
  <2> QED
    BY <1>1, <1>3, <2>1, MoveRecordsFiles, PushFiles, VerifyFiles, SecureRefFiles, MarkFiles, DropFiles,
       BringFiles, RecordTargetFiles DEF MoveStep
<1>4. ASSUME NEW p \in Processes, RollbackStep(p) \/ RecoverStep(p) PROVE Files'
  BY <1>1, <1>4, CleanFiles, DecideFiles, BringFiles, FindFiles, MarkFiles DEF RollbackStep, RecoverStep
<1>5. ASSUME NEW p \in Processes, DeleteRef(p) \/ DeleteRecord(p) \/ KilledBeforeSwitch(p) PROVE Files'
  BY <1>1, <1>5, DropFiles, DeleteRecordFiles, RecordTargetFiles
<1>6. ASSUME NEW p \in Processes, Fails(p) PROVE Files'
  BY <1>6, LeaveFiles DEF Fails, history
<1>7. ASSUME NEW p \in Retries, Retry(p) \/ BootRecovers(p) PROVE Files'
  <2>1. ~Running /\ p \in Processes /\ BeginRecovery(p) /\ UNCHANGED <<git, database, quiet, exposed>>
    BY <1>7 DEF Retry, BootRecovers, Control, Alone, Processes, history
  <2> QED
    BY <2>1, RestFiles
<1>8. CASE Boot \/ Recovered
  <2>1. ~Running /\ UNCHANGED <<git, database, quiet, exposed, pc, held>>
    BY <1>8 DEF Boot, Recovered, Control, Alone, history
  <2> QED
    BY <2>1, RestFiles
<1>9. ASSUME NEW x \in Locations, Commit(x) \/ \E e \in Edits : Edit(x, e) PROVE Files'
  BY <1>1, <1>9, CommitFiles, EditFiles
<1> QED
  BY <1>1, <1>2, <1>3, <1>4, <1>5, <1>6, <1>7, <1>8, <1>9, BeginsFiles, KillFiles DEF Next

-----------------------------------------------------------------------------
(* The recovery refs.                                                      *)

\* A handoff does not begin in the middle of a step of another one.
LEMMA NoSnapshotAfter ==
    ASSUME Control, NEW p \in Processes,
           \/ MoveStep(p) \/ RollbackStep(p) \/ RecoverStep(p)
           \/ DeleteRef(p) \/ DeleteRecord(p) \/ Fails(p) \/ KilledBeforeSwitch(p)
    PROVE  \A q \in Processes : pc'[q] # "snapshot"
<1>1. pc[p] # "idle"
  BY DEF MoveStep, MoveRecords, StashPush, StashPushFails, VerifyStash, SecureRef, MarkStashed,
         DropStash, ApplyToTarget, ApplyToTargetFails, RecordTarget, NothingToRecord,
         RollbackStep, DiscardPartialApply, CompareTrees, ResetTarget, CleaningFails,
         RestoreSource, RestoreSourceFails, ConfirmSource, RecoverStep, FindNothing, FindStash,
         MarkRecovered, Survey, DeleteRef, DeleteRecord, Fails, KilledBeforeSwitch
<1>2. ASSUME NEW step, step # "snapshot", pc' = [pc EXCEPT ![p] = step]
      PROVE  \A q \in Processes : pc'[q] # "snapshot"
  BY <1>1, <1>2, AloneFacts DEF TypeOK
<1>3. ASSUME NEW step, NEW h, Hold(p, step, h) \/ Goto(p, step), step # "snapshot"
      PROVE  \A q \in Processes : pc'[q] # "snapshot"
  BY <1>2, <1>3 DEF Hold, Goto
<1>4. ASSUME Leave(p) PROVE \A q \in Processes : pc'[q] # "snapshot"
  BY <1>3, <1>4 DEF Leave
<1>5. ASSUME NEW record, NEW step, EnterRollback(p, record, step), step # "snapshot"
      PROVE  \A q \in Processes : pc'[q] # "snapshot"
  BY <1>3, <1>4, <1>5 DEF EnterRollback
<1>6. CASE MoveStep(p)
  BY <1>3, <1>4, <1>5, <1>6
     DEF MoveStep, MoveRecords, StashPush, StashPushFails, VerifyStash, SecureRef, MarkStashed,
         DropStash, ApplyToTarget, ApplyToTargetFails, RecordTarget, NothingToRecord
<1>7. CASE RollbackStep(p)
  BY <1>3, <1>4, <1>5, <1>7
     DEF RollbackStep, DiscardPartialApply, CompareTrees, ResetTarget, CleaningFails,
         RestoreSource, RestoreSourceFails, ConfirmSource
<1>8. CASE RecoverStep(p)
  BY <1>3, <1>4, <1>5, <1>8 DEF RecoverStep, FindNothing, FindStash, MarkRecovered, Survey
<1>9. CASE DeleteRef(p) \/ DeleteRecord(p) \/ Fails(p)
  BY <1>3, <1>4, <1>9 DEF DeleteRef, DeleteRecord, Fails
<1>10. CASE KilledBeforeSwitch(p)
  BY <1>10 DEF KilledBeforeSwitch
<1> QED
  BY <1>6, <1>7, <1>8, <1>9, <1>10

\* The record is written to, or only read.
LEMMA RecordWritten ==
    ASSUME Control, NEW p \in Processes,
           MarkStashed(p) \/ MarkRecovered(p) \/ RecordTarget(p) \/ KilledBeforeSwitch(p)
    PROVE  /\ operation # None /\ operation \in Operation /\ operation' # None
           /\ operation'.id = operation.id /\ operation'.from = operation.from
           /\ operation'.to = operation.to /\ operation'.sourceTree = operation.sourceTree
<1>1. pc[p] # "idle" /\ pc[p] # "snapshot" /\ TypeOK
  BY DEF MarkStashed, MarkRecovered, KilledBeforeSwitch, RecordTarget, Control
<1>2. operation # None /\ operation \in Operation
  BY <1>1, RecordFields
<1>3. CASE MarkStashed(p) \/ MarkRecovered(p)
  <2>1. Op(p).stash \in Entry \cup {None}
    BY <1>1, HeldType
  <2>2. [operation EXCEPT !.stash = Op(p).stash] \in Operation
    BY <1>2, <2>1 DEF Operation
  <2>3. operation' \in {operation, [operation EXCEPT !.stash = Op(p).stash]}
    BY <1>3 DEF MarkStashed, MarkRecovered
  <2>4. \A r \in Operation : r # None
    BY NoneAssumption
  <2>5. /\ [operation EXCEPT !.stash = Op(p).stash].id = operation.id
        /\ [operation EXCEPT !.stash = Op(p).stash].from = operation.from
        /\ [operation EXCEPT !.stash = Op(p).stash].to = operation.to
        /\ [operation EXCEPT !.stash = Op(p).stash].sourceTree = operation.sourceTree
    BY <1>2 DEF Operation
  <2> QED
    BY <1>2, <2>2, <2>3, <2>4, <2>5
<1>4. CASE KilledBeforeSwitch(p) \/ RecordTarget(p)
  BY <1>2, <1>4, RecordTargetFacts DEF KilledBeforeSwitch, RecordTarget
<1> QED
  BY <1>2, <1>3, <1>4

\* A step that leaves the refs alone, and a record it deletes has none.
LEMMA SameRefs ==
    ASSUME RefsAccountedFor, UNCHANGED <<refs, handoffs, overlooked>>, Used \subseteq Used',
           \/ operation = None /\ operation' = None
           \/ operation # None /\ operation' # None /\ operation'.id = operation.id
           \/ operation # None /\ operation' = None /\ refs[operation.id] = None,
           (\A p \in Processes : pc'[p] # "snapshot") \/ UNCHANGED <<pc, held>>
    PROVE  RefsAccountedFor'
<1>1. /\ \A i \in Ids : refs'[i] # None =>
           i <= handoffs' /\ (i \in overlooked' \/ (operation' # None /\ operation'.id = i))
      /\ operation' # None => operation'.id <= handoffs' /\ operation'.id \notin overlooked'
  BY DEF RefsAccountedFor
<1>2. \A i \in overlooked' : refs'[i] # None /\ refs'[i].edits \subseteq Used'
  BY DEF RefsAccountedFor
<1>3. \A p \in Processes :
        pc'[p] = "snapshot" => Op(p)'.id <= handoffs' /\ Op(p)'.id \notin overlooked'
  BY DEF RefsAccountedFor, Op
<1> QED
  BY <1>1, <1>2, <1>3 DEF RefsAccountedFor

\* The recovery ref of the handoff that is recorded is written or deleted.
LEMMA RefWritten ==
    ASSUME Control, RefsAccountedFor, NEW p \in Processes, SecureRef(p) \/ DeleteRef(p)
    PROVE  RefsAccountedFor' /\ \A i \in overlooked : refs'[i] = refs[i]
<1>1. /\ pc[p] # "idle" /\ pc[p] # "snapshot" /\ UNCHANGED <<operation, handoffs, overlooked>>
      /\ Used' = Used
  BY DEF SecureRef, DeleteRef, database, history, Used
<1>2. operation # None /\ Op(p).id = operation.id
  BY <1>1, RecordFields
<1>3. \A i \in Ids : i # operation.id => refs'[i] = refs[i]
  BY <1>2 DEF SecureRef, DeleteRef, Control, TypeOK
<1>4. overlooked \subseteq Ids /\ operation.id \notin overlooked /\ operation.id <= handoffs
  BY <1>2 DEF RefsAccountedFor, Control, TypeOK
<1>5. \A q \in Processes : pc'[q] # "snapshot"
  BY NoSnapshotAfter DEF MoveStep
<1> QED
  BY <1>1, <1>2, <1>3, <1>4, <1>5 DEF RefsAccountedFor

\* A recovery that finds no snapshot deletes the record, and overlooks the ref at most.
LEMMA RefOverlooked ==
    ASSUME Control, RefsAccountedFor, Files, NEW p \in Processes, FindNothing(p)
    PROVE  RefsAccountedFor'
<1>1. /\ pc[p] # "idle" /\ pc[p] # "snapshot" /\ UNCHANGED <<refs, handoffs>> /\ Used' = Used
  BY DEF FindNothing, git, Used
<1>2. /\ operation # None /\ operation \in Operation /\ Op(p).id = operation.id
      /\ operation.id \in Ids /\ refs[operation.id] \in Entry \cup {None}
  BY <1>1, RecordFields, AloneFacts, HeldType
<1>3. \A q \in Processes : pc'[q] # "snapshot"
  BY NoSnapshotAfter DEF RecoverStep
<1>4. CASE UNCHANGED <<operation, overlooked>>
  BY <1>1, <1>2, <1>3, <1>4, SameRefs
<1>5. CASE /\ operation' = None
           /\ overlooked' = overlooked \cup {i \in {Op(p).id} : refs[i] # None}
  <2>1. refs[operation.id] # None => refs[operation.id].edits \subseteq Used
    BY <1>2 DEF Snapshots, Files, FilesKept, KnownEdits
  <2>2. overlooked' = IF refs[operation.id] = None THEN overlooked
                      ELSE overlooked \cup {operation.id}
    BY <1>2, <1>5
  <2> QED
    BY <1>1, <1>2, <1>3, <1>5, <2>1, <2>2 DEF RefsAccountedFor
<1> QED
  BY <1>4, <1>5 DEF FindNothing

\* A handoff takes a number that no ref has.
LEMMA NumberTaken ==
    ASSUME Control, RefsAccountedFor, NEW to \in Locations, MoveBegins(to)
    PROVE  RefsAccountedFor'
<1>1. /\ ~Running /\ operation = None /\ operation' = None /\ UNCHANGED <<refs, overlooked>>
      /\ handoffs' = handoffs + 1 /\ handoffs' \in Ids /\ handoffs \in Nat /\ Used' = Used
      /\ "move" \in Processes /\ TypeOK
  BY HandOffAlone, MaxHandoffsAssumption
     DEF MoveBegins, CanHandOff, Control, TypeOK, Ids, git, database, Used, Processes
<1>2. ~(handoffs' <= handoffs) /\ \A i \in Ids : i <= handoffs => i <= handoffs'
  BY <1>1 DEF Ids
<1>3. refs[handoffs'] = None /\ handoffs' \notin overlooked
  BY <1>1, <1>2 DEF RefsAccountedFor
<1>4. pc' = [pc EXCEPT !["move"] = "snapshot"] /\ Op("move")'.id = handoffs'
  <2>1. /\ pc' = [pc EXCEPT !["move"] = "snapshot"] /\ "move" \in DOMAIN held
        /\ held' = [held EXCEPT !["move"] =
                      [op |-> [id |-> handoffs', from |-> context, to |-> to, stash |-> None,
                               sourceHead |-> {}, sourceTree |-> {},
                               targetHead |-> {}, targetTree |-> None],
                       context |-> context, clean |-> FALSE]]
    BY <1>1 DEF MoveBegins, Hold, TypeOK
  <2> QED
    BY <2>1 DEF Op
<1>5. \A q \in Processes : pc'[q] = "snapshot" => q = "move"
  BY <1>1, <1>4 DEF Running, TypeOK
<1>6. handoffs' <= handoffs'
  BY <1>1 DEF Ids
<1> QED
  BY <1>1, <1>2, <1>3, <1>4, <1>5, <1>6 DEF RefsAccountedFor

\* The record is inserted: it has the number the handoff took.
LEMMA NumberRecorded ==
    ASSUME Control, RefsAccountedFor, NEW p \in Processes, MoveRecords(p)
    PROVE  RefsAccountedFor'
<1>1. /\ pc[p] = "snapshot" /\ pc[p] # "idle" /\ UNCHANGED <<refs, handoffs, overlooked>>
      /\ Used' = Used /\ operation' = [Op(p) EXCEPT !.sourceHead = committed[From(p)],
                                                    !.sourceTree = Tree(From(p)),
                                                    !.targetHead = committed[To(p)]]
  BY DEF MoveRecords, git, history, Used
<1>2. Knows(p) /\ Op(p) \in Operation
  BY <1>1, AloneFacts, HeldType
<1>3. operation = None /\ operation'.id = Op(p).id
  BY <1>1, <1>2 DEF Knows, HoldsRecord, Operation
<1>4. \A q \in Processes : pc'[q] # "snapshot"
  BY NoSnapshotAfter DEF MoveStep
<1> QED
  BY <1>1, <1>3, <1>4 DEF RefsAccountedFor

LEMMA NextRefs ==
    ASSUME "retry" \notin Habits PROVE Control /\ RefsAccountedFor /\ Files /\ [Next]_vars =>
        /\ RefsAccountedFor'
        /\ overlooked' = overlooked \/ \E p \in Processes : FindNothing(p)
        /\ \A i \in overlooked : i \in overlooked' /\ refs'[i] = refs[i]
        /\ quiet' # quiet => \E e \in Edits : e \notin Used /\ quiet' = quiet \cup {e}
<1> SUFFICES ASSUME Control, RefsAccountedFor, Files, [Next]_vars
             PROVE  /\ RefsAccountedFor'
                    /\ overlooked' = overlooked \/ \E p \in Processes : FindNothing(p)
                    /\ \A i \in overlooked : i \in overlooked' /\ refs'[i] = refs[i]
                    /\ quiet' # quiet => \E e \in Edits : e \notin Used /\ quiet' = quiet \cup {e}
  OBVIOUS
<1> DEFINE Goal == /\ RefsAccountedFor'
                   /\ overlooked' = overlooked \/ \E p \in Processes : FindNothing(p)
                   /\ \A i \in overlooked : i \in overlooked' /\ refs'[i] = refs[i]
                   /\ quiet' # quiet => \E e \in Edits : e \notin Used /\ quiet' = quiet \cup {e}
<1>1. ASSUME UNCHANGED <<refs, quiet, exposed, handoffs, overlooked, operation>>,
             (\A p \in Processes : pc'[p] # "snapshot") \/ UNCHANGED <<pc, held>>
      PROVE  Goal
  BY <1>1, SameRefs DEF Used
<1>2. ASSUME NEW p \in Processes, MoveStep(p) PROVE Goal
  <2>1. \A q \in Processes : pc'[q] # "snapshot"
    BY <1>2, NoSnapshotAfter
  <2>2. CASE MoveRecords(p)
    BY <2>2, NumberRecorded DEF MoveRecords, git, history
  <2>3. CASE SecureRef(p)
    BY <2>3, RefWritten DEF SecureRef, history
  <2>4. CASE MarkStashed(p) \/ RecordTarget(p)
    <3>1. UNCHANGED <<refs, quiet, exposed, handoffs, overlooked>> /\ Used' = Used
      BY <2>4 DEF MarkStashed, RecordTarget, git, history, Used
    <3> QED
      BY <2>1, <2>4, <3>1, RecordWritten, SameRefs
  <2>5. CASE \/ StashPush(p) \/ StashPushFails(p) \/ VerifyStash(p) \/ DropStash(p)
             \/ ApplyToTarget(p) \/ ApplyToTargetFails(p) \/ NothingToRecord(p)
    <3>1. UNCHANGED <<refs, quiet, exposed, handoffs, overlooked, operation>>
      BY <2>5 DEF StashPush, StashPushFails, VerifyStash, DropStash, ApplyToTarget,
                  ApplyToTargetFails, NothingToRecord, git, database, history
    <3> QED
      BY <1>1, <2>1, <3>1
  <2> QED
    BY <1>2, <2>2, <2>3, <2>4, <2>5 DEF MoveStep
<1>3. ASSUME NEW p \in Processes, RollbackStep(p) \/ Fails(p) PROVE Goal
  <2>1. UNCHANGED <<refs, quiet, exposed, handoffs, overlooked, operation>>
    BY <1>3 DEF RollbackStep, DiscardPartialApply, CompareTrees, ResetTarget, CleaningFails,
                RestoreSource, RestoreSourceFails, ConfirmSource, Fails, git, database, history
  <2> QED
    BY <1>1, <1>3, <2>1, NoSnapshotAfter
<1>4. ASSUME NEW p \in Processes, RecoverStep(p) PROVE Goal
  <2>1. CASE FindNothing(p)
    <3>1. UNCHANGED <<refs, quiet, exposed>> /\ overlooked \subseteq overlooked'
      BY <2>1 DEF FindNothing, git
    <3> QED
      BY <2>1, <3>1, RefOverlooked
  <2>2. CASE MarkRecovered(p)
    <3>1. UNCHANGED <<refs, quiet, exposed, handoffs, overlooked>> /\ Used' = Used
      BY <2>2 DEF MarkRecovered, git, history, Used
    <3> QED
      BY <1>4, <2>2, <3>1, NoSnapshotAfter, RecordWritten, SameRefs
  <2>3. CASE FindStash(p) \/ Survey(p)
    <3>1. UNCHANGED <<refs, quiet, exposed, handoffs, overlooked, operation>>
      BY <2>3 DEF FindStash, Survey, git, database, history
    <3> QED
      BY <1>1, <1>4, <3>1, NoSnapshotAfter
  <2> QED
    BY <1>4, <2>1, <2>2, <2>3 DEF RecoverStep
<1>5. ASSUME NEW p \in Processes, DeleteRef(p) \/ DeleteRecord(p) \/ KilledBeforeSwitch(p)
      PROVE  Goal
  <2>1. \A q \in Processes : pc'[q] # "snapshot"
    BY <1>5, NoSnapshotAfter
  <2>2. CASE DeleteRef(p)
    BY <2>2, RefWritten DEF DeleteRef, history
  <2>3. CASE DeleteRecord(p)
    <3>1. /\ UNCHANGED <<refs, quiet, exposed, handoffs, overlooked>> /\ Used' = Used
          /\ pc[p] = "cleanRecord" /\ pc[p] # "idle"
      BY <2>3 DEF DeleteRecord, git, history, Used
    <3>2. operation # None /\ Recorded(p) /\ refs[operation.id] = None
      BY <3>1, RecordFields, AloneFacts DEF Knows, KnowsSnapshot
    <3>3. operation' = None
      BY <2>3, <3>2 DEF DeleteRecord
    <3> QED
      BY <2>1, <3>1, <3>2, <3>3, SameRefs
  <2>4. CASE KilledBeforeSwitch(p)
    <3>1. UNCHANGED <<refs, quiet, exposed, handoffs, overlooked>> /\ Used' = Used
      BY <2>4 DEF KilledBeforeSwitch, git, history, Used
    <3> QED
      BY <2>1, <2>4, <3>1, RecordWritten, SameRefs
  <2> QED
    BY <1>5, <2>2, <2>3, <2>4
<1>6. ASSUME NEW p \in Retries, Retry(p) \/ BootRecovers(p) PROVE Goal
  <2>1. /\ ~Running /\ pc' = [pc EXCEPT ![p] = "find"]
        /\ UNCHANGED <<refs, quiet, exposed, handoffs, overlooked, operation>>
    BY <1>6 DEF Retry, BootRecovers, BeginRecovery, Control, Alone, git, database, history
  <2>2. \A q \in Processes : pc'[q] # "snapshot"
    BY <2>1 DEF Running, Control, TypeOK
  <2> QED
    BY <1>1, <2>1, <2>2
<1>7. CASE Boot \/ Recovered \/ Kill \/ UNCHANGED vars
  <2>1. UNCHANGED <<refs, quiet, exposed, handoffs, overlooked, operation>>
    BY <1>7 DEF Boot, Recovered, Kill, vars, git, database, history
  <2>2. (\A q \in Processes : pc'[q] # "snapshot") \/ UNCHANGED <<pc, held>>
    BY <1>7 DEF Boot, Recovered, Kill, vars, memory
  <2> QED
    BY <1>1, <2>1, <2>2
<1>8. ASSUME NEW x \in Locations, Commit(x) PROVE Goal
  <2>1. /\ UNCHANGED <<refs, quiet, exposed, handoffs, overlooked, operation>>
        /\ UNCHANGED <<pc, held>>
    BY <1>8 DEF Commit, database, memory, history
  <2> QED
    BY <1>1, <2>1
<1>9. ASSUME NEW x \in Locations, NEW e \in Edits, Edit(x, e) PROVE Goal
  <2>1. /\ UNCHANGED <<refs, handoffs, overlooked, operation>> /\ UNCHANGED <<pc, held>>
        /\ e \notin Used /\ quiet' \in {quiet, quiet \cup {e}}
        /\ exposed' \in {exposed, exposed \cup {e}}
    BY <1>9 DEF Edit, database, memory, Used
  <2>2. Used \subseteq Used'
    BY <2>1 DEF Used
  <2>3. RefsAccountedFor'
    BY <2>1, <2>2, SameRefs
  <2> QED
    BY <2>1, <2>3
<1>10. ASSUME NEW to \in Locations, HandoffWithoutChanges(to) \/ MoveBegins(to) PROVE Goal
  <2>1. CASE HandoffWithoutChanges(to)
    <3>1. /\ UNCHANGED <<refs, quiet, exposed, handoffs, overlooked, operation>>
          /\ UNCHANGED <<pc, held>>
      BY <2>1 DEF HandoffWithoutChanges, git, memory, history
    <3> QED
      BY <1>1, <3>1
  <2>2. CASE MoveBegins(to)
    BY <2>2, NumberTaken DEF MoveBegins, git
  <2> QED
    BY <1>10, <2>1, <2>2
<1> QED
  BY <1>2, <1>3, <1>4, <1>5, <1>6, <1>7, <1>8, <1>9, <1>10 DEF Next

-----------------------------------------------------------------------------
(* Nothing is lost.                                                        *)

LEMMA KeptWhere ==
    ASSUME TypeOK, NEW e
    PROVE  Kept(e) <=> \/ \E x \in Locations : e \in Tree(x)
                       \/ \E f \in Stashed : e \in f.edits
                       \/ \E i \in Ids : refs[i] # None /\ e \in refs[i].edits
BY StashTypes DEF Kept, TypeOK, Stashed

LEMMA KeptWhereAfter ==
    ASSUME TypeOK', NEW e
    PROVE  Kept(e)' <=> \/ \E x \in Locations : e \in Tree(x)'
                        \/ \E f \in Stashed' : e \in f.edits
                        \/ \E i \in Ids : refs'[i] # None /\ e \in refs'[i].edits
<1>1. DOMAIN stashes' = 1 .. Len(stashes')
  BY LenProperties DEF TypeOK
<1> QED
  BY <1>1 DEF Kept, Stashed

\* Of what one step takes away, every edit that matters is found in another place.
LEMMA LostNowhere ==
    ASSUME TypeOK, TypeOK', NothingLost, quiet' = quiet,
           \A e \in quiet : \A x \in Locations :
               e \in Tree(x) => \/ e \in Tree(x)'
                                \/ \E f \in Stashed' : e \in f.edits
                                \/ \E i \in Ids : refs'[i] # None /\ e \in refs'[i].edits,
           \A e \in quiet : \A f \in Stashed :
               e \in f.edits => f \in Stashed' \/ \E i \in Ids : refs'[i] # None /\ e \in refs'[i].edits,
           \A e \in quiet : \A i \in Ids :
               refs[i] # None /\ e \in refs[i].edits =>
                   refs'[i] = refs[i] \/ \E x \in Locations : e \in Tree(x)'
    PROVE  NothingLost'
<1> SUFFICES ASSUME NEW e \in quiet PROVE Kept(e)'
  BY DEF NothingLost
<1>1. Kept(e)
  BY DEF NothingLost
<1> QED
  BY <1>1, KeptWhere, KeptWhereAfter

LEMMA KeepsAll ==
    ASSUME TypeOK, TypeOK', NothingLost, quiet' = quiet, Stashed \subseteq Stashed',
           \A x \in Locations : Tree(x) \subseteq Tree(x)',
           \A i \in Ids : refs[i] # None => refs'[i] = refs[i]
    PROVE  NothingLost'
BY LostNowhere

LEMMA PushKeeps ==
    ASSUME Control, Control', Files, NothingLost, NEW p \in Processes, StashPush(p) \/ StashPushFails(p)
    PROVE  NothingLost'
<1>1. /\ pc[p] = "push" /\ TypeOK /\ TypeOK' /\ From(p) \in Locations
      /\ UNCHANGED <<committed, refs, quiet>>
  BY HeldType DEF StashPush, StashPushFails, Control, history
<1>2. CASE UNCHANGED <<stashes, changes>>
  BY <1>1, <1>2, KeepsAll DEF Stashed, Tree
<1>3. CASE Push(p) /\ (Clean(From(p)) \/ CleanInPart(From(p)))
  <2>1. PICK x \in Locations : x = From(p)
    BY <1>1
  <2>2. /\ \A y \in Locations : y # x => Tree(y)' = Tree(y)
        /\ Clean(x) \/ CleanInPart(x)
    BY <1>1, <1>3, <2>1, LessChanges
  <2>3. committed[x] \subseteq Tree(x)'
    BY <1>1 DEF Tree
  <2>4. Stashed \subseteq Stashed' /\ (changes[x] = {} \/ \E f \in Stashed' : f.edits = changes[x])
    <3>1. CASE changes[From(p)] = {}
      BY <1>1, <1>3, <2>1, <3>1 DEF Push, Stashed
    <3>2. CASE changes[From(p)] # {}
      <4> DEFINE e == [owner |-> Op(p).id, edits |-> changes[From(p)]]
      <4>1. Stashed' = Stashed \cup {e} /\ e.edits = changes[From(p)]
        BY <1>1, <1>3, <3>2, PushStash
      <4> QED
        BY <2>1, <4>1
    <3> QED
      BY <3>1, <3>2
  <2>5. Tree(x) = committed[x] \cup changes[x]
    BY DEF Tree
  <2> QED
    BY <1>1, <2>2, <2>3, <2>4, <2>5, LostNowhere
<1> QED
  BY <1>2, <1>3 DEF StashPush, StashPushFails

LEMMA CleanKeeps ==
    ASSUME Control, Control', Files, NothingLost, NEW p \in Processes,
           DiscardPartialApply(p) \/ ResetTarget(p) \/ CleaningFails(p)
    PROVE  NothingLost'
<1>1. /\ pc[p] \in {"discard", "reset"} /\ TypeOK /\ TypeOK'
      /\ UNCHANGED <<committed, stashes, refs, quiet>>
      /\ Clean(To(p)) \/ CleanInPart(To(p))
  BY DEF DiscardPartialApply, ResetTarget, CleaningFails, database, history, Control
<1>2. /\ KnowsTrees(p) /\ operation # None /\ To(p) = operation.to
      /\ refs[operation.id] = operation.stash /\ Op(p).stash = operation.stash
      /\ operation.stash # None /\ operation.id \in Ids /\ To(p) \in Locations
  BY <1>1, WorkFacts DEF RollingBack, Operation
<1>3. PICK x \in Locations : x = To(p)
  BY <1>2
<1>4. Tree(x) \cap quiet \subseteq committed[x] \cup operation.stash.edits
  <2>1. operation.targetHead \subseteq committed[x]
    BY <1>2, <1>3 DEF Files, FilesKept, TargetHoldsWork
  <2> QED
    BY <1>1, <1>2, <1>3, <2>1 DEF KnowsTrees
<1>5. /\ \A y \in Locations : y # x => Tree(y)' = Tree(y)
      /\ committed[x] \subseteq Tree(x)'
  <2>1. Clean(x) \/ CleanInPart(x)
    BY <1>1, <1>3
  <2> QED
    BY <1>1, <2>1, LessChanges DEF Tree
<1>6. Stashed' = Stashed /\ refs' = refs
  BY <1>1 DEF Stashed
<1>7. ASSUME NEW e \in quiet, NEW y \in Locations, e \in Tree(y)
      PROVE  e \in Tree(y)' \/ \E i \in Ids : refs'[i] # None /\ e \in refs'[i].edits
  <2>1. CASE y = x /\ e \in operation.stash.edits
    BY <1>2, <1>6, <2>1
  <2>2. CASE y = x /\ e \in committed[x]
    BY <1>5, <2>2
  <2>3. CASE y # x
    BY <1>5, <1>7, <2>3
  <2> QED
    BY <1>4, <1>7, <2>1, <2>2, <2>3
<1>8. TypeOK /\ TypeOK' /\ quiet' = quiet
  BY <1>1
<1> QED
  BY <1>6, <1>7, <1>8, LostNowhere

LEMMA BringKeeps ==
    ASSUME Control, Control', Files, NothingLost, NEW p \in Processes,
           ApplyToTarget(p) \/ ApplyToTargetFails(p) \/ RestoreSource(p) \/ RestoreSourceFails(p)
    PROVE  NothingLost'
<1>1. /\ pc[p] \in {"apply", "restore"} /\ TypeOK /\ TypeOK' /\ UNCHANGED <<committed, stashes, refs, quiet>>
  BY DEF ApplyToTarget, ApplyToTargetFails, RestoreSource, RestoreSourceFails, database, history, Control
<1>2. UNCHANGED changes \/ \E x \in Locations : \E part : Brings(x, part)
  <2>1. To(p) \in Locations /\ From(p) \in Locations
    BY <1>1, WorkFacts DEF RollingBack
  <2> QED
    BY <2>1 DEF ApplyToTarget, ApplyToTargetFails, RestoreSource, RestoreSourceFails, Apply, ApplyFails
<1>3. \A y \in Locations : Tree(y) \subseteq Tree(y)'
  <2>1. CASE UNCHANGED changes
    BY <1>1, <2>1 DEF Tree
  <2>2. ASSUME NEW x \in Locations, NEW part, Brings(x, part)
        PROVE  \A y \in Locations : Tree(y) \subseteq Tree(y)'
    BY <1>1, <2>2, MoreChanges
  <2> QED
    BY <1>2, <2>1, <2>2
<1>4. Stashed' = Stashed
  BY <1>1 DEF Stashed
<1> QED
  BY <1>1, <1>3, <1>4, KeepsAll

LEMMA DropKeeps ==
    ASSUME Control, Control', Files, NothingLost, NEW p \in Processes, DropStash(p) \/ SecureRef(p)
    PROVE  NothingLost'
<1>1. /\ pc[p] \in {"drop", "dropAgain", "cleanDrop", "secure", "secureAgain"} /\ pc[p] # "idle"
      /\ TypeOK /\ TypeOK' /\ Knows(p) /\ Op(p).id \in Ids
      /\ UNCHANGED <<committed, changes, quiet>> /\ Op(p).id = operation.id
      /\ Op(p).stash # None /\ Op(p).stash \in Entry /\ Snapshots = {Op(p).stash}
  <2>1. pc[p] \in {"drop", "dropAgain", "cleanDrop", "secure", "secureAgain"}
    BY DEF DropStash, SecureRef
  <2> QED
    BY <2>1, HeldType, AloneFacts, RecordFields, HeldSnapshot
       DEF DropStash, SecureRef, Control, database, history
<1>2. \A x \in Locations : Tree(x)' = Tree(x)
  BY <1>1 DEF Tree
<1>3. CASE DropStash(p)
  <2>1. Stashed' = Stashed \ {Op(p).stash} /\ refs' = refs
    <3>1. stashes \in Seq(Entry) /\ OneEntryEach /\ stashes' = Dropped(Op(p).stash)
      BY <1>1, <1>3 DEF Control, TypeOK, DropStash
    <3> QED
      BY <1>3, <3>1, DropFacts DEF DropStash
  <2>2. refs[Op(p).id] = Op(p).stash
    BY <1>1, <1>3 DEF DropStash, Knows, KnowsSnapshot, Secured
  <2> QED
    BY <1>1, <1>2, <2>1, <2>2, LostNowhere
<1>4. CASE SecureRef(p)
  <2>1. Stashed' = Stashed /\ refs' = [refs EXCEPT ![Op(p).id] = Op(p).stash]
    BY <1>4 DEF SecureRef, Stashed
  <2>2. refs[Op(p).id] # None => refs[Op(p).id] = Op(p).stash
    BY <1>1, SnapshotsOf DEF TypeOK
  <2>3. \A i \in Ids : refs[i] # None => refs'[i] = refs[i]
    BY <1>1, <2>1, <2>2 DEF TypeOK
  <2> QED
    BY <1>1, <1>2, <2>1, <2>3, KeepsAll
<1> QED
  BY <1>3, <1>4

\* The ref is deleted when the work is where the conversation is.
LEMMA DeleteRefKeeps ==
    ASSUME Control, Control', Files, NothingLost, NEW p \in Processes, DeleteRef(p)
    PROVE  NothingLost'
<1>1. /\ pc[p] = "cleanRef" /\ pc[p] # "idle"
      /\ TypeOK /\ TypeOK' /\ Knows(p) /\ KnowsTrees(p) /\ Op(p).id \in Ids
      /\ UNCHANGED <<committed, changes, stashes, quiet>>
      /\ refs' = [refs EXCEPT ![Op(p).id] = None]
      /\ From(p) = operation.from /\ To(p) = operation.to /\ operation # None
      /\ Snapshots = {Op(p).stash} /\ From(p) \in Locations /\ To(p) \in Locations
  BY HeldType, AloneFacts, RecordFields, HeldSnapshot DEF DeleteRef, Control, database, history, Files
<1>2. Op(p).stash = operation.stash /\ refs[Op(p).id] = Op(p).stash
  BY <1>1 DEF Knows, HoldsRecord, KnowsSnapshot, CleaningUp, Secured
<1>3. Stashed' = Stashed /\ \A x \in Locations : Tree(x)' = Tree(x)
  BY <1>1 DEF Stashed, Tree
<1>4. \A e \in quiet : e \in Op(p).stash.edits => \E x \in Locations : e \in Tree(x)
  <2>1. context \in {operation.from, operation.to}
    BY <1>1 DEF Control, RecordIsSound
  <2>2. CASE context = operation.from
    <3>1. operation.sourceTree \subseteq Tree(From(p))
      BY <1>1, <2>2 DEF KnowsTrees, CleaningUp
    <3>2. Op(p).stash.edits \cap quiet \subseteq operation.sourceTree
      BY <1>1 DEF Files, FilesKept, SnapshotHoldsSource
    <3> QED
      BY <1>1, <3>1, <3>2
  <2>3. CASE context = operation.to
    <3>1. Op(p).stash.edits \subseteq Tree(To(p))
      BY <1>1, <1>2, <2>3 DEF Files, FilesKept, TargetHoldsWork
    <3> QED
      BY <1>1, <3>1
  <2> QED
    BY <2>1, <2>2, <2>3
<1>5. \A i \in Ids : i # Op(p).id => refs'[i] = refs[i]
  BY <1>1 DEF TypeOK
<1> QED
  BY <1>1, <1>2, <1>3, <1>4, <1>5, LostNowhere

LEMMA UserKeeps ==
    ASSUME Control, Control', Files, NothingLost, NEW x \in Locations,
           Commit(x) \/ \E e \in Edits : Edit(x, e)
    PROVE  NothingLost'
<1>1. TypeOK /\ TypeOK'
  BY DEF Control
<1>2. CASE Commit(x)
  <2>1. UNCHANGED <<stashes, refs, quiet>> /\ Stashed' = Stashed
    BY <1>2 DEF Commit, history, Stashed
  <2>2. \A y \in Locations : Tree(y)' = Tree(y)
    BY <1>1, <1>2 DEF Commit, TypeOK, Tree, Clean
  <2> QED
    BY <1>1, <2>1, <2>2, KeepsAll
<1>3. ASSUME NEW e \in Edits, Edit(x, e) PROVE NothingLost'
  <2>1. UNCHANGED <<committed, stashes, refs>> /\ quiet' \subseteq quiet \cup {e} /\ Stashed' = Stashed
    BY <1>3 DEF Edit, Stashed
  <2>2. (\A y \in Locations : Tree(y) \subseteq Tree(y)') /\ e \in Tree(x)'
    BY <1>1, <1>3 DEF Edit, TypeOK, Tree
  <2>3. ASSUME NEW f \in quiet' PROVE Kept(f)'
    <3>1. CASE f = e
      BY <1>1, <2>2, <3>1, KeptWhereAfter
    <3>2. CASE f # e
      <4>1. Kept(f)
        BY <2>1, <3>2 DEF NothingLost
      <4> QED
        BY <1>1, <2>1, <2>2, <4>1, KeptWhere, KeptWhereAfter
    <3> QED
      BY <3>1, <3>2
  <2> QED
    BY <2>3 DEF NothingLost
<1> QED
  BY <1>2, <1>3

LEMMA NextKeeps ==
    ASSUME "retry" \notin Habits PROVE IInv /\ [Next]_vars => NothingLost'
<1> SUFFICES ASSUME Control, RefsAccountedFor, Files, NothingLost, [Next]_vars PROVE NothingLost'
  BY DEF IInv
<1>1. Control' /\ TypeOK /\ TypeOK'
  BY NextControl DEF Control
<1>2. ASSUME UNCHANGED git, quiet' = quiet PROVE NothingLost'
  <2>1. Stashed' = Stashed /\ refs' = refs /\ \A x \in Locations : Tree(x)' = Tree(x)
    BY <1>2 DEF git, Stashed, Tree
  <2> QED
    BY <1>1, <1>2, <2>1, KeepsAll
<1>3. CASE UNCHANGED vars
  BY <1>2, <1>3 DEF vars, history
<1>4. ASSUME NEW p \in Processes, MoveStep(p) PROVE NothingLost'
  <2>1. CASE MoveRecords(p) \/ VerifyStash(p) \/ MarkStashed(p) \/ RecordTarget(p) \/ NothingToRecord(p)
    BY <1>2, <2>1 DEF MoveRecords, VerifyStash, MarkStashed, RecordTarget, NothingToRecord, history
  <2> QED
    BY <1>1, <1>4, <2>1, PushKeeps, DropKeeps, BringKeeps DEF MoveStep
<1>5. ASSUME NEW p \in Processes, RollbackStep(p) PROVE NothingLost'
  <2>1. CASE CompareTrees(p) \/ ConfirmSource(p)
    BY <1>2, <2>1 DEF CompareTrees, ConfirmSource, history
  <2> QED
    BY <1>1, <1>5, <2>1, CleanKeeps, BringKeeps DEF RollbackStep
<1>6. ASSUME NEW p \in Processes, RecoverStep(p) \/ DeleteRecord(p) \/ Fails(p) \/ KilledBeforeSwitch(p)
      PROVE  NothingLost'
  BY <1>2, <1>6 DEF RecoverStep, FindNothing, FindStash, MarkRecovered, Survey, DeleteRecord, Fails,
                    KilledBeforeSwitch, history
<1>7. ASSUME NEW p \in Processes, DeleteRef(p) PROVE NothingLost'
  BY <1>1, <1>7, DeleteRefKeeps
<1>8. CASE (\E p \in Retries : Retry(p) \/ BootRecovers(p)) \/ Boot \/ Recovered \/ Kill
  BY <1>2, <1>8 DEF Retry, BootRecovers, Boot, Recovered, Kill, history
<1>9. ASSUME NEW to \in Locations, HandoffWithoutChanges(to) \/ MoveBegins(to) PROVE NothingLost'
  BY <1>2, <1>9 DEF HandoffWithoutChanges, MoveBegins, history
<1>10. ASSUME NEW x \in Locations, Commit(x) \/ \E e \in Edits : Edit(x, e) PROVE NothingLost'
  BY <1>1, <1>10, UserKeeps
<1> QED
  BY <1>3, <1>4, <1>5, <1>6, <1>7, <1>8, <1>9, <1>10 DEF Next

-----------------------------------------------------------------------------
(* The handoff implements WorkTransfer.                                    *)

\* What the source had that is not committed there.
Outstanding ==
    IF operation = None THEN {}
    ELSE {e \in quiet \cap operation.sourceTree : e \notin committed[operation.from]}

LEMMA CarriedIs == ASSUME NothingLost PROVE Carried = Outstanding
BY DEF NothingLost, Carried, Outstanding

LEMMA CarriedAfter == ASSUME NothingLost' PROVE Carried' = Outstanding'
BY DEF NothingLost, Carried, Outstanding

\* While a handoff is recorded, its work is at its ends or in its snapshot.
LEMMA OnItsWay ==
    ASSUME IInv, operation # None
    PROVE  /\ operation \in Operation /\ operation.from \in Locations /\ operation.to \in Locations
           /\ operation.from # operation.to /\ context \in {operation.from, operation.to}
           /\ Route = [from |-> operation.from, to |-> operation.to] /\ Route # None
           /\ Outstanding = {e \in quiet \cap operation.sourceTree : e \notin committed[operation.from]}
           /\ \A x \in Locations \ {operation.from, operation.to} : changes[x] \cap Outstanding = {}
           /\ operation.stash # None => Outstanding \subseteq operation.stash.edits
           /\ Snapshots = {} => Outstanding \subseteq changes[operation.from]
<1>1. /\ operation \in Operation /\ operation.from \in Locations /\ operation.to \in Locations
      /\ operation.from # operation.to /\ context \in {operation.from, operation.to}
  BY DEF IInv, Control, TypeOK, Operation, RecordIsSound
<1>2. Outstanding = {e \in quiet \cap operation.sourceTree : e \notin committed[operation.from]}
  BY DEF Outstanding
<1>3. Snapshots = {} => Outstanding \subseteq changes[operation.from]
  BY <1>2 DEF IInv, Files, FilesKept, SnapshotHoldsSource, Tree
<1>4. \A f \in Snapshots : /\ Outstanding \subseteq f.edits
                           /\ \A x \in Locations \ {operation.from, operation.to} :
                                changes[x] \cap f.edits = {}
  BY <1>2 DEF IInv, Files, FilesKept, SnapshotHoldsSource
<1>5. ASSUME NEW x \in Locations \ {operation.from, operation.to}
      PROVE  changes[x] \cap Outstanding = {}
  <2>1. CASE Snapshots = {}
    BY <1>1, <1>3, <2>1 DEF IInv, Files, FilesKept, NoCopies
  <2>2. CASE Snapshots # {}
    BY <1>4, <2>2
  <2> QED
    BY <2>1, <2>2
<1>6. operation.stash # None => operation.stash \in Snapshots
  BY <1>1 DEF Operation, Snapshots
<1>7. Route # None
  <2>1. [from |-> operation.from, to |-> operation.to] # None
    BY <1>1, NoneAssumption
  <2> QED
    BY <2>1 DEF Route
<1> QED
  BY <1>1, <1>2, <1>3, <1>4, <1>5, <1>6, <1>7 DEF Route

\* A step that moves work only between places that do not count.
LEMMA CarriesOn ==
    ASSUME IInv, IInv', Stranded' = Stranded, quiet' = quiet, committed' = committed, context' = context,
           operation = None <=> operation' = None,
           operation # None => /\ operation'.from = operation.from /\ operation'.to = operation.to
                               /\ operation'.sourceTree = operation.sourceTree,
           \A x \in Locations :
             (changes'[x] \cap quiet) \ Outstanding = (changes[x] \cap quiet) \ Outstanding
    PROVE  UNCHANGED Transfer!vars
<1>1. Outstanding' = Outstanding
  BY DEF Outstanding
<1>2. Carried = Outstanding /\ Carried' = Outstanding
  BY <1>1, CarriedIs, CarriedAfter DEF IInv
<1>3. WorkCommitted' = WorkCommitted
  BY DEF WorkCommitted
<1>4. WorkLeft' = WorkLeft
  BY <1>2 DEF WorkLeft
<1>5. Route' = Route
  BY DEF Route
<1> QED
  BY <1>1, <1>2, <1>3, <1>4, <1>5 DEF Transfer!vars

LEMMA LeavesTrees ==
    ASSUME IInv, IInv', Stranded' = Stranded, UNCHANGED <<git, operation, context, quiet>> \/
                        UNCHANGED <<committed, changes, operation, context, quiet>>
    PROVE  UNCHANGED Transfer!vars
BY CarriesOn DEF git

LEMMA LeavesRoute ==
    ASSUME IInv, IInv', Stranded' = Stranded, NEW p \in Processes, UNCHANGED <<committed, changes, quiet>>,
           \/ MarkStashed(p) \/ MarkRecovered(p) \/ KilledBeforeSwitch(p)
           \/ RecordTarget(p) /\ context' = context
    PROVE  UNCHANGED Transfer!vars
<1>1. context' = context /\ Control
  BY DEF MarkStashed, MarkRecovered, KilledBeforeSwitch, RecordTarget, IInv
<1>2. /\ operation # None /\ operation' # None /\ operation'.from = operation.from
      /\ operation'.to = operation.to /\ operation'.sourceTree = operation.sourceTree
  BY <1>1, RecordWritten
<1> QED
  BY <1>1, <1>2, CarriesOn

LEMMA PushTakesWork ==
    ASSUME IInv, IInv', Stranded' = Stranded, NEW p \in Processes, StashPush(p) \/ StashPushFails(p)
    PROVE  UNCHANGED Transfer!vars
<1>1. /\ pc[p] = "push" /\ pc[p] # "idle" /\ Control /\ TypeOK /\ KnowsTrees(p)
      /\ UNCHANGED <<committed, operation, context, quiet>>
  BY DEF StashPush, StashPushFails, IInv, Control, Files, database, history
<1>2. operation # None /\ From(p) = operation.from /\ From(p) \in Locations
  BY <1>1, RecordFields, HeldType
<1>3. \A x \in Locations : /\ x # From(p) => changes'[x] = changes[x]
                           /\ changes'[x] \subseteq changes[x]
  <2>1. CASE UNCHANGED changes
    BY <2>1
  <2>2. CASE Clean(From(p)) \/ CleanInPart(From(p))
    BY <1>1, <1>2, <2>2, LessChanges
  <2> QED
    BY <2>1, <2>2 DEF StashPush, StashPushFails
<1>4. changes[From(p)] \cap quiet \subseteq Outstanding
  <2>1. changes[From(p)] \cap quiet \subseteq operation.sourceTree
    BY <1>1 DEF KnowsTrees
  <2>2. changes[From(p)] \cap committed[From(p)] = {}
    BY <1>2 DEF IInv, Files, FilesKept, KnownEdits
  <2> QED
    BY <1>2, <2>1, <2>2, OnItsWay
<1> QED
  BY <1>1, <1>2, <1>3, <1>4, CarriesOn

LEMMA CleanTakesWork ==
    ASSUME IInv, IInv', Stranded' = Stranded, NEW p \in Processes,
           DiscardPartialApply(p) \/ ResetTarget(p) \/ CleaningFails(p)
    PROVE  UNCHANGED Transfer!vars
<1>1. /\ pc[p] \in {"discard", "reset"} /\ UNCHANGED <<committed, operation, context, quiet>>
      /\ Clean(To(p)) \/ CleanInPart(To(p))
  BY DEF DiscardPartialApply, ResetTarget, CleaningFails, database, history
<1>2. /\ KnowsTrees(p) /\ TypeOK /\ operation # None /\ operation.stash \in Snapshots
      /\ Op(p).stash = operation.stash /\ To(p) = operation.to /\ To(p) \in Locations
  BY <1>1, WorkFacts DEF RollingBack, IInv
<1>3. \A x \in Locations : /\ x # To(p) => changes'[x] = changes[x]
                           /\ changes'[x] \subseteq changes[x]
  BY <1>1, <1>2, LessChanges
<1>4. changes[To(p)] \cap quiet \subseteq Outstanding
  <2>1. changes[To(p)] \cap quiet \subseteq committed[To(p)] \cup operation.stash.edits
    <3>1. operation.targetHead \subseteq committed[To(p)]
      BY <1>2 DEF IInv, Files, FilesKept, TargetHoldsWork
    <3> QED
      BY <1>1, <1>2, <3>1 DEF KnowsTrees, Tree
  <2>2. changes[To(p)] \cap committed[To(p)] = {}
    BY <1>2 DEF IInv, Files, FilesKept, KnownEdits
  <2>3. operation.stash.edits \cap quiet \subseteq operation.sourceTree
    BY <1>2 DEF IInv, Files, FilesKept, SnapshotHoldsSource
  <2>4. changes[To(p)] \cap committed[operation.from] \cap quiet = {}
    BY <1>2 DEF IInv, Files, FilesKept, TargetHoldsWork
  <2> QED
    BY <1>2, <2>1, <2>2, <2>3, <2>4, OnItsWay
<1> QED
  BY <1>1, <1>2, <1>3, <1>4, CarriesOn

LEMMA BringTakesWork ==
    ASSUME IInv, IInv', Stranded' = Stranded, NEW p \in Processes,
           ApplyToTarget(p) \/ ApplyToTargetFails(p) \/ RestoreSource(p) \/ RestoreSourceFails(p)
    PROVE  UNCHANGED Transfer!vars
<1>1. /\ pc[p] \in {"apply", "restore"} /\ UNCHANGED <<committed, operation, context, quiet>>
  BY DEF ApplyToTarget, ApplyToTargetFails, RestoreSource, RestoreSourceFails, database, history
<1>2. /\ KnowsTrees(p) /\ TypeOK /\ operation # None /\ operation.stash \in Snapshots
      /\ operation.stash # None /\ refs[Op(p).id] = operation.stash /\ Recorded(p)
      /\ Op(p).stash = operation.stash /\ From(p) = operation.from /\ To(p) = operation.to
      /\ From(p) \in Locations /\ To(p) \in Locations /\ From(p) # To(p)
  BY <1>1, WorkFacts, RecordFields DEF RollingBack, IInv
<1>3. PICK x \in Locations : /\ pc[p] = "apply" => x = To(p)
                             /\ pc[p] = "restore" => x = From(p)
  BY <1>1, <1>2
<1>4. PICK part \in SUBSET operation.stash.edits : Brings(x, part)
  BY <1>1, <1>2, <1>3
     DEF ApplyToTarget, ApplyToTargetFails, RestoreSource, RestoreSourceFails, Apply, ApplyFails
<1>5. /\ \A y \in Locations : y # x => changes'[y] = changes[y]
      /\ changes'[x] = changes[x] \cup (part \ committed[x])
  BY <1>1, <1>2, <1>4, MoreChanges
<1>6. (part \ committed[x]) \cap quiet \subseteq Outstanding
  <2>1. operation.stash.edits \cap quiet \subseteq operation.sourceTree
    BY <1>2 DEF IInv, Files, FilesKept, SnapshotHoldsSource
  <2>2. pc[p] = "apply" => committed[From(p)] \cap operation.stash.edits \cap quiet = {}
    BY <1>2 DEF KnowsTrees
  <2> QED
    BY <1>1, <1>2, <1>3, <2>1, <2>2, OnItsWay
<1> QED
  BY <1>1, <1>2, <1>5, <1>6, CarriesOn

LEMMA RecordDeparts ==
    ASSUME IInv, IInv', Stranded' = Stranded, NEW p \in Processes, MoveRecords(p)
    PROVE  Transfer!Depart(To(p))
<1>1. /\ pc[p] = "snapshot" /\ pc[p] # "idle" /\ Knows(p) /\ KnowsTrees(p) /\ TypeOK
      /\ held[p] \in Held /\ Op(p) \in Operation /\ From(p) \in Locations /\ To(p) \in Locations
  BY AloneFacts, HeldType DEF MoveRecords, Files, IInv
<1>2. operation = None /\ context = From(p) /\ From(p) # To(p)
  BY <1>1 DEF Knows, HoldsRecord, KnowsContext
<1>3. /\ operation' = [Op(p) EXCEPT !.sourceHead = committed[From(p)],
                                    !.sourceTree = Tree(From(p)),
                                    !.targetHead = committed[To(p)]]
      /\ UNCHANGED <<committed, changes, context, quiet>>
  BY DEF MoveRecords, git, history
<1>4. /\ operation'.from = From(p) /\ operation'.to = To(p) /\ operation'.sourceTree = Tree(From(p))
      /\ operation' # None
  <2>1. /\ operation'.from = From(p) /\ operation'.to = To(p) /\ operation'.sourceTree = Tree(From(p))
    BY <1>1, <1>3 DEF Operation, From, To
  <2>2. pc'[p] # "snapshot" /\ pc'[p] # "idle"
    BY <1>1 DEF MoveRecords, Hold, TypeOK
  <2>3. operation' # None
    BY <2>2 DEF IInv, Control, Knows, HoldsRecord
  <2> QED
    BY <2>1, <2>3
<1>5. Outstanding = {} /\ Outstanding' = changes[From(p)] \cap quiet
  <2>1. committed[From(p)] \cap changes[From(p)] = {}
    BY <1>1 DEF IInv, Files, FilesKept, KnownEdits
  <2> QED
    BY <1>2, <1>3, <1>4, <2>1 DEF Outstanding, Tree
<1>6. Carried = {} /\ Carried' = changes[From(p)] \cap quiet
  BY <1>5, CarriedIs, CarriedAfter DEF IInv
<1>7. Route = None /\ Route' = [from |-> context, to |-> To(p)]
  BY <1>2, <1>4 DEF Route
<1>8. WorkLeft[To(p)] = {} /\ WorkLeft[context] = changes[From(p)] \cap quiet
  BY <1>1, <1>2, <1>6 DEF WorkLeft, KnowsTrees
<1>9. WorkLeft' = [WorkLeft EXCEPT ![context] = {}]
  <2>1. \A x \in Locations : x # context => changes[x] \cap Carried' = {}
    BY <1>1, <1>2, <1>6 DEF IInv, Files, FilesKept, NoCopies
  <2>2. WorkLeft' = [x \in Locations |-> (changes[x] \cap quiet) \ Carried']
    BY <1>3 DEF WorkLeft
  <2>3. WorkLeft = [x \in Locations |-> changes[x] \cap quiet]
    BY <1>6 DEF WorkLeft
  <2> QED
    BY <1>1, <1>2, <1>6, <2>1, <2>2, <2>3
<1>10. WorkCommitted' = WorkCommitted
  BY <1>3 DEF WorkCommitted
<1> QED
  BY <1>2, <1>3, <1>6, <1>7, <1>8, <1>9, <1>10 DEF Transfer!Depart

LEMMA RecordSwitches ==
    ASSUME IInv, IInv', Stranded' = Stranded, NEW p \in Processes, RecordTarget(p), context' # context
    PROVE  Transfer!Switch
<1>1. /\ pc[p] = "record" /\ pc[p] # "idle" /\ context' = To(p)
      /\ operation' = [operation EXCEPT !.targetTree = Tree(To(p))]
      /\ UNCHANGED <<committed, changes, quiet>>
  BY DEF RecordTarget, git, history
<1>2. operation # None /\ To(p) = operation.to /\ context = operation.from
  BY <1>1, WorkFacts DEF IInv
<1>3. /\ operation' # None /\ operation'.from = operation.from /\ operation'.to = operation.to
      /\ operation'.sourceTree = operation.sourceTree
  BY <1>1, RecordTargetFacts DEF IInv
<1>4. Outstanding' = Outstanding
  BY <1>1, <1>2, <1>3 DEF Outstanding
<1>5. Carried' = Carried
  BY <1>4, CarriedIs, CarriedAfter DEF IInv
<1>6. Route' = Route /\ Route = [from |-> operation.from, to |-> operation.to] /\ Route # None
  BY <1>2, <1>3, OnItsWay DEF Route
<1>7. WorkLeft' = WorkLeft /\ WorkCommitted' = WorkCommitted
  BY <1>1, <1>5 DEF WorkLeft, WorkCommitted
<1> QED
  BY <1>1, <1>2, <1>5, <1>6, <1>7 DEF Transfer!Switch

\* A record that is deleted leaves all its work where the conversation is.
LEMMA Arrival ==
    ASSUME IInv, IInv', Stranded' = Stranded, operation # None, operation' = None,
           UNCHANGED <<committed, changes, context, quiet>>,
           Outstanding \subseteq Tree(context),
           \A x \in Locations : x # context => changes[x] \cap Outstanding = {}
    PROVE  Transfer!Arrive
<1>1. Outstanding' = {}
  BY DEF Outstanding
<1>2. Carried = Outstanding /\ Carried' = {}
  BY <1>1, CarriedIs, CarriedAfter DEF IInv
<1>3. Route # None /\ Route' = None
  BY OnItsWay DEF Route
<1>4. WorkCommitted' = WorkCommitted
  BY DEF WorkCommitted
<1>5. /\ context \in Locations /\ Outstanding \subseteq quiet
      /\ committed[context] \cap changes[context] = {}
  BY DEF IInv, Control, TypeOK, Outstanding, Files, FilesKept, KnownEdits
<1>6. WorkLeft' = [x \in Locations |-> changes[x] \cap quiet]
  BY <1>2 DEF WorkLeft
<1>7. WorkLeft = [x \in Locations |-> (changes[x] \cap quiet) \ Outstanding]
  BY <1>2 DEF WorkLeft
<1>8. WorkCommitted[context] = committed[context] \cap quiet
  BY <1>5 DEF WorkCommitted
<1>9. WorkLeft' = [WorkLeft EXCEPT ![context] = @ \cup (Carried \ WorkCommitted[context])]
  <2>1. changes[context] \cap quiet
          = ((changes[context] \cap quiet) \ Outstanding) \cup (Outstanding \ WorkCommitted[context])
    BY <1>5, <1>8 DEF Tree
  <2>2. \A x \in Locations : x # context => (changes[x] \cap quiet) \ Outstanding = changes[x] \cap quiet
    OBVIOUS
  <2> QED
    BY <1>2, <1>5, <1>6, <1>7, <2>1, <2>2
<1> QED
  BY <1>2, <1>3, <1>4, <1>9 DEF Transfer!Arrive

LEMMA DeleteRecordArrives ==
    ASSUME IInv, IInv', Stranded' = Stranded, NEW p \in Processes, DeleteRecord(p)
    PROVE  Transfer!Arrive
<1>1. /\ pc[p] = "cleanRecord" /\ pc[p] # "idle" /\ Control /\ Files
      /\ UNCHANGED <<committed, changes, context, quiet>>
  BY DEF DeleteRecord, IInv, git, history
<1>2. /\ Knows(p) /\ KnowsTrees(p) /\ operation # None /\ operation' = None
      /\ From(p) = operation.from /\ To(p) = operation.to
      /\ Op(p).stash = operation.stash /\ operation.stash # None
  BY <1>1, AloneFacts, RecordFields DEF DeleteRecord, Files, Knows, HoldsRecord, CleaningUp
<1>3. /\ Outstanding \subseteq operation.stash.edits /\ Outstanding \subseteq operation.sourceTree
      /\ context \in {operation.from, operation.to}
      /\ \A x \in Locations \ {operation.from, operation.to} : changes[x] \cap Outstanding = {}
  BY <1>2, OnItsWay
<1>4. CASE context = operation.from
  <2>1. /\ operation.sourceTree \subseteq Tree(context)
        /\ changes[operation.to] \cap operation.stash.edits = {}
    BY <1>1, <1>2, <1>4 DEF KnowsTrees, CleaningUp
  <2>2. \A x \in Locations : x # context => changes[x] \cap Outstanding = {}
    BY <1>3, <1>4, <2>1
  <2> QED
    BY <1>1, <1>2, <1>3, <2>1, <2>2, Arrival
<1>5. CASE context = operation.to
  <2>1. /\ operation.stash.edits \subseteq Tree(context)
        /\ changes[operation.from] \cap operation.stash.edits = {}
    BY <1>1, <1>2, <1>5 DEF Files, FilesKept, TargetHoldsWork
  <2>2. \A x \in Locations : x # context => changes[x] \cap Outstanding = {}
    BY <1>3, <1>5, <2>1
  <2> QED
    BY <1>1, <1>2, <1>3, <2>1, <2>2, Arrival
<1> QED
  BY <1>3, <1>4, <1>5

\* The recovery that finds no snapshot: the work is in the source, or in the ref that
\* was not read.
LEMMA FindNothingEnds ==
    ASSUME IInv, IInv', NEW p \in Processes, FindNothing(p), operation' # operation
    PROVE  \/ Transfer!Arrive
           \/ \E part \in SUBSET Carried : \E done \in SUBSET WorkCommitted[context] :
                Transfer!Strand(part, done)
<1>1. /\ pc[p] = "find" /\ pc[p] # "idle" /\ Control /\ Files /\ operation' = None
      /\ UNCHANGED <<committed, changes, refs, context, quiet>> /\ TookNothing(p)
      /\ overlooked' = overlooked \cup {i \in {Op(p).id} : refs[i] # None}
  BY DEF FindNothing, IInv, git
<1>2. /\ Op(p).stash = operation.stash /\ Op(p).id = operation.id /\ operation # None
      /\ From(p) = operation.from /\ To(p) = operation.to /\ From(p) # To(p)
      /\ held[p].context = context /\ refs[operation.id] \in Entry \cup {None}
  BY <1>1, AloneFacts, RecordFields, HeldType DEF Knows, HoldsRecord, KnowsContext, Looking
<1>3. /\ operation.stash = None /\ \A e \in Stashed : e.owner # operation.id
  BY <1>1, <1>2, FoundNothing DEF Control, TypeOK
<1>4. context = operation.from /\ context \in Locations
  BY <1>1, <1>2, <1>3 DEF Control, RecordIsSound, TypeOK
<1>5. \A e \in Stashed : e.owner = 0
  BY <1>1, <1>3 DEF Control, NothingElseKept
<1>6. CASE refs[operation.id] = None
  <2>1. Snapshots = {}
    BY <1>1, <1>2, <1>3, <1>5, <1>6, SnapshotsOf, NoneAssumption
  <2>2. Outstanding \subseteq changes[operation.from] /\ operation.from \in Locations
    BY <1>2, <2>1, OnItsWay
  <2>3. \A x \in Locations : x # context => changes[x] \cap Outstanding = {}
    BY <1>1, <1>4, <2>2 DEF Files, FilesKept, NoCopies
  <2>4. Stranded' = Stranded
    <3>1. overlooked' = overlooked
      BY <1>1, <1>2, <1>6
    <3> QED
      BY <1>1, <3>1 DEF Stranded
  <2> QED
    BY <1>1, <1>2, <1>4, <2>2, <2>3, <2>4, Arrival DEF Tree
<1>7. CASE refs[operation.id] # None
  <2> DEFINE ref == refs[operation.id]
             part == changes[context] \cap Outstanding
             done == committed[context] \cap quiet \cap ref.edits
  <2>1. ref \in Snapshots /\ overlooked' = overlooked \cup {operation.id}
    BY <1>1, <1>2, <1>7, SnapshotsOf
  <2>2. /\ operation.sourceTree \subseteq committed[context] \cup ref.edits
        /\ ref.edits \cap quiet \subseteq operation.sourceTree
    BY <1>1, <1>2, <1>4, <2>1 DEF Files, FilesKept, SnapshotHoldsSource
  <2>3. Outstanding = {e \in quiet \cap operation.sourceTree : e \notin committed[context]}
    BY <1>2, <1>4 DEF Outstanding
  <2>4. \A x \in Locations : x # context => changes[x] \cap Outstanding = {}
    <3>1. changes[operation.to] = {}
      BY <1>1, <1>2, <1>4 DEF TookNothing
    <3> QED
      BY <1>2, <1>4, <3>1, OnItsWay
  <2>5. Outstanding' = {}
    BY <1>1 DEF Outstanding
  <2>6. Carried = Outstanding /\ Carried' = {}
    BY <2>5, CarriedIs, CarriedAfter DEF IInv
  <2>7. quiet \cap ref.edits = Outstanding \cup done
    BY <2>2, <2>3
  <2>8. Stranded' = Stranded \cup Carried \cup done
    <3>1. UNION {refs'[i].edits : i \in overlooked'}
            = (UNION {refs[i].edits : i \in overlooked}) \cup ref.edits
      BY <1>1, <2>1
    <3>2. Stranded' = quiet \cap UNION {refs'[i].edits : i \in overlooked'}
      BY <1>1 DEF Stranded
    <3> QED
      BY <2>6, <2>7, <3>1, <3>2 DEF Stranded
  <2>9. WorkLeft' = [WorkLeft EXCEPT ![context] = @ \cup part]
    <3>1. WorkLeft' = [x \in Locations |-> changes[x] \cap quiet]
      BY <1>1, <2>6 DEF WorkLeft
    <3>2. WorkLeft = [x \in Locations |-> (changes[x] \cap quiet) \ Outstanding]
      BY <2>6 DEF WorkLeft
    <3>3. changes[context] \cap quiet = ((changes[context] \cap quiet) \ Outstanding) \cup part
      BY <2>3
    <3>4. \A x \in Locations :
            x # context => (changes[x] \cap quiet) \ Outstanding = changes[x] \cap quiet
      BY <2>4
    <3> QED
      BY <1>4, <3>1, <3>2, <3>3, <3>4
  <2>10. part \in SUBSET Carried /\ done \in SUBSET WorkCommitted[context]
    BY <1>4, <2>6 DEF WorkCommitted
  <2>11. Route # None /\ Route' = None /\ context = Route.from
    BY <1>1, <1>2, <1>4, OnItsWay DEF Route
  <2>12. WorkCommitted' = WorkCommitted /\ context' = context
    BY <1>1 DEF WorkCommitted
  <2> HIDE DEF part, done, ref
  <2>13. Transfer!Strand(part, done)
    BY <2>6, <2>8, <2>9, <2>10, <2>11, <2>12 DEF Transfer!Strand
  <2> QED
    BY <2>10, <2>13
<1> QED
  BY <1>6, <1>7

LEMMA UserEdits ==
    ASSUME IInv, IInv', Stranded' = Stranded, NEW x \in Locations, NEW e \in Edits, Edit(x, e)
    PROVE  Transfer!Edit(x, e) \/ UNCHANGED Transfer!vars
<1>1. /\ e \notin Used /\ changes' = [changes EXCEPT ![x] = @ \cup {e}] /\ TypeOK
      /\ UNCHANGED <<committed, operation, context>>
      /\ quiet' = quiet \/ (quiet' = quiet \cup {e})
  BY DEF Edit, Used, database, IInv, Control
<1>2. \A y \in Locations : changes'[y] = IF y = x THEN changes[y] \cup {e} ELSE changes[y]
  BY <1>1 DEF TypeOK
<1>3. CASE quiet' = quiet
  <2>1. \A y \in Locations : changes'[y] \cap quiet = changes[y] \cap quiet
    BY <1>1, <1>2 DEF Used
  <2> QED
    BY <1>1, <1>3, <2>1, CarriesOn
<1>4. CASE quiet' = quiet \cup {e}
  <2>1. \A y \in Locations : e \notin committed[y] /\ e \notin changes[y]
    BY <1>1 DEF IInv, Files, FilesKept, KnownEdits, Tree
  <2>2. operation # None => e \notin operation.sourceTree
    <3>1. ASSUME operation # None, Snapshots = {} PROVE e \notin operation.sourceTree
      BY <2>1, <3>1, OnItsWay DEF IInv, Files, FilesKept, SnapshotHoldsSource, Tree
    <3>2. ASSUME operation # None, NEW f \in Snapshots PROVE e \notin operation.sourceTree
      <4>1. e \notin f.edits
        BY <1>1, <3>2 DEF IInv, Files, FilesKept, KnownEdits
      <4> QED
        BY <2>1, <3>2, <4>1, OnItsWay DEF IInv, Files, FilesKept, SnapshotHoldsSource
    <3> QED
      BY <3>1, <3>2
  <2>3. Outstanding' = Outstanding
    BY <1>1, <1>4, <2>2 DEF Outstanding
  <2>4. Carried' = Carried /\ e \notin Carried
    <3>1. e \notin Outstanding
      BY <2>2 DEF Outstanding
    <3> QED
      BY <2>3, <3>1, CarriedIs, CarriedAfter DEF IInv
  <2>5. WorkCommitted' = WorkCommitted
    <3>1. \A y \in Locations : committed[y] \cap quiet' = committed[y] \cap quiet
      BY <1>4, <2>1
    <3> QED
      BY <1>1, <3>1 DEF WorkCommitted
  <2>6. WorkLeft' = [WorkLeft EXCEPT ![x] = @ \cup {e}]
    <3>1. WorkLeft' = [y \in Locations |-> (changes'[y] \cap quiet') \ Carried]
      BY <2>4 DEF WorkLeft
    <3>2. \A y \in Locations : (changes'[y] \cap quiet') \ Carried
              = IF y = x THEN ((changes[y] \cap quiet) \ Carried) \cup {e}
                ELSE (changes[y] \cap quiet) \ Carried
      BY <1>2, <1>4, <2>1, <2>4
    <3> QED
      BY <3>1, <3>2 DEF WorkLeft
  <2>7. \A y \in Locations : e \notin WorkCommitted[y] \cup WorkLeft[y]
    BY <2>1 DEF WorkCommitted, WorkLeft
  <2>8. Route' = Route
    BY <1>1 DEF Route
  <2>9. e \notin Stranded
    BY <1>1 DEF Stranded, Used
  <2> QED
    BY <1>1, <2>4, <2>5, <2>6, <2>7, <2>8, <2>9 DEF Transfer!Edit
<1> QED
  BY <1>1, <1>3, <1>4

LEMMA UserCommits ==
    ASSUME IInv, IInv', Stranded' = Stranded, NEW x \in Locations, Commit(x)
    PROVE  \E part \in SUBSET Carried : Transfer!Commit(x, part)
<1>1. /\ TypeOK /\ UNCHANGED <<operation, context, quiet>>
      /\ committed' = [committed EXCEPT ![x] = @ \cup changes[x]]
      /\ changes' = [changes EXCEPT ![x] = {}]
  BY DEF Commit, Clean, database, history, IInv, Control
<1>2. \A y \in Locations :
        /\ committed'[y] = IF y = x THEN committed[y] \cup changes[y] ELSE committed[y]
        /\ changes'[y] = IF y = x THEN {} ELSE changes[y]
  BY <1>1 DEF TypeOK
<1> DEFINE part == Outstanding \cap changes[x]
<1>3. Outstanding \subseteq quiet
  BY DEF Outstanding
<1>4. part # {} => operation # None /\ x \in {operation.from, operation.to}
  <2>1. operation = None => Outstanding = {}
    BY DEF Outstanding
  <2> QED
    BY <2>1, OnItsWay
<1>5. Outstanding' = IF part # {} /\ x = operation.from THEN Outstanding \ part ELSE Outstanding
  <2>1. CASE operation = None
    BY <1>1, <2>1 DEF Outstanding
  <2>2. CASE operation # None
    <3>1. Outstanding = {e \in quiet \cap operation.sourceTree : e \notin committed[operation.from]}
      BY <2>2 DEF Outstanding
    <3>2. Outstanding' = {e \in quiet \cap operation.sourceTree : e \notin committed'[operation.from]}
      BY <1>1, <2>2 DEF Outstanding
    <3> QED
      BY <1>2, <2>2, <3>1, <3>2, OnItsWay
  <2> QED
    BY <2>1, <2>2
<1>6. \A y \in Locations : y # x => changes[y] \cap part = {}
  BY DEF IInv, Files, FilesKept, NoCopies
<1>7. Carried = Outstanding /\ Carried' = Outstanding'
  BY CarriedIs, CarriedAfter DEF IInv
<1> HIDE DEF part
<1>8. WorkCommitted' = [WorkCommitted EXCEPT ![x] = @ \cup WorkLeft[x] \cup part]
  <2>1. WorkCommitted' = [y \in Locations |-> committed'[y] \cap quiet]
    BY <1>1 DEF WorkCommitted
  <2>2. changes[x] \cap quiet = WorkLeft[x] \cup part
    BY <1>3, <1>7 DEF WorkLeft, part
  <2>3. \A y \in Locations : committed'[y] \cap quiet
            = IF y = x THEN (committed[y] \cap quiet) \cup WorkLeft[x] \cup part
              ELSE committed[y] \cap quiet
    BY <1>2, <2>2
  <2> QED
    BY <2>1, <2>3 DEF WorkCommitted
<1>9. WorkLeft' = [WorkLeft EXCEPT ![x] = {}]
  <2>1. WorkLeft' = [y \in Locations |-> (changes'[y] \cap quiet) \ Outstanding']
    BY <1>1, <1>7 DEF WorkLeft
  <2>2. \A y \in Locations : (changes'[y] \cap quiet) \ Outstanding'
            = IF y = x THEN {} ELSE (changes[y] \cap quiet) \ Outstanding
    BY <1>2, <1>5, <1>6
  <2> QED
    BY <1>7, <2>1, <2>2 DEF WorkLeft
<1>10. Route' = Route /\ (operation # None => Route.from = operation.from /\ Route.to = operation.to)
  BY <1>1 DEF Route
<1>11. part \in SUBSET Carried /\ (part # {} => x \in {Route.from, Route.to})
  BY <1>4, <1>7, <1>10 DEF part
<1>12. Carried' = IF part # {} /\ x = Route.from THEN Carried \ part ELSE Carried
  BY <1>4, <1>5, <1>7, <1>10
<1> QED
  BY <1>1, <1>8, <1>9, <1>10, <1>11, <1>12 DEF Transfer!Commit

\* A handoff without changes, and one that has not inserted its record yet.
LEMMA HandoffBegins ==
    ASSUME IInv, IInv', Stranded' = Stranded, NEW to \in Locations, HandoffWithoutChanges(to) \/ MoveBegins(to)
    PROVE  Transfer!MoveAlone(to) \/ UNCHANGED Transfer!vars
<1>1. /\ operation = None /\ operation' = None /\ UNCHANGED <<committed, changes, quiet>>
      /\ context \in Locations
  BY DEF HandoffWithoutChanges, MoveBegins, CanHandOff, git, database, history, IInv, Control, TypeOK
<1>2. CASE MoveBegins(to)
  BY <1>1, <1>2, CarriesOn DEF MoveBegins, database
<1>3. CASE HandoffWithoutChanges(to)
  <2>1. Outstanding = {} /\ Outstanding' = {}
    BY <1>1 DEF Outstanding
  <2>2. Carried = {} /\ Carried' = {}
    BY <2>1, CarriedIs, CarriedAfter DEF IInv
  <2>3. WorkLeft' = WorkLeft /\ WorkCommitted' = WorkCommitted
    BY <1>1, <2>2 DEF WorkLeft, WorkCommitted
  <2>4. changes[context] = {} /\ context' = to
    BY <1>3 DEF HandoffWithoutChanges
  <2>5. WorkLeft[context] = {} /\ Route = None /\ Route' = None
    BY <1>1, <2>4 DEF WorkLeft, Route
  <2> QED
    BY <2>2, <2>3, <2>4, <2>5 DEF Transfer!MoveAlone
<1> QED
  BY <1>2, <1>3

\* The refs that no record names stay as they are.
LEMMA StaysStranded ==
    ASSUME "retry" \notin Habits, IInv, [Next]_vars
    PROVE  Stranded' = Stranded \/ \E p \in Processes : FindNothing(p)
<1>1. /\ overlooked' = overlooked \/ \E p \in Processes : FindNothing(p)
      /\ \A i \in overlooked : refs'[i] = refs[i]
      /\ quiet' # quiet => \E e \in Edits : e \notin Used /\ quiet' = quiet \cup {e}
  BY NextRefs DEF IInv
<1>2. ASSUME overlooked' = overlooked PROVE Stranded' = Stranded
  <2> DEFINE work == UNION {refs[i].edits : i \in overlooked}
  <2>1. work \subseteq Used
    BY DEF IInv, RefsAccountedFor
  <2>2. Stranded' = quiet' \cap work
    <3>1. {refs'[i].edits : i \in overlooked'} = {refs[i].edits : i \in overlooked}
      BY <1>1, <1>2
    <3> QED
      BY <3>1 DEF Stranded
  <2>3. Stranded = quiet \cap work
    BY DEF Stranded
  <2> HIDE DEF work
  <2> QED
    BY <1>1, <2>1, <2>2, <2>3
<1> QED
  BY <1>1, <1>2

LEMMA TransferStep ==
    ASSUME "retry" \notin Habits PROVE IInv /\ IInv' /\ [Next]_vars => [Transfer!Next]_(Transfer!vars)
<1> SUFFICES ASSUME IInv, IInv', [Next]_vars PROVE Transfer!Next \/ UNCHANGED Transfer!vars
  OBVIOUS
<1>9. ASSUME NEW p \in Processes, FindNothing(p)
      PROVE  Transfer!Next \/ UNCHANGED Transfer!vars
  <2>1. CASE operation' # operation
    BY <1>9, <2>1, FindNothingEnds DEF Transfer!Next
  <2>2. CASE operation' = operation
    <3>1. UNCHANGED <<committed, changes, refs, operation, context, quiet, overlooked>>
      <4>1. overlooked' = overlooked \/ (operation' = None /\ Recorded(p))
        BY <1>9 DEF FindNothing
      <4>2. overlooked' = overlooked
        BY <2>2, <4>1 DEF Recorded
      <4>3. UNCHANGED <<committed, changes, refs, context, quiet>>
        BY <1>9 DEF FindNothing, git
      <4> QED
        BY <2>2, <4>2, <4>3
    <3>2. Stranded' = Stranded
      BY <3>1 DEF Stranded
    <3> QED
      BY <3>1, <3>2, LeavesTrees
  <2> QED
    BY <2>1, <2>2
<1>10. CASE \E p \in Processes : FindNothing(p)
  BY <1>9, <1>10
<1> SUFFICES ASSUME Stranded' = Stranded PROVE Transfer!Next \/ UNCHANGED Transfer!vars
  BY <1>10, StaysStranded
<1>1. ASSUME NEW p \in Processes, MoveStep(p)
      PROVE  Transfer!Next \/ UNCHANGED Transfer!vars
  <2>1. CASE MoveRecords(p)
    <3>1. To(p) \in Locations
      BY <2>1, HeldType DEF MoveRecords, IInv, Control
    <3> QED
      BY <2>1, <3>1, RecordDeparts DEF Transfer!Next
  <2>2. CASE RecordTarget(p)
    <3>1. UNCHANGED <<committed, changes, quiet>>
      BY <2>2 DEF RecordTarget, git, history
    <3> QED
      BY <2>2, <3>1, RecordSwitches, LeavesRoute DEF Transfer!Next
  <2>3. CASE MarkStashed(p)
    BY <2>3, LeavesRoute DEF MarkStashed, git, history
  <2>4. CASE VerifyStash(p) \/ SecureRef(p) \/ DropStash(p) \/ NothingToRecord(p)
    <3>1. UNCHANGED <<committed, changes, operation, context, quiet>>
      BY <2>4 DEF VerifyStash, SecureRef, DropStash, NothingToRecord, git, database, history
    <3> QED
      BY <3>1, LeavesTrees
  <2> QED
    BY <1>1, <2>1, <2>2, <2>3, <2>4, PushTakesWork, BringTakesWork DEF MoveStep
<1>2. ASSUME NEW p \in Processes, RollbackStep(p) PROVE UNCHANGED Transfer!vars
  <2>1. CASE CompareTrees(p) \/ ConfirmSource(p)
    <3>1. UNCHANGED <<committed, changes, operation, context, quiet>>
      BY <2>1 DEF CompareTrees, ConfirmSource, git, database, history
    <3> QED
      BY <3>1, LeavesTrees
  <2> QED
    BY <1>2, <2>1, CleanTakesWork, BringTakesWork DEF RollbackStep
<1>3. ASSUME NEW p \in Processes, RecoverStep(p)
      PROVE  Transfer!Next \/ UNCHANGED Transfer!vars
  <2>1. CASE FindNothing(p)
    BY <1>9, <2>1
  <2>2. CASE MarkRecovered(p)
    BY <2>2, LeavesRoute DEF MarkRecovered, git, history
  <2>3. CASE FindStash(p) \/ Survey(p)
    <3>1. UNCHANGED <<committed, changes, operation, context, quiet>>
      BY <2>3 DEF FindStash, Survey, git, database, history
    <3> QED
      BY <3>1, LeavesTrees
  <2> QED
    BY <1>3, <2>1, <2>2, <2>3 DEF RecoverStep
<1>4. ASSUME NEW p \in Processes, KilledBeforeSwitch(p) PROVE UNCHANGED Transfer!vars
  BY <1>4, LeavesRoute DEF KilledBeforeSwitch, git, history
<1>5. ASSUME NEW p \in Processes, DeleteRecord(p) PROVE Transfer!Next
  BY <1>5, DeleteRecordArrives DEF Transfer!Next
<1>6. ASSUME NEW x \in Locations, Commit(x) \/ \E e \in Edits : Edit(x, e)
      PROVE  Transfer!Next \/ UNCHANGED Transfer!vars
  BY <1>6, UserCommits, UserEdits DEF Transfer!Next
<1>7. ASSUME NEW to \in Locations, HandoffWithoutChanges(to) \/ MoveBegins(to)
      PROVE  Transfer!Next \/ UNCHANGED Transfer!vars
  BY <1>7, HandoffBegins DEF Transfer!Next
<1>8. ASSUME \/ UNCHANGED vars
             \/ \E p \in Processes : DeleteRef(p) \/ Fails(p)
             \/ \E p \in Retries : Retry(p) \/ BootRecovers(p)
             \/ Boot \/ Recovered \/ Kill
      PROVE  UNCHANGED Transfer!vars
  <2>1. UNCHANGED <<committed, changes, operation, context, quiet>>
    BY <1>8 DEF vars, DeleteRef, Fails, Retry, BootRecovers, Boot, Recovered, Kill, git, database, history
  <2> QED
    BY <2>1, LeavesTrees
<1> QED
  BY <1>1, <1>2, <1>3, <1>4, <1>5, <1>6, <1>7, <1>8 DEF Next

-----------------------------------------------------------------------------
(* The stash entry of the user, while nothing is committed.                *)

LEMMA OwnSnapshots ==
    ASSUME Control, UserStashApart, NEW p \in Processes, pc[p] # "idle", operation # None
    PROVE  /\ \A e \in Entry :
                e \in {operation.stash, refs[operation.id], Op(p).stash} => e.owner # 0
           /\ TypeOK /\ Knows(p)
BY SnapshotsOf, AloneFacts DEF UserStashApart

LEMMA ApartAfter ==
    ASSUME Control, UserStashApart, NEW p \in Processes, pc[p] # "idle", NEW step,
           pc' = [pc EXCEPT ![p] = step], step \notin {"snapshot", "push", "verify"},
           \A e \in Stashed : e.owner = 0 => e \in Stashed',
           operation' # None =>
             \A e \in Entry : \/ e = operation'.stash
                              \/ e = refs'[operation'.id]
                              \/ step # "idle" /\ e = Op(p)'.stash
                              => e.owner # 0
    PROVE  UserStashApart'
<1>1. \A q \in Processes : pc'[q] = IF q = p THEN step ELSE "idle"
  BY AloneFacts DEF TypeOK
<1>2. operation' # None => \A e \in Snapshots' : e.owner # 0
  BY SnapshotsAfter
<1>3. UserStash # {} => \E e \in Stashed' : e.owner = 0
  BY DEF UserStashApart
<1> QED
  BY <1>1, <1>2, <1>3 DEF UserStashApart

\* A process that leaves, or reads, the record, the stash and the refs.
LEMMA ApartReading ==
    ASSUME Control, UserStashApart, NEW p \in Processes, pc[p] # "idle", operation # None,
           NEW step, pc' = [pc EXCEPT ![p] = step], step \notin {"snapshot", "push", "verify"},
           UNCHANGED <<stashes, refs, operation>>,
           step # "idle" => Op(p)'.stash \in {Op(p).stash, operation.stash}
    PROVE  UserStashApart'
<1>1. Stashed' = Stashed
  BY DEF Stashed
<1> QED
  BY <1>1, OwnSnapshots, ApartAfter

LEMMA ApartMoveRecords ==
    ASSUME Control, Control', UserStashApart, NEW p \in Processes, MoveRecords(p)
    PROVE  UserStashApart'
<1>1. /\ pc[p] = "snapshot" /\ pc[p] # "idle" /\ Knows(p) /\ TypeOK /\ held[p] \in Held
      /\ Op(p) \in Operation /\ From(p) \in Locations
  BY AloneFacts, HeldType DEF MoveRecords
<1>2. /\ operation = None /\ Op(p).stash = None
      /\ operation' = [Op(p) EXCEPT !.sourceHead = committed[From(p)],
                                    !.sourceTree = Tree(From(p)),
                                    !.targetHead = committed[To(p)]]
      /\ UNCHANGED <<changes, stashes, refs>>
      /\ pc' = [pc EXCEPT ![p] = "push"] /\ held' = [held EXCEPT ![p].op = operation']
  BY <1>1 DEF Knows, HoldsRecord, MoveRecords, git, Hold
<1>3. /\ operation'.stash = None /\ operation'.from = From(p) /\ operation'.id = Op(p).id
      /\ Op(p)' = operation'
  BY <1>1, <1>2, HeldType DEF Operation, TypeOK, Held, From, Op
<1>4. \A q \in Processes : pc'[q] = IF q = p THEN "push" ELSE "idle"
  BY <1>1, <1>2, AloneFacts DEF TypeOK
<1>5. Stashed' = Stashed /\ refs'[operation'.id] = None
  BY <1>1, <1>2, <1>3 DEF Stashed, Knows, KnowsSnapshot
<1>6. ASSUME NEW e \in Snapshots' PROVE e.owner # 0
  <2>1. e \in Entry /\ \/ e = operation'.stash
                       \/ e = refs'[operation'.id]
                       \/ e \in Stashed' /\ e.owner # 0
                       \/ e = Op(p)'.stash
    BY <1>1, <1>2, SnapshotsAfter
  <2> QED
    BY <1>3, <1>5, <2>1, NoneAssumption
<1>7. changes'[From(p)'] # {}
  BY <1>1, <1>2, <1>3 DEF UserStashApart, From
<1> QED
  BY <1>4, <1>5, <1>6, <1>7 DEF UserStashApart

LEMMA ApartPush ==
    ASSUME Control, Control', UserStashApart, NEW p \in Processes, StashPush(p) \/ StashPushFails(p)
    PROVE  UserStashApart'
<1>1. /\ pc[p] = "push" /\ pc[p] # "idle" /\ Knows(p) /\ TypeOK /\ UNCHANGED <<refs, operation>>
  BY AloneFacts DEF StashPush, StashPushFails, database
<1>2. /\ operation # None /\ operation.stash = None /\ Op(p).stash = None /\ refs[operation.id] = None
  BY <1>1, RecordFields DEF Knows, HoldsRecord, KnowsSnapshot
<1>3. CASE Leave(p) /\ UNCHANGED stashes
  BY <1>1, <1>2, <1>3, ApartReading DEF Leave, Hold
<1>4. ASSUME Push(p) PROVE UserStashApart'
  <2> DEFINE e == [owner |-> Op(p).id, edits |-> changes[From(p)]]
  <2>1. changes[From(p)] # {}
    BY <1>1 DEF UserStashApart
  <2>2. e \in Entry /\ e.owner # 0 /\ Stashed' = Stashed \cup {e}
    BY <1>1, <1>4, <2>1, PushStash
  <2> HIDE DEF e
  <2>3. PICK step \in {"verify", "idle"} :
          /\ pc' = [pc EXCEPT ![p] = step]
          /\ step = "verify" => Op(p)' = Op(p)
    BY <1>1, GotoAfter DEF StashPush, StashPushFails, Leave, Hold
  <2>4. \A q \in Processes : pc'[q] = IF q = p THEN step ELSE "idle"
    BY <1>1, <2>3, AloneFacts DEF TypeOK
  <2>5. ASSUME NEW f \in Snapshots' PROVE f.owner # 0
    <3>1. f \in Entry /\ \/ f = operation'.stash
                         \/ f = refs'[operation'.id]
                         \/ f \in Stashed' /\ f.owner # 0
                         \/ step # "idle" /\ f = Op(p)'.stash
      BY <1>1, <2>3, SnapshotsAfter
    <3> QED
      BY <1>1, <1>2, <2>3, <3>1, NoneAssumption
  <2> QED
    BY <2>2, <2>3, <2>4, <2>5 DEF UserStashApart
<1> QED
  BY <1>3, <1>4 DEF StashPush, StashPushFails

LEMMA ApartVerify ==
    ASSUME Control, Control', UserStashApart, NEW p \in Processes, VerifyStash(p)
    PROVE  UserStashApart'
<1>1. /\ pc[p] = "verify" /\ pc[p] # "idle" /\ Knows(p) /\ TypeOK /\ operation # None
      /\ UNCHANGED <<stashes, refs, operation>>
  BY AloneFacts, RecordFields DEF VerifyStash, git, database
<1>2. CASE Leave(p)
  BY <1>1, <1>2, ApartReading DEF Leave, Hold
<1>3. CASE Hold(p, "secure", [held[p] EXCEPT !.op.stash = Head(stashes)])
  <2>1. Head(stashes).owner # 0
    BY <1>1 DEF Knows, KnowsSnapshot, UserStashApart
  <2>2. /\ pc' = [pc EXCEPT ![p] = "secure"]
        /\ held[p].op \in Operation /\ held[p] \in Held
        /\ held' = [held EXCEPT ![p] = [held[p] EXCEPT !.op.stash = Head(stashes)]]
    BY <1>1, <1>3, HeldType DEF Hold, Op
  <2>3. Op(p)'.stash = Head(stashes)
    BY <1>1, <2>2 DEF Op, TypeOK, Held, Operation
  <2>4. Stashed' = Stashed
    BY <1>1 DEF Stashed
  <2> QED
    BY <1>1, <2>1, <2>2, <2>3, <2>4, OwnSnapshots, ApartAfter
<1> QED
  BY <1>2, <1>3 DEF VerifyStash

LEMMA ApartFind ==
    ASSUME Control, Control', UserStashApart, NEW p \in Processes, FindStash(p)
    PROVE  UserStashApart'
<1>1. /\ pc[p] = "find" /\ pc[p] # "idle" /\ Knows(p) /\ TypeOK /\ operation # None
      /\ Op(p).id = operation.id /\ UNCHANGED <<stashes, refs, operation>>
  BY AloneFacts, RecordFields DEF FindStash, git, database
<1>2. CASE Leave(p)
  BY <1>1, <1>2, ApartReading DEF Leave, Hold
<1>3. ASSUME NEW ref \in Resolved(p), Found(p, ref) # None,
             Hold(p, "secureAgain", [held[p] EXCEPT !.op.stash = Found(p, ref)])
      PROVE  UserStashApart'
  <2>1. Found(p, ref) \in Entry => Found(p, ref).owner # 0
    <3>1. stashes \in Seq(Entry) /\ OneEntryEach /\ Found(p, ref) # None /\ operation.id # 0
      BY <1>1, <1>3, HeldType DEF TypeOK, Control, Ids
    <3>2. \/ Op(p).stash # None /\ Found(p, ref) = Op(p).stash
          \/ Op(p).stash = None /\ Found(p, ref) = refs[Op(p).id]
          \/ /\ Op(p).stash = None /\ Found(p, ref) \in Stashed
             /\ Found(p, ref).owner = Op(p).id
      BY <3>1, FoundFacts
    <3> QED
      BY <1>1, <3>1, <3>2, OwnSnapshots
  <2>2. /\ pc' = [pc EXCEPT ![p] = "secureAgain"]
        /\ held[p].op \in Operation /\ held[p] \in Held
        /\ held' = [held EXCEPT ![p] = [held[p] EXCEPT !.op.stash = Found(p, ref)]]
    BY <1>1, <1>3, HeldType DEF Hold, Op
  <2>3. Op(p)'.stash = Found(p, ref)
    BY <1>1, <2>2 DEF Op, TypeOK, Held, Operation
  <2>4. Stashed' = Stashed
    BY <1>1 DEF Stashed
  <2> QED
    BY <1>1, <2>1, <2>2, <2>3, <2>4, OwnSnapshots, ApartAfter
<1> QED
  BY <1>2, <1>3 DEF FindStash

LEMMA ApartMove ==
    ASSUME Control, Control', UserStashApart, NEW p \in Processes, MoveStep(p)
    PROVE  UserStashApart'
<1>1. CASE SecureRef(p)
  <2>1. /\ pc[p] \in {"secure", "secureAgain"} /\ pc[p] # "idle" /\ TypeOK /\ operation # None
        /\ Op(p).id = operation.id /\ Op(p).id \in Ids
        /\ UNCHANGED <<stashes, operation>> /\ refs' = [refs EXCEPT ![Op(p).id] = Op(p).stash]
    BY <1>1, AloneFacts, RecordFields, HeldType DEF SecureRef, database
  <2>2. PICK step \in {"mark", "dropAgain"} : pc' = [pc EXCEPT ![p] = step] /\ Op(p)' = Op(p)
    BY <1>1, <2>1, GotoAfter DEF SecureRef
  <2>3. Stashed' = Stashed /\ refs'[operation'.id] = Op(p).stash
    BY <2>1 DEF Stashed, TypeOK
  <2> QED
    BY <2>1, <2>2, <2>3, OwnSnapshots, ApartAfter
<1>2. CASE MarkStashed(p)
  <2>1. /\ pc[p] = "mark" /\ pc[p] # "idle" /\ TypeOK /\ operation # None /\ operation \in Operation
        /\ Recorded(p) /\ UNCHANGED <<stashes, refs>> /\ Op(p).stash \in Entry \cup {None}
    BY <1>2, AloneFacts, RecordFields, HeldType DEF MarkStashed, git
  <2>2. operation' = [operation EXCEPT !.stash = Op(p).stash] /\ Goto(p, "drop")
    BY <1>2, <2>1 DEF MarkStashed
  <2>3. /\ operation'.stash = Op(p).stash /\ operation'.id = operation.id
        /\ pc' = [pc EXCEPT ![p] = "drop"] /\ Op(p)' = Op(p)
    BY <2>1, <2>2, GotoAfter DEF Operation
  <2>4. Stashed' = Stashed
    BY <2>1 DEF Stashed
  <2> QED
    BY <2>1, <2>3, <2>4, OwnSnapshots, ApartAfter
<1>3. CASE DropStash(p)
  <2>1. /\ pc[p] \in {"drop", "dropAgain", "cleanDrop"} /\ pc[p] # "idle" /\ TypeOK
        /\ stashes' = Dropped(Op(p).stash) /\ UNCHANGED <<refs, operation>>
        /\ operation # None /\ Op(p).stash \in Entry
    BY <1>3, AloneFacts, RecordFields, HeldSnapshot DEF DropStash, database
  <2>2. PICK step \in {"apply", "markAgain", "cleanRef"} :
          pc' = [pc EXCEPT ![p] = step] /\ Op(p)' = Op(p)
    <3>1. \E step \in {"apply", "markAgain", "cleanRef"} : Goto(p, step)
      BY <1>3 DEF DropStash
    <3> QED
      BY <2>1, <3>1, GotoAfter
  <2>3. Stashed' = Stashed \ {Op(p).stash}
    BY <2>1, DropFacts DEF TypeOK, Control
  <2> QED
    BY <2>1, <2>2, <2>3, OwnSnapshots, ApartAfter
<1>4. CASE ApplyToTarget(p) \/ ApplyToTargetFails(p)
  <2>1. /\ pc[p] = "apply" /\ pc[p] # "idle" /\ TypeOK /\ operation # None /\ held[p] \in Held
        /\ operation \in Operation /\ UNCHANGED <<stashes, refs, operation>>
    BY <1>4, AloneFacts, RecordFields, HeldType DEF ApplyToTarget, ApplyToTargetFails, database
  <2>2. PICK step \in {"record", "discard", "idle"} :
          /\ pc' = [pc EXCEPT ![p] = step]
          /\ step # "idle" => Op(p)'.stash \in {Op(p).stash, operation.stash}
    <3>1. CASE Goto(p, "record")
      BY <2>1, <3>1, GotoAfter
    <3>2. CASE EnterRollback(p, operation, "discard")
      <4> DEFINE h == [held[p] EXCEPT !.op = operation]
      <4>1. h \in Held /\ h.op = operation
        BY <2>1 DEF Held
      <4>2. Hold(p, "discard", h) \/ Leave(p)
        BY <3>2 DEF EnterRollback
      <4> HIDE DEF h
      <4> QED
        BY <2>1, <4>1, <4>2, HeldAfter DEF Leave, Hold
    <3> QED
      BY <1>4, <3>1, <3>2 DEF ApplyToTarget, ApplyToTargetFails
  <2> QED
    BY <2>1, <2>2, ApartReading
<1>5. CASE RecordTarget(p)
  <2>1. /\ pc[p] = "record" /\ pc[p] # "idle" /\ TypeOK /\ operation # None /\ held[p] \in Held
        /\ UNCHANGED <<stashes, refs>> /\ operation' \in Operation
        /\ operation'.id = operation.id /\ operation'.stash = operation.stash
    BY <1>5, AloneFacts, RecordFields, HeldType, RecordTargetFacts DEF RecordTarget, git
  <2> DEFINE h == [held[p] EXCEPT !.op = operation']
  <2>2. h \in Held /\ h.op = operation'
    BY <2>1 DEF Held
  <2>3. PICK step \in {"cleanDrop", "compare", "idle"} :
          /\ pc' = [pc EXCEPT ![p] = step]
          /\ step # "idle" => Hold(p, step, h)
    BY <1>5 DEF RecordTarget, EnterRollback, Leave, Hold
  <2> HIDE DEF h
  <2>4. step # "idle" => Op(p)'.stash = operation.stash
    BY <2>1, <2>2, <2>3, HeldAfter
  <2>5. Stashed' = Stashed
    BY <2>1 DEF Stashed
  <2> QED
    BY <2>1, <2>3, <2>4, <2>5, OwnSnapshots, ApartAfter
<1>6. CASE NothingToRecord(p)
  <2>1. pc[p] = "record" /\ pc[p] # "idle" /\ UNCHANGED <<stashes, refs, operation>> /\ Leave(p)
    BY <1>6 DEF NothingToRecord, git, database
  <2>2. operation # None
    BY <2>1, RecordFields
  <2> QED
    BY <2>1, <2>2, ApartReading DEF Leave, Hold
<1> QED
  BY <1>1, <1>2, <1>3, <1>4, <1>5, <1>6, ApartMoveRecords, ApartPush, ApartVerify DEF MoveStep

LEMMA ApartRollback ==
    ASSUME Control, Control', UserStashApart, NEW p \in Processes, RollbackStep(p)
    PROVE  UserStashApart'
<1>1. /\ pc[p] \in RollingBack /\ pc[p] # "idle" /\ UNCHANGED <<stashes, refs, operation>>
  BY DEF RollbackStep, DiscardPartialApply, CompareTrees, ResetTarget, CleaningFails, RestoreSource,
         RestoreSourceFails, ConfirmSource, RollingBack, git, database
<1>2. TypeOK /\ operation # None /\ held[p] \in Held
  BY <1>1, AloneFacts, RecordFields, HeldType DEF RollingBack
<1>3. PICK step \in {"compare", "reset", "restore", "confirm", "cleanDrop", "idle"} :
        pc' = [pc EXCEPT ![p] = step] /\ (step # "idle" => Op(p)' = Op(p))
  <2>1. CASE CompareTrees(p)
    <3> DEFINE h == [held[p] EXCEPT !.clean = SourceIsClean(p)]
    <3>1. h \in Held /\ h.op = Op(p)
      BY <1>2 DEF Held, Op, SourceIsClean
    <3>2. PICK step \in {"reset", "restore", "confirm"} : Hold(p, step, h)
      BY <2>1 DEF CompareTrees
    <3> HIDE DEF h
    <3> QED
      BY <1>2, <3>1, <3>2, HeldAfter
  <2>2. CASE Leave(p)
    BY <2>2 DEF Leave, Hold
  <2>3. CASE \E step \in {"compare", "restore", "confirm", "cleanDrop"} : Goto(p, step)
    BY <1>2, <2>3, GotoAfter
  <2> QED
    BY <2>1, <2>2, <2>3
       DEF RollbackStep, DiscardPartialApply, ResetTarget, CleaningFails, RestoreSource,
           RestoreSourceFails, ConfirmSource
<1> QED
  BY <1>1, <1>2, <1>3, ApartReading

LEMMA ApartRecover ==
    ASSUME Control, Control', UserStashApart, NEW p \in Processes,
           RecoverStep(p) \/ DeleteRef(p) \/ DeleteRecord(p) \/ Fails(p)
    PROVE  UserStashApart'
<1>1. /\ pc[p] # "idle" /\ TypeOK /\ held[p] \in Held /\ UNCHANGED stashes
  <2>1. pc[p] # "idle"
    BY DEF RecoverStep, FindNothing, FindStash, MarkRecovered, Survey, DeleteRef, DeleteRecord, Fails
  <2> QED
    BY <2>1, AloneFacts, HeldType
       DEF RecoverStep, FindNothing, FindStash, MarkRecovered, Survey, DeleteRef, DeleteRecord, Fails, git
<1>2. Stashed' = Stashed
  BY <1>1 DEF Stashed
<1>3. CASE Leave(p) /\ UNCHANGED refs /\ operation' \in {operation, None}
  <2>1. pc' = [pc EXCEPT ![p] = "idle"]
    BY <1>3 DEF Leave, Hold
  <2>2. operation' # None => operation # None
    BY <1>3
  <2> QED
    BY <1>1, <1>2, <1>3, <2>1, <2>2, OwnSnapshots, ApartAfter
<1>4. CASE DeleteRef(p)
  <2>1. /\ pc[p] = "cleanRef" /\ UNCHANGED operation /\ Goto(p, "cleanRecord")
        /\ refs' = [refs EXCEPT ![Op(p).id] = None]
    BY <1>4 DEF DeleteRef, database
  <2>2. operation # None /\ Op(p).id = operation.id /\ Op(p).id \in Ids
    BY <1>1, <2>1, RecordFields, HeldType
  <2>3. /\ refs'[operation.id] = None /\ pc' = [pc EXCEPT ![p] = "cleanRecord"]
        /\ Op(p)' = Op(p)
    BY <1>1, <2>1, <2>2, GotoAfter DEF TypeOK
  <2> QED
    BY <1>1, <1>2, <2>1, <2>2, <2>3, OwnSnapshots, ApartAfter, NoneAssumption
<1>5. CASE MarkRecovered(p) /\ ~UNCHANGED operation
  <2>1. /\ pc[p] = "markAgain" /\ operation' = [operation EXCEPT !.stash = Op(p).stash]
        /\ UNCHANGED refs /\ operation \in Operation /\ operation # None
        /\ Op(p).stash \in Entry \cup {None}
    BY <1>1, <1>5, RecordFields, HeldType DEF MarkRecovered, git
  <2>2. /\ operation' \in Operation /\ operation'.stash = Op(p).stash /\ operation'.id = operation.id
    BY <2>1 DEF Operation
  <2> DEFINE h == [held[p] EXCEPT !.op = operation']
  <2>3. h \in Held /\ h.op = operation'
    BY <1>1, <2>2 DEF Held
  <2>4. PICK step \in {"cleanDrop", "survey", "idle"} :
          /\ pc' = [pc EXCEPT ![p] = step]
          /\ step # "idle" => Hold(p, step, h)
    BY <1>5 DEF MarkRecovered, Leave, Hold
  <2> HIDE DEF h
  <2>5. step # "idle" => Op(p)'.stash = Op(p).stash
    BY <1>1, <2>2, <2>3, <2>4, HeldAfter
  <2> QED
    BY <1>1, <1>2, <2>1, <2>2, <2>4, <2>5, OwnSnapshots, ApartAfter
<1>6. CASE Survey(p)
  <2>1. pc[p] = "survey" /\ UNCHANGED <<refs, operation>>
    BY <1>6 DEF Survey, git, database
  <2>2. operation # None /\ operation \in Operation
    BY <1>1, <2>1, RecordFields
  <2>3. PICK step \in {"cleanDrop", "compare", "idle"} :
          /\ pc' = [pc EXCEPT ![p] = step]
          /\ step # "idle" => Op(p)'.stash \in {Op(p).stash, operation.stash}
    <3>1. CASE Goto(p, "cleanDrop")
      BY <1>1, <3>1, GotoAfter
    <3>2. CASE EnterRollback(p, operation, "compare")
      <4> DEFINE h == [held[p] EXCEPT !.op = operation]
      <4>1. h \in Held /\ h.op = operation
        BY <1>1, <2>2 DEF Held
      <4>2. Hold(p, "compare", h) \/ Leave(p)
        BY <3>2 DEF EnterRollback
      <4> HIDE DEF h
      <4> QED
        BY <1>1, <4>1, <4>2, HeldAfter DEF Leave, Hold
    <3>3. CASE Leave(p)
      BY <3>3 DEF Leave, Hold
    <3> QED
      BY <1>6, <3>1, <3>2, <3>3 DEF Survey
  <2> QED
    BY <1>1, <2>1, <2>2, <2>3, ApartReading
<1>7. CASE MarkRecovered(p) /\ UNCHANGED operation
  <2>1. pc[p] = "markAgain" /\ UNCHANGED refs
    BY <1>7 DEF MarkRecovered, git
  <2>2. PICK step \in {"cleanDrop", "survey", "idle"} :
          /\ pc' = [pc EXCEPT ![p] = step]
          /\ step # "idle" => Hold(p, step, [held[p] EXCEPT !.op = operation])
    BY <1>7 DEF MarkRecovered, Leave, Hold
  <2>3. operation # None /\ operation \in Operation
    BY <1>1, <2>1, RecordFields
  <2> DEFINE h == [held[p] EXCEPT !.op = operation]
  <2>4. h \in Held /\ h.op = operation
    BY <1>1, <2>3 DEF Held
  <2> HIDE DEF h
  <2>5. step # "idle" => Op(p)'.stash = operation.stash
    BY <1>1, <2>2, <2>4, HeldAfter DEF h
  <2> QED
    BY <1>1, <1>7, <2>1, <2>2, <2>3, <2>5, ApartReading
<1> QED
  BY <1>1, <1>3, <1>4, <1>5, <1>6, <1>7, ApartFind
     DEF RecoverStep, FindNothing, DeleteRecord, Fails, git, database

LEMMA ApartRest ==
    ASSUME Control, UserStashApart, UNCHANGED <<stashes, refs>>,
           operation' # None =>
             operation # None /\ operation'.stash = operation.stash /\ operation'.id = operation.id,
           \A q \in Processes :
             pc'[q] # "idle" => pc'[q] = "find" /\ operation # None /\ Op(q)'.stash = operation.stash
    PROVE  UserStashApart'
<1>1. Stashed' = Stashed
  BY DEF Stashed
<1>2. operation' # None => Snapshots' \subseteq Snapshots
  BY <1>1 DEF Snapshots
<1> QED
  BY <1>1, <1>2 DEF UserStashApart

LEMMA ApartNext ==
    ASSUME "retry" \notin Habits, "commit" \notin Habits
    PROVE  Control /\ Control' /\ UserStashApart /\ [Next]_vars => UserStashApart'
<1> SUFFICES ASSUME Control, Control', UserStashApart, [Next]_vars PROVE UserStashApart'
  OBVIOUS
<1>0. TypeOK
  BY DEF Control
<1>1. CASE UNCHANGED vars
  BY <1>1 DEF vars, git, database, memory, UserStashApart, Stashed, Snapshots, From, Op
<1>2. ASSUME NEW p \in Processes, KilledBeforeSwitch(p) PROVE UserStashApart'
  <2>1. pc[p] = "record"
    BY <1>2 DEF KilledBeforeSwitch
  <2>2. operation # None /\ operation'.stash = operation.stash /\ operation'.id = operation.id
    BY <1>2, <2>1, RecordFields, RecordTargetFacts DEF KilledBeforeSwitch
  <2> QED
    BY <1>2, <2>2, ApartRest DEF KilledBeforeSwitch, git
<1>3. CASE Kill
  BY <1>3, ApartRest DEF Kill, git, database
<1>4. CASE Boot \/ Recovered
  <2>1. ~Running /\ UNCHANGED <<git, database, pc>>
    BY <1>4 DEF Boot, Recovered, Control, Alone
  <2> QED
    BY <2>1, ApartRest DEF git, database, Running
<1>5. ASSUME NEW p \in Retries, Retry(p) \/ BootRecovers(p) PROVE UserStashApart'
  <2>1. ~Running /\ p \in Processes /\ BeginRecovery(p) /\ UNCHANGED <<git, database>>
    BY <1>5 DEF Retry, BootRecovers, Control, Alone, Processes
  <2>2. \A q \in Processes :
          pc'[q] # "idle" => pc'[q] = "find" /\ operation # None /\ Op(q)'.stash = operation.stash
    BY <1>0, <2>1 DEF BeginRecovery, Running, TypeOK, Op
  <2> QED
    BY <2>1, <2>2, ApartRest DEF git, database
<1>6. ASSUME NEW to \in Locations, HandoffWithoutChanges(to) PROVE UserStashApart'
  <2>1. ~Running /\ UNCHANGED <<git, operation, pc>>
    BY <1>6, HandOffAlone DEF HandoffWithoutChanges, memory
  <2> QED
    BY <2>1, ApartRest DEF git, Running
<1>7. ASSUME NEW to \in Locations, MoveBegins(to) PROVE UserStashApart'
  <2>1. ~Running /\ "move" \in Processes /\ UNCHANGED <<changes, stashes>> /\ operation' = None
    BY <1>7, HandOffAlone DEF MoveBegins, CanHandOff, git, database
  <2>2. /\ pc' = [pc EXCEPT !["move"] = "snapshot"]
        /\ From("move")' = context /\ changes[context] # {}
    BY <1>0, <1>7, <2>1 DEF MoveBegins, Hold, From, Op, TypeOK
  <2>3. \A q \in Processes : pc'[q] = IF q = "move" THEN "snapshot" ELSE "idle"
    BY <1>0, <2>1, <2>2 DEF Running, TypeOK
  <2>4. Stashed' = Stashed
    BY <2>1 DEF Stashed
  <2> QED
    BY <2>1, <2>2, <2>3, <2>4 DEF UserStashApart
<1>8. ASSUME NEW x \in Locations, Commit(x) PROVE UserStashApart'
  <2>1. ~Running /\ UNCHANGED <<stashes, refs, operation, pc>>
    BY <1>8 DEF Commit, database, memory
  <2> QED
    BY <2>1, ApartRest DEF Running
<1>9. ASSUME NEW x \in Locations, NEW e \in Edits, Edit(x, e) PROVE UserStashApart'
  <2>1. /\ UNCHANGED <<stashes, refs, operation, pc, held>>
        /\ \A y \in Locations : changes[y] \subseteq changes'[y]
    BY <1>0, <1>9 DEF Edit, database, memory, TypeOK
  <2>2. Stashed' = Stashed /\ Snapshots' = Snapshots
    BY <2>1 DEF Stashed, Snapshots, Op
  <2>3. \A p \in Processes : From(p)' = From(p) /\ (pc[p] # "idle" => From(p) \in Locations)
    BY <1>0, <2>1, HeldType DEF From, Op
  <2>4. \A p \in Processes : pc[p] \in {"snapshot", "push"} => changes'[From(p)] # {}
    BY <2>1, <2>3 DEF UserStashApart
  <2> QED
    BY <2>1, <2>2, <2>3, <2>4 DEF UserStashApart
<1> QED
  BY <1>1, <1>2, <1>3, <1>4, <1>5, <1>6, <1>7, <1>8, <1>9, ApartMove, ApartRollback, ApartRecover
     DEF Next

-----------------------------------------------------------------------------
(* The theorems.  They assume that no retry is pressed while a handoff or  *)
(* a recovery runs: HandoffRetry.cfg shows what such a retry does.         *)

\* The inductive invariant: who runs and what it holds, where the snapshot is, which
\* recovery refs exist without a record (resolveOptionalRef took one for absent), and what
\* the worktrees hold at each step of moveChanges and #rollbackHandoff.
THEOREM HandoffInvariant == ASSUME "retry" \notin Habits PROVE Spec => []IInv
<1>1. Init => IInv
  BY InitControl, InitFiles DEF IInv, Init, NothingLost, RefsAccountedFor
<1>2. IInv /\ [Next]_vars => IInv'
  BY NextControl, NextRefs, NextFiles, NextKeeps DEF IInv
<1> QED
  BY <1>1, <1>2, PTL DEF Spec

\* The types of the git state, the record and what each process holds, for a handoff
\* of worktreeService.ts that no retry interrupts.
THEOREM TypeCorrect == ASSUME "retry" \notin Habits PROVE Spec => []TypeOK
<1>1. IInv => TypeOK
  BY DEF IInv, Control
<1> QED
  BY <1>1, HandoffInvariant, PTL

\* No sequence of handoffs, failures of git, crashes and recoveries loses an edit made
\* before it began (#rollbackHandoff, #cleanupHandoff and #recoverHandoff).
THEOREM NothingIsLost == ASSUME "retry" \notin Habits PROVE Spec => []NothingLost
<1>1. IInv => NothingLost
  BY DEF IInv
<1> QED
  BY <1>1, HandoffInvariant, PTL

\* When no handoff is recorded and none runs, its snapshots are gone and no uncommitted
\* edit is in two worktrees (#cleanupHandoff), but for a recovery ref that
\* resolveOptionalRef took for absent when #recoverHandoff deleted the record.
THEOREM NothingIsHidden == ASSUME "retry" \notin Habits PROVE Spec => []NothingHidden
<1>1. IInv => NothingHidden
  <2> SUFFICES ASSUME Control, RefsAccountedFor, Files, operation = None
               PROVE  /\ \A i \in Ids : refs[i] # None => i \in overlooked
                      /\ \A i \in DOMAIN stashes : stashes[i].owner = 0
                      /\ \A x, y \in Locations : x # y => changes[x] \cap changes[y] = {}
    BY DEF IInv, NothingHidden
  <2>1. DOMAIN stashes = 1 .. Len(stashes)
    BY StashTypes DEF Control, TypeOK
  <2>2. \A i \in Ids : refs[i] # None => i \in overlooked
    BY DEF RefsAccountedFor
  <2>3. \A i \in DOMAIN stashes : stashes[i].owner = 0
    BY <2>1 DEF Control, NothingElseKept, Stashed
  <2>4. \A x, y \in Locations : x # y => changes[x] \cap changes[y] = {}
    BY DEF Files, FilesKept, NoCopies
  <2> QED
    BY <2>2, <2>3, <2>4
<1> QED
  BY <1>1, HandoffInvariant, PTL

\* A record is deleted only when the work is beside the conversation or committed in the
\* source (#cleanupHandoff), or else in the recovery ref that was not read: the branch of
\* #recoverHandoff that finds no snapshot.
THEOREM WorkFollows == ASSUME "retry" \notin Habits PROVE Spec => WorkFollowsConversation
<1>1. ASSUME IInv, [Next]_vars, operation # None, operation' = None
      PROVE  operation.sourceTree \subseteq
                Tree(context) \cup committed[operation.from]
                  \cup UNION {refs[i].edits : i \in overlooked' \ overlooked}
  <2>1. /\ Control /\ RefsAccountedFor /\ Files /\ TypeOK /\ operation \in Operation
        /\ context \in {operation.from, operation.to}
    BY <1>1 DEF IInv, Control, TypeOK, RecordIsSound
  <2>2. ASSUME NEW p \in Processes, DeleteRecord(p)
        PROVE  operation.sourceTree \subseteq Tree(context) \cup committed[operation.from]
    <3>1. /\ pc[p] = "cleanRecord" /\ pc[p] # "idle" /\ Knows(p) /\ KnowsTrees(p)
          /\ From(p) = operation.from /\ Snapshots = {Op(p).stash}
      BY <2>1, <2>2, AloneFacts, RecordFields, HeldSnapshot DEF DeleteRecord, Files
    <3>2. CASE context = operation.from
      BY <3>1, <3>2 DEF KnowsTrees, CleaningUp
    <3>3. CASE context = operation.to
      <4>1. Op(p).stash = operation.stash
        BY <3>1 DEF Knows, HoldsRecord, CleaningUp
      <4>2. operation.stash.edits \subseteq Tree(context)
        BY <1>1, <2>1, <3>3 DEF Files, FilesKept, TargetHoldsWork
      <4>3. operation.sourceTree \subseteq committed[operation.from] \cup operation.stash.edits
        BY <1>1, <2>1, <3>1, <4>1 DEF Files, FilesKept, SnapshotHoldsSource
      <4> QED
        BY <4>2, <4>3
    <3> QED
      BY <2>1, <3>2, <3>3
  <2>3. ASSUME NEW p \in Processes, FindNothing(p)
        PROVE  operation.sourceTree \subseteq
                  Tree(context) \cup committed[operation.from]
                    \cup UNION {refs[i].edits : i \in overlooked' \ overlooked}
    <3>1. /\ pc[p] = "find" /\ pc[p] # "idle" /\ Op(p).stash = operation.stash
          /\ Op(p).id = operation.id /\ refs[operation.id] \in Entry \cup {None}
      BY <2>1, <2>3, AloneFacts, RecordFields, HeldType DEF FindNothing, Knows, HoldsRecord
    <3>2. operation.stash = None /\ \A e \in Stashed : e.owner # operation.id
      BY <2>1, <2>3, <3>1, FoundNothing DEF Control, TypeOK
    <3>3. context = operation.from
      BY <1>1, <2>1, <3>2 DEF Control, RecordIsSound
    <3>4. CASE refs[operation.id] = None
      <4>1. \A e \in Stashed : e.owner = 0
        BY <2>1, <3>2 DEF Control, NothingElseKept
      <4>2. Snapshots = {}
        BY <2>1, <3>1, <3>2, <3>4, <4>1, SnapshotsOf, NoneAssumption
      <4> QED
        BY <1>1, <2>1, <3>3, <4>2 DEF Files, FilesKept, SnapshotHoldsSource
    <3>5. CASE refs[operation.id] # None
      <4>1. refs[operation.id] \in Snapshots
        BY <2>1, <3>1, <3>5, SnapshotsOf
      <4>2. operation.sourceTree \subseteq committed[operation.from] \cup refs[operation.id].edits
        BY <1>1, <2>1, <4>1 DEF Files, FilesKept, SnapshotHoldsSource
      <4>3. operation.id \in overlooked' \ overlooked
        <5>1. operation.id \notin overlooked
          BY <1>1, <2>1 DEF RefsAccountedFor
        <5>2. overlooked' = overlooked \cup {i \in {Op(p).id} : refs[i] # None}
          BY <1>1, <2>3 DEF FindNothing
        <5> QED
          BY <3>1, <3>5, <5>1, <5>2
      <4> QED
        BY <4>2, <4>3
    <3> QED
      BY <3>4, <3>5
  <2>4. (\E p \in Processes : DeleteRecord(p) \/ FindNothing(p))
    <3>1. ASSUME NEW p \in Processes, MoveStep(p) PROVE operation' # None
      <4>1. CASE MoveRecords(p)
        BY <1>1, <4>1, <2>1 DEF MoveRecords, Control, Knows, HoldsRecord
      <4>2. CASE MarkStashed(p)
        <5>1. Op(p).stash \in Entry \cup {None}
          BY <2>1, <4>2, HeldType DEF MarkStashed
        <5>2. [operation EXCEPT !.stash = Op(p).stash] \in Operation
          BY <2>1, <5>1 DEF Operation
        <5> QED
          BY <1>1, <4>2, <5>2, NoneAssumption DEF MarkStashed
      <4>3. CASE RecordTarget(p)
        BY <2>1, <4>3, RecordTargetFacts DEF RecordTarget
      <4> QED
        BY <1>1, <3>1, <4>1, <4>2, <4>3
           DEF MoveStep, StashPush, StashPushFails, VerifyStash, SecureRef, DropStash, ApplyToTarget,
               ApplyToTargetFails, NothingToRecord, database
    <3>2. ASSUME NEW p \in Processes, RecoverStep(p) PROVE operation' # None \/ FindNothing(p)
      <4>1. CASE MarkRecovered(p)
        <5>1. Op(p).stash \in Entry \cup {None}
          BY <2>1, <4>1, HeldType DEF MarkRecovered
        <5>2. [operation EXCEPT !.stash = Op(p).stash] \in Operation
          BY <2>1, <5>1 DEF Operation
        <5> QED
          BY <1>1, <4>1, <5>2, NoneAssumption DEF MarkRecovered
      <4> QED
        BY <1>1, <3>2, <4>1 DEF RecoverStep, FindStash, Survey, database
    <3>3. ASSUME NEW p \in Processes, KilledBeforeSwitch(p) PROVE operation' # None
      BY <2>1, <3>3, RecordTargetFacts DEF KilledBeforeSwitch
    <3>4. ASSUME NEW p \in Processes, RollbackStep(p) PROVE operation' # None
      BY <1>1, <3>4 DEF RollbackStep, DiscardPartialApply, CompareTrees, ResetTarget, CleaningFails,
                        RestoreSource, RestoreSourceFails, ConfirmSource, database
    <3>5. operation' # operation
      BY <1>1
    <3> QED
      BY <1>1, <3>1, <3>2, <3>3, <3>4, <3>5
         DEF Next, vars, database, HandoffWithoutChanges, MoveBegins, DeleteRef, Fails, Retry,
             BootRecovers, Boot, Recovered, Kill, Commit, Edit
  <2> QED
    BY <2>2, <2>3, <2>4
<1>2. IInv /\ [Next]_vars =>
        [operation # None /\ operation' = None =>
           operation.sourceTree \subseteq
              Tree(context) \cup committed[operation.from]
                \cup UNION {refs[i].edits : i \in overlooked' \ overlooked}]_vars
  BY <1>1
<1> QED
  BY <1>2, HandoffInvariant, PTL DEF Spec, WorkFollowsConversation

\* The work moves as one and only with the conversation: the handoff of worktreeService.ts
\* implements WorkTransfer, whatever fails, is killed or is recovered on the way.  A
\* recovery ref that #recoverHandoff fails to read strands the work, as a whole.
THEOREM HandoffMovesAsOne == ASSUME "retry" \notin Habits PROVE Spec => MovesAsOne
<1>1. Init => Transfer!Init
  <2> SUFFICES ASSUME Init PROVE Transfer!Init
    OBVIOUS
  <2>1. Carried = {} /\ Route = None /\ Stranded = {}
    BY DEF Init, Carried, Route, Stranded
  <2>2. WorkCommitted = [x \in Locations |-> {}] /\ WorkLeft = [x \in Locations |-> {}]
    BY DEF Init, WorkCommitted, WorkLeft
  <2> QED
    BY <2>1, <2>2 DEF Init, Transfer!Init
<1>2. IInv /\ IInv' /\ [Next]_vars => [Transfer!Next]_(Transfer!vars)
  BY TransferStep
<1> QED
  BY <1>1, <1>2, HandoffInvariant, PTL DEF Spec, MovesAsOne, Transfer!Spec

\* As long as the user commits nothing while a handoff or a recovery runs, and presses no
\* retry then, the user's own stash entry stays (stash push and dropStashByOid).
THEOREM UserStashStays ==
    ASSUME "retry" \notin Habits, "commit" \notin Habits PROVE Spec => []UserStashUntouched
<1>1. Init => UserStashApart
  <2> SUFFICES ASSUME Init PROVE UserStashApart
    OBVIOUS
  <2>1. UserStash # {} => 1 \in 1 .. Len(stashes) /\ stashes[1].owner = 0
    BY DEF Init
  <2> QED
    BY <2>1 DEF Init, UserStashApart, Stashed
<1>2. IInv /\ UserStashApart /\ [Next]_vars => UserStashApart'
  BY NextControl, ApartNext DEF IInv
<1>3. IInv /\ UserStashApart => UserStashUntouched
  BY StashTypes DEF IInv, Control, TypeOK, UserStashApart, UserStashUntouched, Stashed
<1> QED
  BY <1>1, <1>2, <1>3, HandoffInvariant, PTL DEF Spec
=============================================================================
