----------------------------- MODULE Permissions -----------------------------
(* One request of the engine for more permissions, from                      *)
(* item/permissions/requestApproval to the reply: parsePermissionRequest and *)
(* permissionApprovalResult of src/main/agent/agentService.ts with the panel *)
(* of src/renderer/src/App.tsx.  Turns has the routing of several requests.  *)
(*                                                                           *)
(* A target stands for a path, a pattern or a special place, cut to          *)
(* MAX_PERMISSION_TEXT; None is an entry's path that does not parse.         *)
EXTENDS Naturals, FiniteSets, Sequences, SequencesExt

CONSTANTS
    Targets,
    NoTarget,            \* a path that parsePermissionPath refuses
    MaxPermissionOptions,\* MAX_PERMISSION_OPTIONS, 64
    MaxListed,           \* bound: elements of each legacy list
    MaxEntries           \* bound: entries

ASSUME PermissionsAssumption ==
    /\ NoTarget \notin Targets /\ MaxPermissionOptions \in Nat \ {0}
    /\ MaxListed \in Nat /\ MaxEntries \in Nat

VARIABLES
    profile,   \* the profile asked for
    card,      \* approval.permissions as they are shown; <<>> when nothing is
    parsed,    \* the options that the resolver holds
    ticked,    \* selectedPermissions of the panel: identifiers
    decision,  \* the answer: "none" before one, "disposed" at the end of the process
    reply      \* the permissions and the scope sent to the engine

permissionVars == <<profile, card, parsed, ticked, decision, reply>>

UpTo(S, n) == UNION {[1 .. k -> S] : k \in 0 .. n}

\* Entries come with any access the engine may know; "none" is one the desktop does not.
Accesses == {"read", "write", "deny", "none"}
PermissionEntries == [access : Accesses, target : Targets \cup {NoTarget}]

Profiles == [network : BOOLEAN, read : UpTo(Targets, MaxListed),
             write : UpTo(Targets, MaxListed), entries : UpTo(PermissionEntries, MaxEntries),
             depth : BOOLEAN]

\* An identifier is network or filesystem-<number>.
PermissionIds == [kind : {"network"}, number : {0}]
       \cup [kind : {"fileSystem"}, number : 0 .. MaxPermissionOptions]

\* What is asked for, shown and granted; section tells the two legacy lists from entries.
PermissionItems == [section : {"network"}, access : {"network"}, target : {NoTarget}]
         \cup [section : {"legacyRead", "legacyWrite", "entry"}, access : Accesses,
               target : Targets]

NoReply == [granted |-> {}, depth |-> FALSE, scope |-> "none"]

PermissionTypeOK ==
    /\ profile \in Profiles
    /\ card \in Seq([id : PermissionIds, item : PermissionItems]) /\ parsed \in {<<>>, card}
    /\ ticked \subseteq PermissionIds
    /\ decision \in {"none", "accept", "acceptForSession", "decline", "cancel", "disposed"}
    /\ reply.granted \subseteq PermissionItems /\ reply.depth \in BOOLEAN
    /\ reply.scope \in {"none", "turn", "session"}

-----------------------------------------------------------------------------
(* parsePermissionRequest                                                    *)

Item(section, access, target) ==
    [section |-> section, access |-> access, target |-> target]

LegacyList(section, access, targets) ==
    [i \in DOMAIN targets |-> Item(section, access, targets[i])]

\* Entries of an unknown access or without a path that parses are left out.
Known(entries) ==
    LET known(e) == e.access # "none" /\ e.target # NoTarget
        item(e)  == Item("entry", e.access, e.target)
        kept     == {i \in DOMAIN entries : known(entries[i])}
        place(i) == Cardinality({j \in kept : j <= i})
    IN [n \in 1 .. Cardinality(kept) |-> item(entries[CHOOSE i \in kept : place(i) = n])]

Asked(p) ==
    (IF p.network THEN <<Item("network", "network", NoTarget)>> ELSE <<>>)
    \o LegacyList("legacyRead", "read", p.read) \o LegacyList("legacyWrite", "write", p.write)
    \o Known(p.entries)

\* Fault: each section numbers its own options.
Fault_NumberPerSection(items, i) ==
    IF items[i].section = "network" THEN [kind |-> "network", number |-> 0]
    ELSE [kind |-> "fileSystem",
          number |-> Cardinality({j \in 1 .. i - 1 : items[j].section = items[i].section})]

\* The number of an option is the count of options before it, those of the network too.
OptionId(items, i) ==
    IF items[i].section = "network" THEN [kind |-> "network", number |-> 0]
    ELSE [kind |-> "fileSystem", number |-> i - 1]

ParsePermissionRequest(p) ==
    LET items == Asked(p)
        n == IF Len(items) < MaxPermissionOptions THEN Len(items) ELSE MaxPermissionOptions
    IN [i \in 1 .. n |-> [id |-> OptionId(items, i), item |-> items[i]]]

-----------------------------------------------------------------------------
(* permissionApprovalResult                                                  *)

OptionIds(options) == {o.id : o \in ToSet(options)}

\* The map from identifiers to options: of two with one identifier it keeps the later.
OptionFor(options, id) ==
    LET last == CHOOSE i \in DOMAIN options :
                  /\ options[i].id = id
                  /\ \A j \in DOMAIN options : options[j].id = id => j <= i
    IN options[last].item

\* The depth of glob scans goes with the entries.
PermissionApprovalResult(answer, options, ids) ==
    IF answer \in {"decline", "cancel", "disposed"}
    THEN [granted |-> {}, depth |-> FALSE, scope |-> "turn"]
    ELSE LET granted == {OptionFor(options, id) : id \in ids} IN
         [granted |-> granted,
          depth   |-> profile.depth /\ \E g \in granted : g.section = "entry",
          scope   |-> IF answer = "acceptForSession" THEN "session" ELSE "turn"]

-----------------------------------------------------------------------------
(* The request, the panel and the answer.                                    *)

PermissionInit ==
    /\ profile \in Profiles
    /\ card = <<>> /\ parsed = <<>> /\ ticked = {} /\ decision = "none" /\ reply = NoReply

\* A request with nothing to grant is answered at once with nothing.  The panel begins
\* with everything selected.
RequestPermissionsApproval ==
    /\ card = <<>> /\ decision = "none" /\ reply = NoReply
    /\ LET options == ParsePermissionRequest(profile) IN
         IF options = <<>>
         THEN reply' = [NoReply EXCEPT !.scope = "turn"] /\ UNCHANGED <<card, parsed, ticked>>
         ELSE /\ card' = options /\ parsed' = options /\ ticked' = OptionIds(options)
              /\ UNCHANGED reply
    /\ UNCHANGED <<profile, decision>>

Toggle(id) ==
    /\ parsed # <<>> /\ id \in OptionIds(card)
    /\ ticked' = IF id \in ticked THEN ticked \ {id} ELSE ticked \cup {id}
    /\ UNCHANGED <<profile, card, parsed, decision, reply>>

\* The buttons that accept are disabled while nothing is selected.
Decide(answer) ==
    /\ parsed # <<>>
    /\ answer \in {"accept", "acceptForSession"} => ticked # {}
    /\ decision' = answer
    /\ reply' = PermissionApprovalResult(answer, parsed, ticked)
    /\ parsed' = <<>>
    /\ UNCHANGED <<profile, card, ticked>>

PermissionNext ==
    \/ RequestPermissionsApproval
    \/ \E id \in PermissionIds : Toggle(id)
    \/ \E answer \in {"accept", "acceptForSession", "decline", "cancel", "disposed"} :
         Decide(answer)

PermissionSpec == PermissionInit /\ [][PermissionNext]_permissionVars

-----------------------------------------------------------------------------
(* Properties.                                                               *)

Accepted == decision \in {"accept", "acceptForSession"}

\* What the user saw selected in the panel when they accepted is what the engine gets,
\* item by item and for no longer than they said; with any other answer, or when there
\* was nothing to show, it gets nothing.  What the panel shows was asked for as it stands.
GrantIsWhatWasShown ==
    /\ reply.granted = {o.item : o \in {p \in ToSet(card) : Accepted /\ p.id \in ticked}}
    /\ reply.scope = "session" => decision = "acceptForSession"
    /\ {o.item : o \in ToSet(card)} \subseteq ToSet(Asked(profile))
=============================================================================
