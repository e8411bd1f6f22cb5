---------------------------- MODULE PullRequests ----------------------------
(* GitHubService (src/main/git/githubService.ts): opening a pull request *)
(* with git and the gh CLI.  Every look at the repository or at GitHub is a  *)
(* process of its own, and between two of them the user switches branches    *)
(* and other people open and close pull requests.  There is one project:     *)
(* calls of different projects share no promise, and may push and create     *)
(* beside one another in repositories of their own.                          *)
EXTENDS ServiceBounds

CONSTANTS
    Branches,       \* branches of the working copy
    Bases,          \* branches of the base repository
    MaxOpen         \* bound: pull requests opened in all

ASSUME PullRequestsAssumption == None \notin Branches /\ MaxOpen \in Nat

VARIABLES
    head,           \* the branch checked out
    pulls,          \* open pull requests at GitHub
    opens,          \* how many were ever opened
    ghCall,         \* a createPullRequest call, per slot
    activeCreates,  \* the slot whose promise later calls share, or None
    ghCalls

prVars == <<head, pulls, opens, ghCall, activeCreates, ghCalls>>

Stages == {"free", "preflight", "list", "push", "create", "verify", "relist"}

(* No branch is checked out when HEAD is detached.                          *)
Heads == Branches \cup {None}

PRTypeOK ==
    /\ head \in Heads /\ opens \in 0..MaxOpen /\ ghCalls \in 0..MaxCalls
    /\ pulls \subseteq [no: 1..MaxOpen, owner: {"we", "other"}, branch: Branches,
                        base: Bases, by: {"app", "person"}]
    /\ ghCall \in [Slots -> [at: Stages, branch: Heads, base: Bases \cup {None}]]
    /\ activeCreates \in Slots \cup {None}

NoGhCall == [at |-> "free", branch |-> None, base |-> None]

PRInit ==
    /\ head \in Heads /\ pulls = {} /\ opens = 0
    /\ ghCall = [c \in Slots |-> NoGhCall] /\ activeCreates = None /\ ghCalls = 0

----------------------------------------------------------------------------
GhAt(c, stage) == ghCall[c].at = stage
Goes(c, stage) == ghCall' = [ghCall EXCEPT ![c].at = stage]

(* The promise settles: finally frees the project.                          *)
SettleCreate(c) ==
    /\ ghCall' = [ghCall EXCEPT ![c] = NoGhCall]
    /\ activeCreates' = IF activeCreates = c THEN None ELSE activeCreates

(* #findOpenPullRequest: gh lists the open requests whose branch has this   *)
(* name, forks included; ours is the one whose head belongs to us.          *)
OpenPullRequests(branch) ==
    {p \in pulls : p.branch = branch /\ p.owner = "we"}

Fault_NotShared(c, base) ==
    /\ GhAt(c, "free") /\ ghCalls < MaxCalls
    /\ ghCalls' = ghCalls + 1
    /\ ghCall' = [ghCall EXCEPT ![c] = [at |-> "preflight", branch |-> None,
                                        base |-> base]]
    /\ activeCreates' = c
    /\ UNCHANGED <<head, pulls, opens>>

(* A call for a project that is already at it shares the promise, whatever  *)
(* its own title and base are; it needs no slot.                            *)
CreatePullRequest(c, base) ==
    /\ GhAt(c, "free") /\ ghCalls < MaxCalls
    /\ ghCalls' = ghCalls + 1
    /\ IF activeCreates # None
       THEN UNCHANGED <<ghCall, activeCreates>>
       ELSE /\ ghCall' = [ghCall EXCEPT ![c] = [at |-> "preflight",
                                                branch |-> None, base |-> base]]
            /\ activeCreates' = c
    /\ UNCHANGED <<head, pulls, opens>>

(* git status of the project: the branch everything below goes by.          *)
Preflight(c) ==
    /\ GhAt(c, "preflight") /\ head # None
    /\ ghCall' = [ghCall EXCEPT ![c].at = "list", ![c].branch = head]
    /\ UNCHANGED <<head, pulls, opens, activeCreates, ghCalls>>

(* A request that is already open is the answer: nothing is pushed.         *)
List(c) ==
    /\ GhAt(c, "list")
    /\ IF OpenPullRequests(ghCall[c].branch) # {}
       THEN SettleCreate(c)
       ELSE IF ghCall[c].base = ghCall[c].branch
       THEN SettleCreate(c)
       ELSE Goes(c, "push") /\ UNCHANGED activeCreates
    /\ UNCHANGED <<head, pulls, opens, ghCalls>>

PushHead(c) ==
    /\ GhAt(c, "push")
    /\ Goes(c, "create")
    /\ UNCHANGED <<head, pulls, opens, activeCreates, ghCalls>>

(* GitHub has one open request per head and base.                           *)
Accepts(owner, branch, base) ==
    /\ opens < MaxOpen
    /\ \A p \in pulls : <<p.owner, p.branch, p.base>> # <<owner, branch, base>>

OpenPull(owner, branch, base, by) ==
    /\ Accepts(owner, branch, base)
    /\ opens' = opens + 1
    /\ pulls' = pulls \cup {[no |-> opens', owner |-> owner, branch |-> branch,
                             base |-> base, by |-> by]}

(* gh pr create: GitHub has opened the request, and the CLI said so or was  *)
(* killed at its timeout before it could.                                   *)
GhCreate(c) ==
    /\ GhAt(c, "create")
    /\ OpenPull("we", ghCall[c].branch, ghCall[c].base, "app")
    /\ \/ Goes(c, "verify") /\ UNCHANGED activeCreates
       \/ SettleCreate(c)
    /\ UNCHANGED <<head, ghCalls>>

(* The answer is looked up again: from git status, by the branch that is    *)
(* checked out by now.                                                      *)
Verify(c) ==
    /\ GhAt(c, "verify") /\ head # None
    /\ ghCall' = [ghCall EXCEPT ![c].at = "relist", ![c].branch = head]
    /\ UNCHANGED <<head, pulls, opens, activeCreates, ghCalls>>

Relist(c) ==
    /\ GhAt(c, "relist")
    /\ SettleCreate(c)
    /\ UNCHANGED <<head, pulls, opens, ghCalls>>

(* Not confirmed, no title, no gh, not logged in, a remote that is not      *)
(* GitHub's, a push or a creation refused, a timeout.                       *)
Fails(c) ==
    /\ ~GhAt(c, "free")
    /\ SettleCreate(c)
    /\ UNCHANGED <<head, pulls, opens, ghCalls>>

----------------------------------------------------------------------------
(* The surroundings.                                                        *)
Checkout(branch) ==
    /\ head # branch /\ head' = branch
    /\ UNCHANGED <<pulls, opens, ghCall, activeCreates, ghCalls>>

PersonOpens(owner, branch, base) ==
    /\ OpenPull(owner, branch, base, "person")
    /\ UNCHANGED <<head, ghCall, activeCreates, ghCalls>>

PersonCloses(p) ==
    /\ pulls' = pulls \ {p}
    /\ UNCHANGED <<head, opens, ghCall, activeCreates, ghCalls>>

PRNext ==
    \/ \E c \in Slots :
        \/ \E base \in Bases : CreatePullRequest(c, base)
        \/ Preflight(c) \/ List(c) \/ PushHead(c) \/ GhCreate(c)
        \/ Verify(c) \/ Relist(c) \/ Fails(c)
    \/ \E branch \in Heads : Checkout(branch)
    \/ \E owner \in {"we", "other"}, branch \in Branches, base \in Bases :
        PersonOpens(owner, branch, base)
    \/ \E p \in pulls : PersonCloses(p)

PRSpec == PRInit /\ [][PRNext]_prVars

----------------------------------------------------------------------------
(* However often the user asks, retries after a timeout or asks again with  *)
(* another base while the first call is at work, a branch gets one pull     *)
(* request from the app at a time (createPullRequest).                      *)
OnePullRequestPerBranch ==
    \A p, q \in pulls :
        p.by = "app" /\ q.by = "app" /\ p.branch = q.branch => p = q
=============================================================================
