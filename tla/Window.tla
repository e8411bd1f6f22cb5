------------------------------ MODULE Window ------------------------------
(* The window (src/main/ipc.ts, src/preload/index.ts and App.tsx of the   *)
(* renderer) and the main process: what the page shows of the services'   *)
(* state, over the messages between them.  A service pushes its snapshot to *)
(* every window that has asked for a state before; terminals push what        *)
(* changes, so a lost or repeated push stays visible.  A page subscribes,   *)
(* asks for the present states, and applies what arrives in the order it    *)
(* was sent.  The page is reloaded, the window closed and opened again.     *)
EXTENDS ServiceBounds, Sequences, SequencesExt

CONSTANTS
    StateChannels,  \* services with a state request: runtime, account, ...
    AgentChannel,   \* the channel of AgentService, which has none
    MaxPages,       \* bound: pages loaded
    MaxChanges,     \* bound: changes of each snapshot
    MaxChunks,      \* bound: terminal output
    MaxWire         \* bound: messages on the wire when a service changes
Channels == StateChannels \cup {AgentChannel}

ASSUME WindowAssumption == /\ AgentChannel \notin StateChannels /\ IsFiniteSet(StateChannels)
                           /\ None \notin Channels
                           /\ MaxPages \in Nat \ {0}
                           /\ MaxChanges \in Nat
                           /\ MaxChunks \in Nat /\ MaxWire \in Nat

VARIABLES
    states,     \* the present snapshot of each service, as a version
    terminal,   \* output of the terminal session, or None without a session
    chunks,     \* chunks the engine wrote so far
    opened,     \* the window is open
    webContents,\* the window is among those pushes go to
    page,       \* number of the page in the window
    mounted,    \* its effects have run: it listens
    displayed,  \* page state: the snapshot of each service
    sessions,   \* page state: terminalState
    invoked,    \* requests on their way to the main process
    working,    \* the operation that a service works on, and the page that asked for it
    wire        \* replies and pushes on their way to the page

windowVars == <<states, terminal, chunks, opened, webContents, page,
                mounted, displayed, sessions, invoked, working, wire>>

Text == UNION {[1..n -> 1..MaxChunks] : n \in 0..MaxChunks}
Versions == 0..MaxChanges
Pages == 1..MaxPages

(* Everything a page asks for: the state of each service, the bootstrap     *)
(* state, the terminals, and the operations of a service.                   *)
PageRequests == [asks: {"state", "operation"}, of: Channels]
                \cup [asks: {"bootstrap", "terminal"}]

Operations == [page: Pages, of: Channels]

(* Replies carry the page that asked;   a push is for whatever page is there. *)
States    == [kind: {"state"}, to: Pages \cup {0}, of: Channels, is: Versions]
Bootstrap == [kind: {"bootstrap"}, to: Pages, is: [StateChannels -> Versions]]
Sessions  == [kind: {"sessions"}, to: Pages, is: Text \cup {None}]
Events    == [kind: {"session"}, is: Text] \cup [kind: {"removed"}]
             \cup [kind: {"output"}, is: 1..MaxChunks]

WindowTypeOK ==
    /\ states \in [Channels -> Versions] /\ chunks \in 0..MaxChunks
    /\ terminal \in Text \cup {None} /\ sessions \in Text \cup {None}
    /\ opened \in BOOLEAN /\ webContents \in BOOLEAN /\ mounted \in BOOLEAN
    /\ page \in Pages /\ working \in Operations \cup {None}
    /\ displayed \in [Channels -> Versions \cup {None}]
    /\ invoked \in Seq([page: Pages, call: PageRequests])
    /\ wire \in Seq(States \cup Bootstrap \cup Sessions \cup Events)

Nothing == [c \in Channels |-> None]

WindowInit ==
    /\ states = [c \in Channels |-> 0] /\ terminal = None /\ chunks = 0
    /\ opened = TRUE /\ webContents = FALSE /\ page = 1 /\ mounted = FALSE
    /\ displayed = Nothing /\ sessions = None
    /\ invoked = <<>> /\ working = None /\ wire = <<>>

main    == <<states, terminal, chunks>>
window  == <<opened, page, mounted>>

----------------------------------------------------------------------------
(* The main process.                                                        *)

Send(message) ==
    /\ Len(wire) < MaxWire
    /\ wire' = IF webContents THEN Append(wire, message) ELSE wire

ServiceChanges(c) ==
    /\ states[c] < MaxChanges
    /\ states' = [states EXCEPT ![c] = @ + 1]
    /\ Send([kind |-> "state", to |-> 0, of |-> c, is |-> states'[c]])
    /\ UNCHANGED <<terminal, chunks, window, webContents, displayed, sessions,
                   invoked, working>>

TerminalChanges(event) ==
    /\ Send(event)
    /\ UNCHANGED <<states, window, webContents, displayed, sessions, invoked, working>>

TerminalOpens ==
    /\ terminal = None
    /\ terminal' = <<>> /\ chunks' = chunks
    /\ TerminalChanges([kind |-> "session", is |-> <<>>])

TerminalWrites ==
    /\ terminal # None /\ chunks < MaxChunks
    /\ chunks' = chunks + 1 /\ terminal' = Append(terminal, chunks')
    /\ TerminalChanges([kind |-> "output", is |-> chunks'])

TerminalIsCleared ==
    /\ terminal \notin {None, <<>>}
    /\ terminal' = <<>> /\ chunks' = chunks
    /\ TerminalChanges([kind |-> "session", is |-> <<>>])

TerminalCloses ==
    /\ terminal # None
    /\ terminal' = None /\ chunks' = chunks
    /\ TerminalChanges([kind |-> "removed"])

Reply(message) == wire' = Append(wire, message)

NextCall == Head(invoked)
Handled  == invoked' = Tail(invoked)

(* A state request makes the sender one pushes go to and answers with the   *)
(* present state, in one turn of the event loop.                            *)
Fault_AnswerWithoutPushes ==
    /\ invoked # <<>> /\ NextCall.call.asks = "state"
    /\ Handled /\ webContents' = webContents
    /\ Reply([kind |-> "state", to |-> NextCall.page, of |-> NextCall.call.of,
              is |-> states[NextCall.call.of]])
    /\ UNCHANGED <<main, window, displayed, sessions, working>>

HandleState ==
    /\ invoked # <<>> /\ NextCall.call.asks = "state"
    /\ Handled /\ webContents' = TRUE
    /\ Reply([kind |-> "state", to |-> NextCall.page, of |-> NextCall.call.of,
              is |-> states[NextCall.call.of]])
    /\ UNCHANGED <<main, window, displayed, sessions, working>>

HandleTerminalState ==
    /\ invoked # <<>> /\ NextCall.call.asks = "terminal"
    /\ Handled /\ webContents' = TRUE
    /\ Reply([kind |-> "sessions", to |-> NextCall.page, is |-> terminal])
    /\ UNCHANGED <<main, window, displayed, sessions, working>>

(* The bootstrap state does not make the sender one pushes go to.           *)
HandleBootstrap ==
    /\ invoked # <<>> /\ NextCall.call.asks = "bootstrap"
    /\ Handled
    /\ Reply([kind |-> "bootstrap", to |-> NextCall.page,
              is |-> [c \in StateChannels |-> states[c]]])
    /\ UNCHANGED <<main, window, webContents, displayed, sessions, working>>

(* An operation of a service: parsed, or refused with an error.  The other   *)
(* services register theirs as that of the conversations does.               *)
HandleRequest ==
    /\ invoked # <<>> /\ NextCall.call = [asks |-> "operation", of |-> AgentChannel]
    /\ working = None
    /\ Handled /\ working' \in {None, [page |-> NextCall.page, of |-> AgentChannel]}
    /\ UNCHANGED <<main, window, webContents, displayed, sessions, wire>>

HandleOperation(c) ==
    /\ invoked # <<>> /\ NextCall.call = [asks |-> "operation", of |-> c]
    /\ working = None
    /\ Handled /\ working' \in {None, [page |-> NextCall.page, of |-> c]}
    /\ UNCHANGED <<main, window, webContents, displayed, sessions, wire>>

(* ... whose result is the service's snapshot when it ends; meanwhile the   *)
(* service changes and pushes.  The page shows some of the answers, and     *)
(* leaves it to the pushes otherwise.                                       *)
RequestEnds ==
    /\ working # None
    /\ working' = None
    /\ \/ Reply([kind |-> "state", to |-> working.page, of |-> working.of,
                 is |-> states[working.of]]) /\ opened
       \/ wire' = wire
    /\ UNCHANGED <<main, window, webContents, displayed, sessions, invoked>>

----------------------------------------------------------------------------
(* The page.                                                                *)

Invoke(request) == [page |-> page, call |-> request]

(* The effects of App run once after its first render: each subscribes to a *)
(* service before it asks for its state.                                    *)
Mount ==
    /\ opened /\ ~mounted
    /\ mounted' = TRUE
    /\ LET services == SetToSeq(StateChannels)
           calls == [i \in DOMAIN services |-> Invoke([asks |-> "state", of |-> services[i]])]
       IN invoked' = invoked \o <<Invoke([asks |-> "bootstrap"])>> \o calls
                               \o <<Invoke([asks |-> "terminal"])>>
    /\ UNCHANGED <<main, opened, webContents, page, displayed, sessions, working, wire>>

(* The user starts a conversation, signs in, runs a scan, saves a task ...   *)
PageAsks(c) ==
    /\ opened /\ mounted /\ invoked = <<>> /\ working = None /\ Len(wire) < MaxWire
    /\ invoked' = <<Invoke([asks |-> "operation", of |-> c])>>
    /\ UNCHANGED <<main, window, webContents, displayed, sessions, working, wire>>

(* Pushes reach a page that listens; a reply only the page that invoked.      *)
Arrives(m) == mounted /\ (m.kind \in {"session", "output", "removed"} \/ m.to \in {0, page})

(* reduceTerminalEvent: output of a session the page does not know of is    *)
(* left out; its state is still to come.                                    *)
ReduceTerminalEvent(state, m) ==
    IF m.kind = "removed" THEN None
    ELSE IF m.kind = "session" THEN m.is
    ELSE IF state = None THEN None ELSE Append(state, m.is)

Shows(m) ==
    /\ displayed' = IF m.kind = "state" THEN [displayed EXCEPT ![m.of] = m.is]
                ELSE IF m.kind = "bootstrap"
                THEN [c \in Channels |-> IF c \in StateChannels THEN m.is[c]
                                         ELSE displayed[c]]
                ELSE displayed
    /\ sessions' = IF m.kind \in {"state", "bootstrap"} THEN sessions
                   ELSE IF m.kind = "sessions" THEN m.is
                   ELSE ReduceTerminalEvent(sessions, m)

Deliver ==
    /\ opened /\ wire # <<>>
    /\ wire' = Tail(wire)
    /\ IF Arrives(Head(wire)) THEN Shows(Head(wire))
                              ELSE UNCHANGED <<displayed, sessions>>
    /\ UNCHANGED <<main, window, webContents, invoked, working>>

----------------------------------------------------------------------------
(* The window.                                                              *)

NewPage ==
    /\ page < MaxPages /\ page' = page + 1
    /\ mounted' = FALSE /\ displayed' = Nothing /\ sessions' = None

(* A reload keeps the window's contents: pushes go on, to nobody.           *)
Reload ==
    /\ opened /\ NewPage
    /\ UNCHANGED <<main, opened, webContents, invoked, working, wire>>

(* 'destroyed' takes the window out; what is on its way to it is lost, and  *)
(* what it invoked for is refused: its sender is not the window any more.     *)
CloseWindow ==
    /\ opened
    /\ opened' = FALSE /\ mounted' = FALSE /\ webContents' = FALSE
    /\ displayed' = Nothing /\ sessions' = None /\ wire' = <<>> /\ invoked' = <<>>
    /\ UNCHANGED <<main, page, working>>

(* 'activate' without a window.                                             *)
OpenWindow ==
    /\ ~opened /\ NewPage
    /\ opened' = TRUE
    /\ UNCHANGED <<main, webContents, invoked, working, wire>>

WindowNext ==
    \/ \E c \in Channels : ServiceChanges(c) \/ PageAsks(c)
    \/ TerminalOpens \/ TerminalWrites \/ TerminalIsCleared \/ TerminalCloses
    \/ HandleState \/ HandleTerminalState \/ HandleBootstrap
    \/ HandleRequest \/ RequestEnds
    \/ \E c \in StateChannels : HandleOperation(c)
    \/ Mount \/ Deliver \/ Reload \/ CloseWindow \/ OpenWindow

WindowSpec == WindowInit /\ [][WindowNext]_windowVars

----------------------------------------------------------------------------
(* Once nothing is on its way, a mounted page shows every service's present *)
(* state, and of the terminal exactly what was written: no push is lost or  *)
(* applied twice around a state request, a reload or a new window           *)
(* (App.tsx, ipc.ts).  Conversations are shown as of the last answer or     *)
(* push the page saw, never an older one.                                   *)
Settled == opened /\ mounted /\ invoked = <<>> /\ wire = <<>>

WindowIsCurrent ==
    Settled => /\ \A c \in StateChannels : displayed[c] = states[c]
               /\ sessions = terminal
               /\ displayed[AgentChannel] \in {None, states[AgentChannel]}
=============================================================================
