--------------------------- MODULE TerminalCanvas ---------------------------
(***************************************************************************)
(* How the window shows a terminal: TerminalPanel and TerminalCanvas in    *)
(* src/renderer/src/TerminalPanel.tsx.  The component is rendered with the *)
(* sessions of the last snapshot, its effects run some time after, and the *)
(* terminal it draws on is loaded on the way; the effects then write only  *)
(* what is new.  A text is a sequence of chunks, of which the service      *)
(* keeps the last MaxTail.  Which snapshot has arrived is Window's matter. *)
(***************************************************************************)
EXTENDS Naturals, Sequences, SequencesExt

CONSTANTS
    Shells,    \* sessions of the project
    Chunks,    \* pieces of output
    MaxTail,   \* MAX_OUTPUT_BYTES of the service, in chunks
    NoShell

ASSUME CanvasAssumption == NoShell \notin Shells /\ MaxTail \in Nat

VARIABLES
    tabs,    \* projectSessions, oldest first
    printed,   \* session.output of each
    selectedId,
    drawn,     \* the session of the last render, whose effects may be due
    latest,    \* latestOutput: its output then
    effectsDue, \* whether the effects of the last render are still to run
    attached,   \* the session the effects last ran for
    loading,   \* whether xterm is being loaded for it
    xterm,  \* terminalRef: whether there is a terminal
    rendered,  \* renderedOutput
    screen     \* what the terminal shows

canvasVars == <<tabs, printed, selectedId, drawn, latest, effectsDue, attached, loading, xterm,
                rendered, screen>>

ShownText == UNION {[1 .. n -> Chunks] : n \in 0 .. MaxTail}

CanvasTypeOK ==
    /\ \A n \in DOMAIN tabs : tabs[n] \in Shells
    /\ printed \in [Shells -> ShownText]
    /\ {selectedId, drawn, attached} \subseteq Shells \cup {NoShell}
    /\ {latest, rendered, screen} \subseteq ShownText
    /\ {effectsDue, loading, xterm} \subseteq BOOLEAN

CanvasInit ==
    /\ tabs = <<>> /\ printed = [s \in Shells |-> <<>>]
    /\ selectedId = NoShell /\ drawn = NoShell /\ attached = NoShell
    /\ latest = <<>> /\ rendered = <<>> /\ screen = <<>>
    /\ effectsDue = FALSE /\ loading = FALSE /\ xterm = FALSE

canvas == <<drawn, latest, effectsDue, attached, loading, xterm, rendered, screen>>

-----------------------------------------------------------------------------
(* Snapshots and the user.                                                 *)

Created(s) ==
    /\ s \notin ToSet(tabs)
    /\ tabs' = Append(tabs, s) /\ selectedId' = s
    /\ printed' = [printed EXCEPT ![s] = <<>>]
    /\ UNCHANGED canvas

Prints(s, chunk) ==
    /\ s \in ToSet(tabs)
    /\ LET all == Append(printed[s], chunk)
       IN printed' = [printed EXCEPT ![s] =
                        SubSeq(all, IF Len(all) > MaxTail THEN 2 ELSE 1, Len(all))]
    /\ UNCHANGED <<tabs, selectedId, canvas>>

Cleared(s) ==
    /\ s \in ToSet(tabs) /\ printed' = [printed EXCEPT ![s] = <<>>]
    /\ UNCHANGED <<tabs, selectedId, canvas>>

\* closeSession selects the first of the others it knew when it was called, which may
\* be closed by then.
Closed(s, next) ==
    /\ next \in (Shells \cup {NoShell}) \ {s}
    /\ \E n \in DOMAIN tabs : tabs[n] = s /\ tabs' = RemoveAt(tabs, n)
    /\ selectedId' = next
    /\ UNCHANGED <<printed, canvas>>

Select(s) ==
    /\ s \in ToSet(tabs) /\ selectedId' = s
    /\ UNCHANGED <<tabs, printed, canvas>>

\* The selected session, or the first there is.
ShownShell ==
    IF selectedId \in ToSet(tabs) THEN selectedId
    ELSE IF tabs # <<>> THEN tabs[1] ELSE NoShell

-----------------------------------------------------------------------------
(* The component.                                                          *)

OutputOf(s) == IF s = NoShell THEN <<>> ELSE printed[s]

Render ==
    /\ ShownShell # drawn \/ OutputOf(ShownShell) # latest
    /\ drawn' = ShownShell /\ latest' = OutputOf(ShownShell)
    /\ effectsDue' = TRUE
    /\ UNCHANGED <<tabs, printed, selectedId, attached, loading, xterm, rendered, screen>>

\* Fault: a longer output is taken for a continued one.
Fault_LongerIsMore(shown, old, new) ==
    IF Len(new) >= Len(old) THEN shown \o SubSeq(new, Len(old) + 1, Len(new)) ELSE new

\* What is new is written, and all of it after a reset when it does not continue the old.
Written(shown, old, new) ==
    IF IsPrefix(old, new) THEN shown \o SubSeq(new, Len(old) + 1, Len(new)) ELSE new

\* The effect of the session's identifier: the terminal of the session before is
\* disposed of, and one is loaded for the new session.
SessionEffect ==
    /\ effectsDue /\ drawn # attached
    /\ effectsDue' = FALSE /\ attached' = drawn
    /\ xterm' = FALSE /\ screen' = <<>>
    /\ rendered' = IF xterm \/ drawn = NoShell THEN <<>> ELSE rendered
    /\ loading' = (drawn # NoShell)
    /\ UNCHANGED <<tabs, printed, selectedId, drawn, latest>>

\* The effect of the output.
OutputEffect ==
    /\ effectsDue /\ drawn = attached
    /\ effectsDue' = FALSE
    /\ IF xterm /\ latest # rendered
         THEN screen' = Written(screen, rendered, latest) /\ rendered' = latest
       ELSE UNCHANGED <<screen, rendered>>
    /\ UNCHANGED <<tabs, printed, selectedId, drawn, latest, attached, loading, xterm>>

\* The terminal is there; it writes the output of the last render.
XtermLoaded ==
    /\ loading /\ loading' = FALSE
    /\ xterm' = TRUE /\ rendered' = latest /\ screen' = latest
    /\ UNCHANGED <<tabs, printed, selectedId, drawn, latest, effectsDue, attached>>

XtermFails ==
    /\ loading /\ loading' = FALSE
    /\ UNCHANGED <<tabs, printed, selectedId, drawn, latest, effectsDue, attached, xterm, rendered, screen>>

CanvasNext ==
    \/ \E s \in Shells :
         \/ Created(s) \/ Cleared(s) \/ Select(s)
         \/ \E chunk \in Chunks : Prints(s, chunk)
         \/ \E next \in Shells \cup {NoShell} : Closed(s, next)
    \/ Render \/ SessionEffect \/ OutputEffect \/ XtermLoaded \/ XtermFails

CanvasSpec == CanvasInit /\ [][CanvasNext]_canvasVars

-----------------------------------------------------------------------------
(* Properties.                                                             *)

\* When the effects have run, a terminal that is there shows the output of the session
\* that was drawn, and what is typed goes to that session: through output that is cut
\* or cleared, sessions that are closed or selected, and a load that ends late.
ScreenShowsSession ==
    ~effectsDue => attached = drawn /\ (xterm => screen = latest)
=============================================================================
