--------------------------- MODULE BrowserPreview ---------------------------
(* The preview of local web pages: BrowserService of                         *)
(* src/main/browser/browserService.ts and the web contents of its view.      *)
(*                                                                           *)
(* An action is one task: a call up to its await, or one report of Electron  *)
(* with the events it emits and the promises it settles.  loadURL's promise  *)
(* is settled by the end of its load, by the begin of another one and by the *)
(* end of its view.  Titles, history, bounds and the console are left out.   *)
EXTENDS ServiceBounds

CONSTANTS
    Urls,       \* addresses on this computer
    MaxViews,   \* bound: views made
    MaxLoads    \* bound: loads asked for

ASSUME BrowserAssumption == None \notin Urls /\ MaxViews \in Nat /\ MaxLoads \in Nat

VARIABLES
    preview,     \* #snapshot
    pane,        \* #view, or 0
    panes,       \* views made so far
    inProgress,  \* the address the view is loading
    reached,     \* the load has replaced the page
    loadedUrl,   \* the address of the page
    failed,      \* the last load failed or was given up
    navigating,  \* a navigate() awaits the load
    orphaned,    \* ... or a load of a view that has been closed
    loads

contents == <<inProgress, reached, loadedUrl, failed>>
browserVars == <<preview, pane, panes, contents, navigating, orphaned, loads>>

EmptySnapshot == [open |-> FALSE, url |-> None, loading |-> FALSE, error |-> FALSE]

BrowserTypeOK ==
    /\ preview \in [open : BOOLEAN, url : Urls \cup {None}, loading : BOOLEAN, error : BOOLEAN]
    /\ pane \in 0 .. MaxViews /\ panes \in 0 .. MaxViews
    /\ {inProgress, loadedUrl} \subseteq Urls \cup {None}
    /\ {reached, failed, navigating, orphaned} \subseteq BOOLEAN

BrowserInit ==
    /\ preview = EmptySnapshot /\ pane = 0 /\ panes = 0
    /\ inProgress = None /\ reached = FALSE /\ loadedUrl = None /\ failed = FALSE
    /\ navigating = FALSE /\ orphaned = FALSE /\ loads = 0

\* #ensureView
EnsureView ==
    \/ pane # 0 /\ UNCHANGED <<pane, panes>>
    \/ pane = 0 /\ panes < MaxViews /\ pane' = panes + 1 /\ panes' = panes + 1

-----------------------------------------------------------------------------
(* Calls.                                                                    *)

OpenPreview ==
    /\ EnsureView
    /\ preview' = [preview EXCEPT !.open = TRUE, !.error = FALSE]
    /\ UNCHANGED <<contents, navigating, orphaned, loads>>

BeginsLoad(u) ==
    /\ loads < MaxLoads /\ loads' = loads + 1
    /\ inProgress' = u /\ reached' = FALSE
    /\ UNCHANGED <<loadedUrl, failed, orphaned>>

\* navigate() up to its await; open(url) comes to the same.  A navigate() that awaits the
\* load before this one is told that it was aborted, and says so.
Navigate(u) ==
    /\ BeginsLoad(u) /\ EnsureView /\ navigating' = TRUE
    /\ preview' = [open |-> TRUE, url |-> u, loading |-> ~navigating, error |-> navigating]

\* reload(), goBack(), goForward() and links: loads that no call awaits, which may take the
\* place of one that a call does await.  did-start-loading comes unless it was loading.
Revisit(u) ==
    /\ pane # 0 /\ loadedUrl # None
    /\ BeginsLoad(u) /\ navigating' = FALSE
    /\ IF inProgress # None /\ ~navigating THEN UNCHANGED preview
       ELSE preview' = [preview EXCEPT !.loading = ~navigating, !.error = navigating]
    /\ UNCHANGED <<pane, panes>>

ClosePreview ==
    /\ pane # 0 /\ pane' = 0
    /\ preview' = EmptySnapshot
    /\ inProgress' = None /\ reached' = FALSE /\ loadedUrl' = None /\ failed' = FALSE
    /\ navigating' = FALSE /\ orphaned' = (orphaned \/ navigating)
    /\ UNCHANGED <<panes, loads>>

-----------------------------------------------------------------------------
(* Reports of the web contents.                                              *)

LoadIsOver ==
    /\ inProgress # None /\ inProgress' = None /\ reached' = FALSE /\ navigating' = FALSE
    /\ UNCHANGED <<pane, panes, orphaned, loads>>

\* Fault: the error of the load that was given up stays.
Fault_DidNavigate(u) == [preview EXCEPT !.url = u]

\* did-navigate
DidNavigate(u) == [preview EXCEPT !.url = u, !.error = FALSE]

\* A view that was closed is gone before the next one has a page.
LoadCommits ==
    /\ inProgress # None /\ ~reached /\ ~orphaned
    /\ reached' = TRUE /\ loadedUrl' = inProgress /\ failed' = FALSE
    /\ preview' = DidNavigate(inProgress)
    /\ UNCHANGED <<pane, panes, inProgress, navigating, orphaned, loads>>

\* did-stop-loading of a load that succeeded: #syncNavigation.
LoadEnds ==
    /\ reached /\ LoadIsOver
    /\ preview' = [preview EXCEPT !.loading = FALSE, !.url = loadedUrl]
    /\ UNCHANGED <<loadedUrl, failed>>

\* did-fail-load, then did-stop-loading with the address that failed, then the call.
PageLoadFails ==
    /\ ~reached /\ LoadIsOver
    /\ loadedUrl' = inProgress /\ failed' = TRUE
    /\ preview' = [preview EXCEPT !.loading = FALSE, !.error = TRUE, !.url = inProgress]

\* After stop(), or for a download: the page stays, did-fail-load is ignored, and a call
\* that awaits the load is told that it was aborted.
LoadIsGivenUp ==
    /\ LoadIsOver
    /\ failed' = TRUE /\ UNCHANGED loadedUrl
    /\ preview' = [preview EXCEPT !.loading = FALSE, !.error = @ \/ navigating,
                                  !.url = IF loadedUrl = None THEN @ ELSE loadedUrl]

\* render-process-gone of an idle page.
RenderProcessGone ==
    /\ pane # 0 /\ inProgress = None
    /\ failed' = TRUE
    /\ preview' = [preview EXCEPT !.loading = FALSE, !.error = TRUE]
    /\ UNCHANGED <<pane, panes, inProgress, reached, loadedUrl, navigating, orphaned, loads>>

\* The view that was closed is destroyed; the call that awaited its load fails.
ViewDestroyed ==
    /\ orphaned /\ orphaned' = FALSE
    /\ preview' = [preview EXCEPT !.loading = FALSE, !.error = TRUE]
    /\ UNCHANGED <<pane, panes, contents, navigating, loads>>

BrowserNext ==
    \/ OpenPreview \/ ClosePreview
    \/ \E u \in Urls : Navigate(u) \/ Revisit(u)
    \/ LoadCommits \/ LoadEnds \/ PageLoadFails \/ LoadIsGivenUp
    \/ RenderProcessGone \/ ViewDestroyed

BrowserSpec == BrowserInit /\ [][BrowserNext]_browserVars
-----------------------------------------------------------------------------
\* When nothing loads any more the panel shows the page: its address, no load, and no
\* error once its load has succeeded, whatever loads were given up, stopped or failed
\* on the way, in this view or in one closed before.
PanelShowsThePage ==
    pane # 0 /\ inProgress = None /\ ~orphaned =>
        /\ preview.open /\ ~preview.loading
        /\ loadedUrl # None => preview.url = loadedUrl
        /\ loadedUrl # None /\ ~failed => ~preview.error
=============================================================================
