------------------------------- MODULE Viewer -------------------------------
(* The Quick Look window (bin/app/preview): what its one thread does with    *)
(* the messages of its loader threads, of the thread that follows Explorer's *)
(* selection, of its user and of other processes.  A handler is one step,    *)
(* except that creating a web view runs a message loop inside it: load then  *)
(* begins in one step and ends in another, and other messages come between.  *)
EXTENDS Naturals, FiniteSets, Sequences

CONSTANTS
    Files,
    NoFile,         \* no path
    Class,          \* how a file is presented (classify and load)
    Selectable,     \* bound: the files that Explorer's selection comes by
    MaxGen,         \* bound: loads and page turns of one window
    MaxLag,         \* bound: switches that wait in the window's queue
    MaxShort        \* bound: times the bitmaps of an animation cannot be made

Classes == {"still", "animation", "pdf", "film", "song", "text", "note", "web", "other"}

ASSUME ViewerAssumption ==
    /\ Class \in [Files -> Classes]
    /\ NoFile \notin Files /\ Selectable \subseteq Files
    /\ {MaxGen, MaxLag, MaxShort} \subseteq Nat

VARIABLES
    window,         \* "none", "open", or "gone": destroyed, its process still running
    quitting,       \* WM_QUIT is in the thread's queue
    view,           \* the fields of ViewerState
    jobs,           \* loader threads, each with the message it will post
    follow,         \* the follow-selection thread: running, and the last path it posted
    switches,       \* WM_APP_SWITCH messages in the queue
    selected,       \* the selection of the foreground Explorer window
    short,          \* animations whose bitmaps could not be made
    asked           \* history: the file the window was last asked for

windowVars == <<window, quitting, view, jobs, follow, switches, selected, short, asked>>

Pages == 2          \* every PDF of the model has two pages
Kinds == {"loading", "image", "text", "markdown", "video", "html", "card"}
Slots == {"render", "frames", "art", "card", "text", "remote", "video", "webview"}

(* What a field of the window holds: the file it was made from, and for a    *)
(* PDF the page.                                                             *)
Held(slot, f, p) == [slot |-> slot, of |-> f, page |-> p]
Job(what, f, g, p) == [what |-> what, of |-> f, gen |-> g, page |-> p]

NewState ==
    [path |-> NoFile, kind |-> "loading", held |-> {}, gen |-> 0, page |-> 0, pages |-> 0,
     grace |-> TRUE, shown |-> FALSE, source |-> FALSE,
     busy |-> FALSE, pendingPath |-> NoFile, pendingClose |-> FALSE]

WindowTypeOK ==
    /\ window \in {"none", "open", "gone"}
    /\ quitting \in BOOLEAN
    /\ view.path \in Files \cup {NoFile} /\ view.pendingPath \in Files \cup {NoFile}
    /\ view.kind \in Kinds /\ view.gen \in 0 .. MaxGen
    /\ view.page \in 0 .. Pages - 1 /\ view.pages \in {0, Pages}
    /\ \A b \in {"grace", "shown", "source", "busy", "pendingClose"} : view[b] \in BOOLEAN
    /\ \A h \in view.held : h.slot \in Slots /\ h.of \in Files /\ h.page \in 0 .. Pages - 1
    /\ \A j \in jobs : /\ j.what \in {"decode", "count", "page", "remote"}
                       /\ j.of \in Files /\ j.gen \in 1 .. MaxGen /\ j.page \in 0 .. Pages - 1
    /\ follow \in [on : BOOLEAN, last : Files \cup {NoFile}]
    /\ switches \in Seq(Files) /\ Len(switches) <= MaxLag
    /\ selected \in Selectable /\ asked \in Files \cup {NoFile}
    /\ short \in 0 .. MaxShort

WindowInit ==
    /\ window = "none" /\ quitting = FALSE
    /\ view = NewState
    /\ jobs = {}
    /\ follow = [on |-> FALSE, last |-> NoFile]
    /\ switches = <<>>
    /\ selected \in Selectable
    /\ short = 0
    /\ asked = NoFile

-----------------------------------------------------------------------------
(* Loading a file                                                            *)

(* What load clears before it looks at the file.  The kind stays what it was *)
(* until the file's own is known.                                            *)
Cleared(u, f) ==
    [u EXCEPT !.path = f, !.gen = @ + 1, !.held = {}, !.page = 0, !.pages = 0, !.grace = TRUE]

Shows(u, slot, kind) ==
    [u EXCEPT !.held = @ \cup {Held(slot, u.path, u.page)}, !.kind = kind, !.shown = TRUE]
Card(u) == Shows(u, "card", "card")
Loading(u) == [u EXCEPT !.kind = "loading"]

SourceCapable(f) == Class[f] \in {"web", "note"}

Loaded(u, js) == [view |-> u, jobs |-> js]

(* The outcomes of load(f): the state, and the threads it starts.  Reading   *)
(* text, listing an archive and drawing a font are done on this thread.      *)
Outcomes(u, f) ==
    LET b == Cleared(u, f)
        decode == {Job("decode", f, b.gen, 0)}
        rendered ==
            CASE Class[f] \in {"still", "animation"} -> {Loaded(Loading(b), decode)}
              [] Class[f] = "pdf" -> {Loaded(Loading(b), {Job("count", f, b.gen, 0)})}
              [] Class[f] = "film" -> {Loaded(Shows(b, "video", "video"), {}),
                                       Loaded(Loading([b EXCEPT !.shown = TRUE]), decode)}
              [] Class[f] = "song" -> {Loaded(Shows(b, "video", "video"), decode),
                                       Loaded(Loading([b EXCEPT !.shown = TRUE]), decode)}
              [] Class[f] = "text" -> {Loaded(Shows(b, "text", "text"), {}), Loaded(Card(b), {})}
              [] Class[f] = "note" -> {Loaded(Shows(b, "text", "markdown"), {Job("remote", f, b.gen, 0)}),
                                       Loaded(Card(b), {})}
              [] Class[f] = "web" -> {Loaded([b EXCEPT !.kind = "html", !.busy = TRUE, !.shown = TRUE], {})}
              [] OTHER -> {Loaded(Card(b), {})}
    IN  IF u.source /\ SourceCapable(f)
        THEN {Loaded(Shows(b, "text", "text"), {})} \cup rendered
        ELSE rendered

(* ensure_shown starts the follow-selection thread the first time; a window  *)
(* opened by hand (manual) does not follow, and is not a case of its own.    *)
Shown(u) == follow' = IF u.shown THEN [follow EXCEPT !.on = TRUE] ELSE follow

Load(u, f) ==
    /\ view.gen < MaxGen
    /\ \E o \in Outcomes(u, f) : view' = o.view /\ jobs' = jobs \cup o.jobs /\ Shown(o.view)

(* request_load: put off, the last one wins, while a web view is being made. *)
RequestLoad(f) ==
    /\ view.gen < MaxGen
    /\ IF view.busy THEN view' = [view EXCEPT !.pendingPath = f] /\ UNCHANGED <<jobs, follow>>
                    ELSE Load(view, f)

DestroyWindow == window' = "gone" /\ quitting' = TRUE

(* request_close: put off in the same way.                                   *)
RequestClose ==
    IF view.busy THEN view' = [view EXCEPT !.pendingClose = TRUE] /\ UNCHANGED <<window, quitting>>
                 ELSE DestroyWindow /\ UNCHANGED view

(* create_viewer.                                                            *)
CreateViewer(f) ==
    /\ window = "none"
    /\ window' = "open" /\ asked' = f
    /\ \E o \in Outcomes(NewState, f) :
          /\ view' = o.view /\ jobs' = jobs \cup o.jobs
          /\ follow' = [on |-> o.view.shown, last |-> NoFile]
    /\ switches' = <<>>
    /\ UNCHANGED <<quitting, selected, short>>

(* wait_for_async_operation dispatches the thread's messages until the web   *)
(* view is there or cannot be made.  A window destroyed meanwhile ends it;   *)
(* the WM_QUIT that follows is assumed to stay in the queue (external).      *)
\* mutant: the loop inside takes WM_QUIT and nobody posts it again
PumpQuitsEaten == quitting' = FALSE
PumpQuits == quitting' = quitting

(* create_web after the loop: a close wins, then the last switch, then the   *)
(* web view or the card of the file it was made for.                         *)
CreateWebEnds ==
    /\ view.busy
    /\ LET idle == [view EXCEPT !.busy = FALSE]
       IN  \/ /\ window = "gone"
              /\ view' = idle /\ PumpQuits
              /\ UNCHANGED <<window, jobs, follow>>
           \/ /\ window = "open" /\ view.pendingClose
              /\ view' = [idle EXCEPT !.pendingClose = FALSE]
              /\ DestroyWindow
              /\ UNCHANGED <<jobs, follow>>
           \/ /\ window = "open" /\ ~view.pendingClose /\ view.pendingPath # NoFile
              /\ Load([idle EXCEPT !.pendingPath = NoFile], view.pendingPath)
              /\ UNCHANGED <<window, quitting>>
           \/ /\ window = "open" /\ ~view.pendingClose /\ view.pendingPath = NoFile
              /\ view' \in {Shows(idle, "webview", "html"), Card(idle)}
              /\ UNCHANGED <<window, quitting, jobs, follow>>
    /\ UNCHANGED <<switches, selected, short, asked>>

-----------------------------------------------------------------------------
(* What loader threads post.  Nothing arrives at a window that is gone.      *)

Stale(j) == j.gen # view.gen

(* on_render: a picture, or none.                                            *)
\* mutant: a decode that failed or ran out of its time leaves the window as it is
OnRenderSilent(j, ok) ==
    IF Stale(j) \/ ~ok THEN UNCHANGED view
    ELSE IF view.kind = "video"
    THEN view' = [view EXCEPT !.held = @ \cup {Held("art", j.of, 0)}]
    ELSE view' = [view EXCEPT !.held = {h \in @ : h.slot # "render"} \cup {Held("render", j.of, j.page)},
                              !.kind = "image", !.shown = TRUE]
\* mutant: the result of a file the user has left is installed
OnRenderAnyGen(j, ok) ==
    IF view.kind = "video"
    THEN view' = IF ok THEN [view EXCEPT !.held = @ \cup {Held("art", j.of, 0)}] ELSE view
    ELSE view' = IF ok THEN [view EXCEPT !.held = {h \in @ : h.slot # "render"}
                                                  \cup {Held("render", j.of, j.page)},
                                         !.kind = "image", !.shown = TRUE]
                       ELSE Card(view)
OnRender(j, ok) ==
    IF Stale(j) THEN UNCHANGED view
    ELSE IF view.kind = "video"
    THEN view' = IF ok THEN [view EXCEPT !.held = @ \cup {Held("art", j.of, 0)}] ELSE view
    ELSE view' = IF ok THEN [view EXCEPT !.held = {h \in @ : h.slot # "render"}
                                                  \cup {Held("render", j.of, j.page)},
                                         !.kind = "image", !.shown = TRUE]
                       ELSE Card(view)

(* on_anim: with fewer than two bitmaps the file is decoded once more, by a  *)
(* thread that finds the same animation again.                               *)
OnAnim(j) ==
    IF Stale(j) THEN UNCHANGED <<view, short>> /\ jobs' = jobs \ {j}
    ELSE \/ /\ view' = Shows(view, "frames", "image")
            /\ jobs' = jobs \ {j}
            /\ UNCHANGED short
         \/ /\ short < MaxShort
            /\ short' = short + 1
            /\ UNCHANGED <<view, jobs>>

LeavesQueue == UNCHANGED <<window, quitting, switches, selected, asked>>

(* A still picture, the cover of a track, a page of a PDF (spawn_decode,     *)
(* spawn_decode_pdf), or nothing in time.                                    *)
PictureLands ==
    \E j \in jobs :
        /\ j.what \in {"decode", "page"}
        /\ \E ok \in BOOLEAN : IF window = "open" THEN OnRender(j, ok) ELSE UNCHANGED view
        /\ jobs' = jobs \ {j}
        /\ Shown(view')
        /\ UNCHANGED short
        /\ LeavesQueue

AnimationLands ==
    \E j \in jobs :
        /\ j.what = "decode" /\ Class[j.of] = "animation" /\ window = "open"
        /\ OnAnim(j)
        /\ Shown(view')
        /\ LeavesQueue

(* The page count of a PDF is posted before its page; without a count there  *)
(* is no page either.                                                        *)
CountLands ==
    \E j \in jobs :
        /\ j.what = "count"
        /\ view' = IF window = "open" /\ ~Stale(j) THEN [view EXCEPT !.pages = Pages] ELSE view
        /\ jobs' = (jobs \ {j}) \cup {[j EXCEPT !.what = "page"]}
        /\ UNCHANGED <<follow, short>>
        /\ LeavesQueue

(* A picture of a Markdown document that had to be fetched.                  *)
RemoteLands ==
    \E j \in jobs :
        /\ j.what = "remote"
        /\ view' = IF window = "open" /\ ~Stale(j) /\ view.kind = "markdown"
                   THEN [view EXCEPT !.held = @ \cup {Held("remote", j.of, 0)}] ELSE view
        /\ jobs' = jobs \ {j}
        /\ UNCHANGED <<follow, short>>
        /\ LeavesQueue

-----------------------------------------------------------------------------
(* The selection                                                             *)

Select(f) == f \in Selectable \ {selected} /\ selected' = f
             /\ UNCHANGED <<window, quitting, view, jobs, follow, switches, short, asked>>

(* One round of start_poll's thread.                                         *)
Poll ==
    /\ follow.on
    /\ \/ /\ window # "open"
          /\ follow' = [follow EXCEPT !.on = FALSE]
          /\ UNCHANGED switches
       \/ /\ window = "open" /\ selected # follow.last /\ Len(switches) < MaxLag
          /\ follow' = [follow EXCEPT !.last = selected]
          /\ switches' = Append(switches, selected)
    /\ UNCHANGED <<window, quitting, view, jobs, selected, short, asked>>

(* WM_APP_SWITCH.                                                            *)
OnSwitch ==
    /\ window = "open" /\ switches # <<>>
    /\ LET f == Head(switches)
       IN  /\ asked' = f
           /\ IF view.path # f THEN RequestLoad(f) ELSE UNCHANGED <<view, jobs, follow>>
    /\ switches' = Tail(switches)
    /\ UNCHANGED <<window, quitting, selected, short>>

-----------------------------------------------------------------------------
(* The user at the window, and commands of other processes                   *)

(* on_command: a new path always, a toggle or a close only when the window   *)
(* has been there for a while.                                               *)
SetPath(f) ==
    /\ window = "open"
    /\ asked' = f /\ RequestLoad(f)
    /\ UNCHANGED <<window, quitting, switches, selected, short>>

CloseCommand ==
    /\ window = "open"
    /\ IF view.grace THEN UNCHANGED <<window, quitting, view>> ELSE RequestClose
    /\ UNCHANGED <<jobs, follow, switches, selected, short, asked>>

(* The arrow keys: another file of the folder.                               *)
NavSibling ==
    /\ window = "open"
    /\ \E f \in Files \ {view.path} : asked' = f /\ RequestLoad(f)
    /\ UNCHANGED <<window, quitting, switches, selected, short>>

(* goto_pdf_page: the old page stays until the new one is decoded.           *)
GotoPdfPage ==
    /\ window = "open" /\ view.kind = "image" /\ view.pages > 1 /\ view.gen < MaxGen
    /\ \E p \in 0 .. view.pages - 1 :
          /\ p # view.page
          /\ view' = [view EXCEPT !.page = p, !.gen = @ + 1]
          /\ jobs' = jobs \cup {Job("count", view.path, view.gen + 1, p)}
    /\ UNCHANGED <<window, quitting, follow, switches, selected, short, asked>>

(* Ctrl+U and the toolbar: the source of the document, or the document.      *)
ToggleSource ==
    /\ window = "open" /\ SourceCapable(view.path) /\ view.gen < MaxGen
    /\ asked' = view.path
    /\ LET u == [view EXCEPT !.source = ~@]
       IN  IF u.busy THEN view' = [u EXCEPT !.pendingPath = u.path] /\ UNCHANGED <<jobs, follow>>
                     ELSE Load(u, u.path)
    /\ UNCHANGED <<window, quitting, switches, selected, short>>

(* The Close button; Esc, Space and Enter of a window opened by hand.        *)
CloseKey ==
    /\ window = "open"
    /\ RequestClose
    /\ UNCHANGED <<jobs, follow, switches, selected, short, asked>>

(* WM_ACTIVATE, with the setting on: the window closes when it loses focus,  *)
(* but not while it is new.                                                  *)
LosesFocus ==
    /\ window = "open" /\ ~view.grace
    /\ RequestClose
    /\ UNCHANGED <<jobs, follow, switches, selected, short, asked>>

(* The Open button and WM_CLOSE destroy the window also while a web view is  *)
(* being made.                                                               *)
CloseAtOnce ==
    /\ window = "open"
    /\ DestroyWindow
    /\ UNCHANGED <<view, jobs, follow, switches, selected, short, asked>>

(* The timers: SHOW_TIMER_ID, and the end of the grace period.               *)
ShowTimer ==
    /\ window = "open" /\ ~view.shown
    /\ view' = [view EXCEPT !.shown = TRUE] /\ Shown(view')
    /\ UNCHANGED <<window, quitting, jobs, switches, selected, short, asked>>
GraceTimer ==
    /\ window = "open" /\ view.grace
    /\ view' = [view EXCEPT !.grace = FALSE]
    /\ UNCHANGED <<window, quitting, jobs, follow, switches, selected, short, asked>>

(* The message loop of run_preview ends on WM_QUIT, and with it the process  *)
(* and every thread of it.                                                   *)
ViewerEnds ==
    /\ window = "gone" /\ quitting /\ ~view.busy
    /\ window' = "none" /\ quitting' = FALSE
    /\ view' = NewState /\ jobs' = {} /\ follow' = [on |-> FALSE, last |-> NoFile]
    /\ switches' = <<>> /\ asked' = NoFile
    /\ UNCHANGED <<selected, short>>

-----------------------------------------------------------------------------
Lands == PictureLands \/ AnimationLands \/ CountLands \/ RemoteLands

WindowNext ==
    \/ \E f \in Files : CreateViewer(f) \/ SetPath(f) \/ Select(f)
    \/ CreateWebEnds \/ Lands \/ Poll \/ OnSwitch
    \/ CloseCommand \/ NavSibling \/ GotoPdfPage \/ ToggleSource \/ CloseKey \/ LosesFocus \/ CloseAtOnce
    \/ ShowTimer \/ GraceTimer \/ ViewerEnds

(* The loader threads answer within their budgets, and the window's thread   *)
(* handles what is posted to it.  Users and other processes owe nothing.     *)
WindowFairness ==
    /\ WF_windowVars(CreateWebEnds)
    /\ WF_windowVars(Lands)
    /\ WF_windowVars(ShowTimer)
    /\ WF_windowVars(ViewerEnds)

WindowSpec == WindowInit /\ [][WindowNext]_windowVars

-----------------------------------------------------------------------------
(* What the window owes its user                                             *)

Pane(k) == CASE k = "image" -> {"render", "frames"}
             [] k \in {"text", "markdown"} -> {"text"}
             [] k = "video" -> {"video"}
             [] k = "html" -> {"webview"}
             [] OTHER -> {"card"}

(* Everything the window holds is of the file it is about, whatever answers  *)
(* of files already left are still on their way; what it paints is there     *)
(* (paint finds nothing in an empty field); and a page of a PDF is the page  *)
(* the pager names, once the page asked for last has come.                   *)
ShowsItsFile ==
    window = "open" =>
        /\ \A h \in view.held : h.of = view.path
        /\ view.kind = "loading" \/ view.busy \/ \E h \in view.held : h.slot \in Pane(view.kind)
        /\ view.kind = "image" /\ (\A j \in jobs : Stale(j)) =>
              \A h \in view.held : h.slot = "render" => h.page = view.page

(* A window that loads a file comes to show it, or its card, and to be       *)
(* visible, unless it is closed first: no answer is lost on the way.         *)
Settled == window # "open" \/ (view.kind # "loading" /\ ~view.busy /\ view.shown)
EveryLoadIsShown == (window = "open") ~> Settled

(* The window keeps what WindowLife promises: in particular a close that was *)
(* put off happens, and a process whose window is gone ends.                 *)
Life == INSTANCE WindowLife WITH win <- window, busy <- view.busy, grace <- view.grace, closing <- view.pendingClose
KeepsWindowLife == Life!LifeSpec

(* request_load: put off, the last one wins.  A window that is not busy is   *)
(* about the file it was last asked for.                                     *)
LastSwitchWins == window = "open" /\ ~view.busy => view.path = asked
=============================================================================
