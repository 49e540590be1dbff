----------------------------- MODULE PreviewPane -----------------------------
(* The preview-pane handler (previewhandler.rs): the COM thread of prevhost, the   *)
(* dedicated thread that owns and pumps the preview window, the messages between   *)
(* them, the detached decode worker with its budget, and the host, which may       *)
(* destroy the pane under the window at any time. The host's calls come one after  *)
(* the other, but while DoPreview reads the host's marshaled stream the apartment  *)
(* lets other calls of the host in.                                                *)
EXTENDS Naturals, Sequences, FiniteSets

CONSTANTS
    PaneFiles,      \* what the host previews
    Unpaintable, \* the files whose picture make_dib refuses
    Shades,     \* background colours
    ThemeBg,    \* theme_default_bg
    Themed,     \* the colours that agree with the theme
    Windows,    \* identities of preview windows and of their threads
    MaxQueue,   \* bound: messages waiting in a window's queue
    MaxWorkers, \* bound: decode workers alive
    Nil

ASSUME ShadesAssumption == ThemeBg \in Shades /\ Themed \subseteq Shades /\ Unpaintable \subseteq PaneFiles
ASSUME NilAssumption == Nil \notin PaneFiles /\ Nil \notin Windows
ASSUME BoundsAssumption == MaxQueue \in Nat \ {0} /\ MaxWorkers \in Nat

VARIABLES
    life,    \* of the handler and its process: "held", "released", "aborted"
    stream, previewed, \* the file initialised with, and has the host had its preview?
    parent,  \* has the host given a parent window?
    bg, hwnd, ui_thread, pixels,  \* the fields of PreviewHandler
    preview, \* where the DoPreview frame is
    rx,      \* ensure_window's channel: nothing yet, a window, or the 0 of a failure
    call,    \* the call that is joining a UI thread
    joining, \* the thread it joins
    workers, \* decode workers alive
    win,     \* the windows, each with its thread, its queue and its RenderData
    boxes,   \* render payloads on the heap
    bitmaps  \* DIB sections alive

handler == <<life, stream, previewed, parent, bg, hwnd, ui_thread, pixels>>
frames == <<preview, rx, call, joining, workers>>
heap == <<boxes, bitmaps>>
paneVars == <<handler, frames, win, heap>>

Pictures == PaneFiles \X Shades
Messages == {"close"} \union Pictures

\* No picture is the message that closes a window
ASSUME MessagesAssumption == "close" \notin Pictures

NoWindow == [is |-> "none", queue |-> <<>>, rd |-> Nil, screen |-> Nil, dirty |-> FALSE]

PaneInit ==
    /\ life = "held" /\ stream = Nil /\ previewed = FALSE /\ parent = FALSE
    /\ bg = ThemeBg /\ hwnd = Nil /\ ui_thread = Nil /\ pixels = Nil
    /\ preview = "no" /\ rx = "empty" /\ call = "none" /\ joining = Nil /\ workers = 0
    /\ win = [w \in Windows |-> NoWindow]
    /\ boxes = 0 /\ bitmaps = 0

-----------------------------------------------------------------------------
(* Helpers *)

\* The COM thread takes a call of the host: it is idle, or reading the stream.
Callable == life = "held" /\ call = "none" /\ preview \in {"no", "source"}
Idle == life = "held" /\ call = "none" /\ preview = "no"

\* PostMessageW: FALSE when the window is gone
Alive(w) == w # Nil /\ win[w].is = "alive"
Post(w, m) == win' = [win EXCEPT ![w].queue = Append(@, m)]

\* mutant: the payload of a failed PostMessage is forgotten
post_render_leaking(picture) ==
    IF hwnd = Nil \/ picture[1] = Nil THEN UNCHANGED <<win, boxes>>
    ELSE /\ boxes' = boxes + 1
         /\ IF Alive(hwnd) THEN Post(hwnd, picture) ELSE UNCHANGED win

\* A copy of the pixels goes to the UI thread, which frees it; when the window is
\* dead the poster frees it.
post_render(picture) ==
    IF hwnd = Nil \/ picture[1] = Nil \/ ~Alive(hwnd) THEN UNCHANGED <<win, boxes>>
    ELSE Post(hwnd, picture) /\ boxes' = boxes + 1

\* mutant: the window is not asked to close
destroy_window_silently(how) ==
    /\ hwnd' = Nil
    /\ call' = how /\ joining' = ui_thread /\ ui_thread' = Nil
    /\ UNCHANGED win

\* mutant: the thread is not joined
destroy_window_unjoined(how) ==
    /\ IF Alive(hwnd) THEN Post(hwnd, "close") ELSE UNCHANGED win
    /\ hwnd' = Nil
    /\ call' = how /\ joining' = Nil /\ ui_thread' = Nil

\* destroy_window, up to the join
destroy_window(how) ==
    /\ IF Alive(hwnd) THEN Post(hwnd, "close") ELSE UNCHANGED win
    /\ hwnd' = Nil
    /\ call' = how /\ joining' = ui_thread /\ ui_thread' = Nil

-----------------------------------------------------------------------------
(* The host's calls *)

\* the host initialises once before each preview, and again only after Unload
InitializeWithStream(f) ==
    /\ Idle /\ stream = Nil
    /\ stream' = f /\ previewed' = FALSE
    /\ UNCHANGED <<life, parent, bg, hwnd, ui_thread, pixels, frames, win, heap>>

\* SetWindow also moves the child, whose place no property is about
SetWindow ==
    /\ Callable /\ ~parent
    /\ parent' = TRUE
    /\ UNCHANGED <<life, stream, previewed, bg, hwnd, ui_thread, pixels, frames, win, heap>>

\* a colour that disagrees with the theme is replaced by the theme's
SetBackgroundColor(c) ==
    /\ Callable
    /\ bg' = IF c \in Themed THEN c ELSE ThemeBg
    /\ Alive(hwnd) => Len(win[hwnd].queue) < MaxQueue
    /\ post_render(<<pixels, bg'>>)
    /\ UNCHANGED <<life, stream, previewed, parent, hwnd, ui_thread, pixels, frames, bitmaps>>

\* SetSite with a null site: the host detaches the handler
Detach ==
    /\ Callable
    /\ destroy_window("site")
    /\ UNCHANGED <<life, stream, previewed, parent, bg, pixels, preview, rx, workers, heap>>

PaneUnload ==
    /\ Callable
    /\ destroy_window("unload")
    /\ UNCHANGED <<life, stream, previewed, parent, bg, pixels, preview, rx, workers, heap>>

\* the last Release: Drop of the handler
Release ==
    /\ Idle
    /\ destroy_window("drop")
    /\ UNCHANGED <<life, stream, previewed, parent, bg, pixels, preview, rx, workers, heap>>

\* The join returns. An Unload that came in while DoPreview holds the stream borrowed
\* panics on its second borrow, and a panic ends the process.
Joined ==
    /\ call # "none" /\ (joining # Nil => win[joining].is = "none")
    /\ call' = "none" /\ joining' = Nil
    /\ stream' = IF call = "unload" /\ preview = "no" THEN Nil ELSE stream
    /\ pixels' = IF call = "site" THEN pixels ELSE Nil
    /\ life' = CASE call = "drop" -> "released"
                 [] call = "unload" /\ preview # "no" -> "aborted"
                 [] OTHER -> life
    /\ UNCHANGED <<previewed, parent, bg, hwnd, ui_thread, preview, rx, workers, win, heap>>

-----------------------------------------------------------------------------
(* DoPreview *)

\* ensure_window: there is a window already, there is no parent, or a thread is started
DoPreview ==
    /\ Idle /\ stream # Nil /\ ~previewed
    /\ previewed' = TRUE
    /\ IF hwnd # Nil THEN preview' = "source" /\ UNCHANGED win
       ELSE IF ~parent THEN preview' = "no" /\ UNCHANGED win
       ELSE \E w \in Windows :
               /\ win[w].is = "none"
               /\ win' = [win EXCEPT ![w] = [NoWindow EXCEPT !.is = "creating"]]
               /\ preview' = "creating"
    /\ UNCHANGED <<life, stream, parent, bg, hwnd, ui_thread, pixels, rx, call, joining, workers, heap>>


\* ensure_window hears from the new thread
WindowReady ==
    /\ preview = "creating" /\ rx # "empty"
    /\ rx' = "empty"
    /\ IF rx \in Windows THEN hwnd' = rx /\ ui_thread' = rx /\ preview' = "source"
                         ELSE preview' = "no" /\ UNCHANGED <<hwnd, ui_thread>>
    /\ UNCHANGED <<life, stream, previewed, parent, bg, pixels, call, joining, workers, win, heap>>

Delivers(picture) ==
    /\ Alive(hwnd) => Len(win[hwnd].queue) < MaxQueue
    /\ pixels' = picture
    /\ post_render(<<picture, bg>>)
    /\ preview' = "no"

\* stream_source has a frame or covers, or it failed
SourceDecides ==
    /\ preview = "source" /\ call = "none"
    /\ \E picture \in {stream, Nil} : Delivers(picture)
    /\ UNCHANGED <<life, stream, previewed, parent, bg, hwnd, ui_thread, rx, call, joining, workers,
                   bitmaps>>

\* stream_source has bytes: a worker decodes them
SourceBytes ==
    /\ preview = "source" /\ call = "none" /\ workers < MaxWorkers
    /\ preview' = "decoding" /\ workers' = workers + 1
    /\ UNCHANGED <<handler, rx, call, joining, win, heap>>

\* decode_preview_budgeted: the worker answers in time
Decoded ==
    /\ preview = "decoding"
    /\ workers' = workers - 1
    /\ \E picture \in {stream, Nil} : Delivers(picture)
    /\ UNCHANGED <<life, stream, previewed, parent, bg, hwnd, ui_thread, rx, call, joining, bitmaps>>

\* ... or it does not, and goes on by itself
BudgetExpires ==
    /\ preview = "decoding"
    /\ Delivers(Nil)
    /\ UNCHANGED <<life, stream, previewed, parent, bg, hwnd, ui_thread, rx, call, joining, workers,
                   bitmaps>>

\* a worker nobody waits for: its send fails
LateAnswer ==
    /\ workers > (IF preview = "decoding" THEN 1 ELSE 0)
    /\ workers' = workers - 1
    /\ UNCHANGED <<handler, preview, rx, call, joining, win, heap>>

-----------------------------------------------------------------------------
(* The UI thread of a window *)

Creates(w) ==
    /\ win[w].is = "creating" /\ rx = "empty"
    /\ win' = [win EXCEPT ![w].is = "alive", ![w].dirty = TRUE]
    /\ rx' = w
    /\ UNCHANGED <<handler, preview, call, joining, workers, heap>>

\* CreateWindowExW failed: the thread sends 0 and ends
CreateFails(w) ==
    /\ win[w].is = "creating" /\ rx = "empty"
    /\ win' = [win EXCEPT ![w] = NoWindow]
    /\ rx' = "zero"
    /\ UNCHANGED <<handler, preview, call, joining, workers, heap>>

\* mutant: the window is not invalidated
RenderUninvalidated(w) ==
    /\ Alive(w) /\ win[w].queue # <<>> /\ Head(win[w].queue) # "close"
    /\ LET m == Head(win[w].queue)
           rd == IF m[1] \in Unpaintable THEN Nil ELSE m
       IN /\ win' = [win EXCEPT ![w].queue = Tail(@), ![w].rd = rd]
          /\ bitmaps' = bitmaps + (IF rd # Nil THEN 1 ELSE 0) - (IF win[w].rd # Nil THEN 1 ELSE 0)
    /\ boxes' = boxes - 1
    /\ UNCHANGED <<handler, frames>>

\* WM_PREVIEW_RENDER: the old RenderData goes, the new one, if it can be made, comes
Render(w) ==
    /\ Alive(w) /\ win[w].queue # <<>> /\ Head(win[w].queue) # "close"
    /\ LET m == Head(win[w].queue)
           rd == IF m[1] \in Unpaintable THEN Nil ELSE m
       IN /\ win' = [win EXCEPT ![w].queue = Tail(@), ![w].rd = rd, ![w].dirty = TRUE]
          /\ bitmaps' = bitmaps + (IF rd # Nil THEN 1 ELSE 0) - (IF win[w].rd # Nil THEN 1 ELSE 0)
    /\ boxes' = boxes - 1
    /\ UNCHANGED <<handler, frames>>

\* WM_PAINT comes when nothing is queued
Paint(w) ==
    /\ Alive(w) /\ win[w].dirty /\ win[w].queue = <<>>
    /\ win' = [win EXCEPT ![w].dirty = FALSE, ![w].screen = win[w].rd]
    /\ UNCHANGED <<handler, frames, heap>>

\* WM_NCDESTROY: the RenderData goes
Destroyed(w) ==
    /\ win' = [win EXCEPT ![w] = [NoWindow EXCEPT !.is = "quitting"]]
    /\ bitmaps' = bitmaps - (IF win[w].rd # Nil THEN 1 ELSE 0)

\* WM_PREVIEW_CLOSE
Close(w) ==
    /\ Alive(w) /\ win[w].queue # <<>> /\ Head(win[w].queue) = "close"
    /\ Destroyed(w)
    /\ UNCHANGED <<handler, frames, boxes>>

\* WM_QUIT ends the loop, the thread and its ModuleRef
ThreadEnds(w) ==
    /\ win[w].is = "quitting"
    /\ win' = [win EXCEPT ![w] = NoWindow]
    /\ UNCHANGED <<handler, frames, heap>>

Queued(w) == Cardinality({i \in DOMAIN win[w].queue : win[w].queue[i] # "close"})

\* The host destroys the pane, and with it the child. The system discards what is still
\* queued for the child; those payloads are lost and no longer counted.
HostDestroysPane(w) ==
    /\ Alive(w)
    /\ Destroyed(w)
    /\ boxes' = boxes - Queued(w)
    /\ UNCHANGED <<handler, frames>>

-----------------------------------------------------------------------------
HostCalls ==
    \/ \E f \in PaneFiles : InitializeWithStream(f)
    \/ SetWindow
    \/ \E c \in Shades : SetBackgroundColor(c)
    \/ Detach \/ PaneUnload \/ Release \/ DoPreview

SourceEnds == SourceDecides \/ SourceBytes
ComStep == Joined \/ WindowReady \/ Decoded \/ BudgetExpires
UiStep(w) == Creates(w) \/ CreateFails(w) \/ Render(w) \/ Paint(w) \/ Close(w) \/ ThreadEnds(w)

PaneNext ==
    /\ life # "aborted"
    /\ \/ HostCalls \/ ComStep \/ SourceEnds \/ LateAnswer
       \/ \E w \in Windows : UiStep(w) \/ HostDestroysPane(w)

PaneSpec == PaneInit /\ [][PaneNext]_paneVars

\* A thread that can run does and the budget of a decode expires. A read of the stream ends,
\* whatever calls the host makes meanwhile (SF: each of them suspends it).
PaneFairness ==
    /\ WF_paneVars(life # "aborted" /\ ComStep)
    /\ SF_paneVars(life # "aborted" /\ SourceEnds)
    /\ \A w \in Windows : WF_paneVars(life # "aborted" /\ UiStep(w))

-----------------------------------------------------------------------------
(* Properties *)

\* The fields, the windows and the frames of the COM thread are well formed.
PaneTypeOK ==
    /\ life \in {"held", "released", "aborted"}
    /\ stream \in PaneFiles \union {Nil} /\ previewed \in BOOLEAN /\ parent \in BOOLEAN
    /\ bg \in Shades /\ hwnd \in Windows \union {Nil} /\ ui_thread \in Windows \union {Nil}
    /\ pixels \in PaneFiles \union {Nil}
    /\ preview \in {"no", "creating", "source", "decoding"}
    /\ rx \in Windows \union {"empty", "zero"}
    /\ call \in {"none", "site", "unload", "drop"} /\ joining \in Windows \union {Nil}
    /\ workers \in 0..MaxWorkers
    /\ \A w \in Windows :
        /\ win[w].is \in {"none", "creating", "alive", "quitting"}
        /\ win[w].queue \in Seq(Messages)
        /\ win[w].rd \in Pictures \union {Nil} /\ win[w].screen \in Pictures \union {Nil}
        /\ win[w].dirty \in BOOLEAN
    /\ boxes \in Nat /\ bitmaps \in Nat

Composite(picture) == IF picture \in PaneFiles \ Unpaintable THEN <<picture, bg>> ELSE Nil

\* When the handler is at rest and its window has nothing left to do, the pane shows the
\* last decoded picture over the last background, or nothing when there is none.
PaneIsCurrent ==
    Idle /\ Alive(hwnd) /\ win[hwnd].queue = <<>> /\ ~win[hwnd].dirty
        => win[hwnd].screen = Composite(pixels)

\* A pane never shows a file other than the one the host has initialised with: Unload
\* takes the window down, on its own thread, before the next file comes (destroy_window).
NeverAnotherFile ==
    \A w \in Windows : Alive(w) /\ win[w].screen # Nil => win[w].screen[1] = stream

\* Nothing outlives its owner.  The windows and threads of a handler end with it: "the window
\* is gone (and its ModuleRef dropped) before this object dies" (Drop).  Each payload is in
\* the queue of a living window, whose thread will free it, and each bitmap belongs to one:
\* posts to a dead window, failed bitmaps and closes leak nothing.
NothingLeaks ==
    /\ life = "released" => \A w \in Windows : win[w].is = "none"
    /\ boxes = Cardinality({p \in Windows \X (1..(MaxQueue + 1)) :
                               p[2] \in DOMAIN win[p[1]].queue /\ win[p[1]].queue[p[2]] # "close"})
    /\ bitmaps = Cardinality({w \in Windows : win[w].rd # Nil})

\* Every call of the host returns, however slow the decode and whatever the host does to
\* the pane meanwhile: "a slow/exotic decode can never freeze prevhost's message pump".
CallReturns ==
    (call # "none" \/ preview # "no") ~> (call = "none" /\ preview = "no") \/ life = "aborted"
=============================================================================
