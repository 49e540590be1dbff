----------------------------- MODULE WindowLife -----------------------------
(* What the Quick Look window promises the processes around it: whether it   *)
(* is there, when it may be closed, and that a window once closed, or asked  *)
(* to close while it makes a web view, takes its process with it.            *)
EXTENDS Naturals

VARIABLES
    win,        \* "none", "open", or "gone": destroyed, its process still running
    busy,       \* a web view is being made: the window's messages run inside load
    grace,      \* it has just been loaded; commands to close it are ignored
    closing     \* it was asked to close while busy

life == <<win, busy, grace, closing>>

LifeInit == win = "none" /\ busy = FALSE /\ grace = TRUE /\ closing = FALSE

Opens == win = "none" /\ win' = "open" /\ busy' \in BOOLEAN /\ grace' = TRUE /\ closing' = FALSE

\* request_load: another file, at once only when no web view is being made.
Reloads ==
    /\ win = "open" /\ ~busy
    /\ busy' \in BOOLEAN /\ grace' = TRUE
    /\ UNCHANGED <<win, closing>>

GraceEnds == win = "open" /\ grace /\ grace' = FALSE /\ UNCHANGED <<win, busy, closing>>

\* request_close.
Closes ==
    /\ win = "open"
    /\ IF busy THEN closing' = TRUE /\ win' = win ELSE win' = "gone" /\ closing' = closing
    /\ UNCHANGED <<busy, grace>>

\* on_command for CMD_TOGGLE without a path, and for CMD_CLOSE.
ClosesOnCommand == IF grace THEN win = "open" /\ UNCHANGED life ELSE Closes

\* The Open button and WM_CLOSE.
ClosesAtOnce == win = "open" /\ win' = "gone" /\ UNCHANGED <<busy, grace, closing>>

\* create_web after its message loop: the window is gone, or is to close, or
\* loads the file it was switched to, or shows what it has.
PumpEnds ==
    /\ busy
    /\ \/ win = "gone" /\ busy' = FALSE /\ UNCHANGED <<win, grace, closing>>
       \/ win = "open" /\ closing /\ win' = "gone" /\ busy' = FALSE /\ closing' = FALSE /\ grace' = grace
       \/ win = "open" /\ ~closing /\ busy' \in BOOLEAN /\ grace' \in BOOLEAN
          /\ (busy' => grace') /\ UNCHANGED <<win, closing>>

\* The message loop of run_preview ends, and the process with it.
ProcessEnds ==
    /\ win = "gone" /\ ~busy
    /\ win' = "none" /\ grace' = TRUE /\ closing' = FALSE /\ busy' = FALSE

LifeNext ==
    Opens \/ Reloads \/ GraceEnds \/ Closes \/ ClosesOnCommand \/ ClosesAtOnce \/ PumpEnds \/ ProcessEnds

LifeFairness == WF_life(PumpEnds) /\ WF_life(ProcessEnds)
LifeSpec == LifeInit /\ [][LifeNext]_life /\ LifeFairness
=============================================================================
