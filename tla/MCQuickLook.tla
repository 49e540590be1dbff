----------------------------- MODULE MCQuickLook -----------------------------
(* Quick Look and the daemon behind it, in one instance for TLC: the window   *)
(* of one viewer process, the processes that Space starts, the daemon with    *)
(* its hotkeys, and the screen capture that a hotkey opens.  The first two    *)
(* meet in WindowLife, which the window implements and the processes use;     *)
(* they share no variable, so a behaviour runs one part, chosen at the start, *)
(* and the others stay at one state.                                          *)
EXTENDS Viewer, QuickLook, HotkeyDaemon, CaptureEditor

VARIABLE part

CONSTANTS htmlFile, pdfFile, gifFile, songFile, noteFile
MCClass == [f \in Files |->
    CASE f = htmlFile -> "web" [] f = pdfFile -> "pdf" [] f = gifFile -> "animation" [] f = songFile -> "song" [] f = noteFile -> "note"]

DesktopInit ==
    /\ part \in {"window", "processes", "daemon", "capture"}
    /\ WindowInit /\ QuickInit /\ HotInit /\ CaptureInit
    /\ part # "window" => selected = pdfFile
    /\ part # "daemon" => autostart = "none"
    /\ part # "capture" => ocr_mode = FALSE

WindowRuns == part = "window" /\ WindowNext /\ UNCHANGED <<part, quickVars, hotVars, captureVars>>
ProcessesRun == part = "processes" /\ QuickNext /\ UNCHANGED <<part, windowVars, hotVars, captureVars>>
DaemonRuns == part = "daemon" /\ HotNext /\ UNCHANGED <<part, windowVars, quickVars, captureVars>>

CaptureRuns == part = "capture" /\ CaptureNext /\ UNCHANGED <<part, windowVars, quickVars, hotVars>>

DesktopNext == WindowRuns \/ ProcessesRun \/ DaemonRuns \/ CaptureRuns
desktopVars == <<part, windowVars, quickVars, hotVars, captureVars>>

\* What the threads of a part do is disabled in the state in which the part rests, so each
\* part's fairness speaks of its own behaviours only.
DesktopSpec ==
    DesktopInit /\ [][DesktopNext]_desktopVars /\ WindowFairness /\ QuickFairness /\ HotFairness
=============================================================================
