---------------------------- MODULE HotkeyDaemon ----------------------------
(* The resident tray daemon (screenshot/daemon.rs) and what starts, stops    *)
(* and nudges it (screenshot/enable.rs): its hotkeys, the Space hook and its *)
(* tray icon, which the system drops without a word; Explorer, whose taskbar *)
(* comes and goes; and the settings, which other processes write.            *)
EXTENDS Naturals, Sequences, FiniteSets

CONSTANTS
    Daemons,        \* identities of daemon processes
    MaxQueue        \* bound: messages in the daemon's queue

ASSUME DaemonAssumption == MaxQueue \in Nat \ {0}

VARIABLES
    setting,        \* ScreenshotEnabled, the custom chord, Quick preview, the hidden icon
    autostart,      \* the Run entry: "none", "this" program, or an "other" install
    at,             \* where each daemon process is
    queue,          \* messages for the daemon's window
    armed,          \* what is registered: "shot", "custom", "hook"
    icon, retry,    \* the tray icon is there; TRAY_RETRY_TIMER_ID is set
    taskbar,        \* Explorer's taskbar is there
    saving          \* the Settings dialog has written, and is yet to reconcile

shell == <<icon, retry, taskbar>>
user == <<setting, saving>>
hotVars == <<setting, autostart, at, queue, armed, shell, saving>>

Bindings == {"shot", "custom", "hook"}

HotTypeOK ==
    /\ setting \in [shots : {"unset", "off", "on"}, chord : BOOLEAN, space : BOOLEAN, hide : BOOLEAN]
    /\ autostart \in {"none", "this", "other"}
    /\ at \in [Daemons -> {"off", "starts", "locked", "window", "runs", "ends"}]
    /\ queue \in Seq({"reload", "close", "taskbar"}) /\ Len(queue) <= MaxQueue
    /\ armed \subseteq Bindings
    /\ {icon, retry, taskbar, saving} \subseteq BOOLEAN

(* A fresh user, or one of a version that had the Run entry for a setting.   *)
HotInit ==
    /\ autostart \in {"none", "this", "other"}
    /\ setting = [shots |-> "unset", chord |-> FALSE, space |-> FALSE, hide |-> FALSE]
    /\ at = [d \in Daemons |-> "off"] /\ queue = <<>> /\ armed = {}
    /\ icon = FALSE /\ retry = FALSE /\ taskbar = TRUE
    /\ saving = FALSE

-----------------------------------------------------------------------------
(* enable.rs                                                                 *)

is_enabled == IF setting.shots = "unset" THEN autostart # "none" ELSE setting.shots = "on"

daemon_wanted == is_enabled \/ setting.chord \/ setting.space

HasWindow(d) == at[d] \in {"window", "runs"}
is_daemon_running == \E d \in Daemons : HasWindow(d)

(* PostMessage; without a window there is nobody to post to.                 *)
Post(m) ==
    IF is_daemon_running THEN Len(queue) < MaxQueue /\ queue' = Append(queue, m) ELSE queue' = queue

Spawn == at' = at \/ \E d \in Daemons : at[d] = "off" /\ at' = [at EXCEPT ![d] = "starts"]

(* reconcile.  The Run entry of another install that is alive is left alone; *)
(* starting the daemon may fail.                                             *)
reconcile ==
    IF daemon_wanted
    THEN /\ autostart' = IF autostart = "other" THEN "other" ELSE "this"
         /\ IF is_daemon_running THEN Post("reload") /\ at' = at ELSE queue' = queue /\ Spawn
    ELSE autostart' = "none" /\ Post("close") /\ at' = at

(* The Settings dialog's Save, and the Restart button: the values are        *)
(* written one after the other, ScreenshotEnabled last, and then reconciled. *)
SaveWrites ==
    /\ ~saving /\ saving' = TRUE
    /\ setting' \in [shots : {"off", "on"}, chord : BOOLEAN, space : BOOLEAN, hide : BOOLEAN]
    /\ UNCHANGED <<autostart, at, queue, armed, shell>>
SaveReconciles == saving /\ saving' = FALSE /\ reconcile /\ UNCHANGED <<setting, armed, shell>>

(* heal_if_wanted, when the application is opened.                           *)
Heal == daemon_wanted /\ ~is_daemon_running /\ reconcile /\ UNCHANGED <<user, armed, shell>>

(* A pull of the settings sync writes the values of the allowlist: the       *)
(* custom chord and the hidden icon are on it, ScreenshotEnabled is not.     *)
SyncPull ==
    /\ \E c, h \in BOOLEAN : setting' = [setting EXCEPT !.chord = c, !.hide = h]
    /\ UNCHANGED <<autostart, at, queue, armed, shell, saving>>

-----------------------------------------------------------------------------
(* daemon.rs: starting                                                       *)

Moves(d, a) == at' = [at EXCEPT ![d] = a]

\* The mutex is held from the start of a daemon to its end.
Locked(d) == \E e \in Daemons \ {d} : at[e] \in {"locked", "window", "runs", "ends"}

LocksMutex(d) ==
    /\ at[d] = "starts"
    /\ Moves(d, IF Locked(d) THEN "off" ELSE "locked")
    /\ UNCHANGED <<user, autostart, queue, armed, shell>>

CreatesWindow(d) ==
    /\ at[d] = "locked" /\ Moves(d, "window")
    /\ UNCHANGED <<user, autostart, queue, armed, shell>>

\* mutant: the hotkeys are those of the screenshot feature
rearm_hotkeys_feature_only ==
    armed' = IF is_enabled THEN {"shot"} \cup (IF setting.chord THEN {"custom"} ELSE {})
                                         \cup (IF setting.space THEN {"hook"} ELSE {})
             ELSE IF setting.space THEN {"hook"} ELSE {}
(* rearm_hotkeys: everything is dropped and registered anew, as the settings *)
(* now are.  The chord may be another program's: not modelled.               *)
rearm_hotkeys ==
    armed' = {b \in Bindings : \/ b = "shot" /\ is_enabled
                               \/ b = "custom" /\ setting.chord
                               \/ b = "hook" /\ setting.space}

\* mutant: one attempt, with no timer behind it
ensure_tray_icon_once == icon' \in {FALSE, taskbar} /\ retry' = FALSE
(* ensure_tray_icon: without a taskbar, or when Explorer is too busy, the    *)
(* icon is refused, and a timer tries again.                                 *)
ensure_tray_icon == icon' \in {FALSE, taskbar} /\ retry' = ~icon'
remove_tray_icon == icon' = FALSE /\ retry' = FALSE
TrayFollows == (IF setting.hide THEN remove_tray_icon ELSE ensure_tray_icon) /\ taskbar' = taskbar

StartsUp(d) ==
    /\ at[d] = "window" /\ Moves(d, "runs")
    /\ rearm_hotkeys
    /\ IF setting.hide THEN UNCHANGED shell ELSE ensure_tray_icon /\ taskbar' = taskbar
    /\ UNCHANGED <<user, autostart, queue>>

-----------------------------------------------------------------------------
(* daemon.rs: running (daemon_wndproc)                                       *)

Up == \E d \in Daemons : at[d] = "runs"

OnReload == Head(queue) = "reload" /\ rearm_hotkeys /\ TrayFollows /\ at' = at /\ queue' = Tail(queue)

\* Explorer's broadcast that a taskbar has been made.
OnTaskbarCreated ==
    /\ Head(queue) = "taskbar"
    /\ IF setting.hide THEN UNCHANGED shell ELSE ensure_tray_icon /\ taskbar' = taskbar
    /\ queue' = Tail(queue) /\ UNCHANGED <<armed, at>>

(* WM_CLOSE destroys the window, and what waits for it is lost.              *)
OnClose ==
    /\ Head(queue) = "close"
    /\ armed' = {} /\ remove_tray_icon /\ taskbar' = taskbar /\ queue' = <<>>
    /\ \E d \in Daemons : at[d] = "runs" /\ Moves(d, "ends")

Handles == Up /\ queue # <<>> /\ (OnReload \/ OnTaskbarCreated \/ OnClose) /\ UNCHANGED <<user, autostart>>

(* REARM_TIMER_ID, once a minute; the same after sleep, a session change and *)
(* a change of the displays.                                                 *)
Rearms == Up /\ rearm_hotkeys /\ UNCHANGED <<user, autostart, at, queue, shell>>

\* TRAY_RETRY_TIMER_ID.
Retries == Up /\ retry /\ TrayFollows /\ UNCHANGED <<user, autostart, at, queue, armed>>

(* The tray menu: Hide tray icon, and Quit.                                  *)
HideIcon == Up /\ icon /\ setting' = [setting EXCEPT !.hide = TRUE] /\ remove_tray_icon
            /\ UNCHANGED <<autostart, at, queue, armed, taskbar, saving>>
quit == /\ Up /\ icon
        /\ setting' = [setting EXCEPT !.shots = "off"] /\ autostart' = "none" /\ Post("close")
        /\ UNCHANGED <<at, armed, shell, saving>>

Exits(d) == at[d] = "ends" /\ Moves(d, "off") /\ UNCHANGED <<user, autostart, queue, armed, shell>>

-----------------------------------------------------------------------------
(* The system                                                                *)

(* Sleep, a lock, a slow hook: a registration is gone.                       *)
Drops == \E b \in armed : armed' = armed \ {b} /\ UNCHANGED <<user, autostart, at, queue, shell>>

ExplorerEnds == taskbar /\ taskbar' = FALSE /\ icon' = FALSE
                /\ UNCHANGED <<user, autostart, at, queue, armed, retry>>
ExplorerStarts == ~taskbar /\ taskbar' = TRUE /\ Post("taskbar")
                  /\ UNCHANGED <<user, autostart, at, armed, icon, retry>>

(* The installer kills the process before it replaces the program.           *)
Killed(d) ==
    /\ at[d] # "off" /\ Moves(d, "off")
    /\ IF HasWindow(d) THEN queue' = <<>> /\ armed' = {} /\ icon' = FALSE /\ retry' = FALSE
                       ELSE UNCHANGED <<queue, armed, icon, retry>>
    /\ UNCHANGED <<user, autostart, taskbar>>

HotNext ==
    \/ SaveWrites \/ SaveReconciles \/ Heal \/ SyncPull
    \/ Handles \/ Rearms \/ Retries \/ HideIcon \/ quit
    \/ Drops \/ ExplorerEnds \/ ExplorerStarts
    \/ \E d \in Daemons : LocksMutex(d) \/ CreatesWindow(d) \/ StartsUp(d) \/ Exits(d) \/ Killed(d)

(* The daemon's thread handles its messages and timers, and its process gets *)
(* to start and to end.  Explorer does not refuse the icon for ever.         *)
HotFairness ==
    /\ WF_hotVars(Handles) /\ WF_hotVars(Rearms)
    /\ WF_hotVars(Retries /\ icon')
    /\ \A d \in Daemons : WF_hotVars(LocksMutex(d) \/ CreatesWindow(d) \/ StartsUp(d) \/ Exits(d))

HotSpec == HotInit /\ [][HotNext]_hotVars

-----------------------------------------------------------------------------
Wanted == {b \in Bindings : \/ b = "shot" /\ is_enabled
                            \/ b = "custom" /\ setting.chord
                            \/ b = "hook" /\ setting.space}

(* One daemon has a window, however autostart, Save, heal and the end of an  *)
(* earlier daemon interleave; and nothing is registered without one.         *)
OneDaemon ==
    /\ \A d, e \in Daemons : HasWindow(d) /\ HasWindow(e) => d = e
    /\ armed # {} \/ icon => Up

(* Whatever the system drops and the user changes, a daemon that runs comes  *)
(* to hold just what the settings want: what was lost, at the next timer at  *)
(* the latest, and nothing that is wanted no more.                           *)
HotkeysComeBack ==
    Up ~> (~Up \/ armed = Wanted)

(* The tray icon comes (back) once the daemon has been told of a taskbar or  *)
(* has found none: after a start before Explorer, after a restart of         *)
(* Explorer, after a Save.                                                   *)
IconDue == /\ taskbar /\ ~setting.hide
           /\ (\E d \in Daemons : at[d] = "window") \/ (Up /\ (retry \/ queue # <<>>))
IconComesBack ==
    IconDue ~> (icon \/ setting.hide \/ ~taskbar \/ \A d \in Daemons : ~HasWindow(d))
=============================================================================
