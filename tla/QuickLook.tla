----------------------------- MODULE QuickLook -----------------------------
(* Space in Explorer: the keyboard hook (screenshot/spacehook.rs), the        *)
(* messages it posts to the daemon, the daemon's answer to them, and the      *)
(* viewer processes (preview/mod.rs), one of which holds the window.          *)
EXTENDS WindowLife, Sequences, FiniteSets

CONSTANTS
    Procs,          \* identities of viewer processes
    MaxPosts        \* bound: messages of the hook in the daemon's queue

ASSUME QuickLookAssumption == MaxPosts \in Nat \ {0}

VARIABLES
    hook,           \* the low-level keyboard hook is installed
    down,           \* Space is held down
    latched, aged,  \* SPACE_LATCHED, and its tick lies HOLD_PEEK_MS back
    posts,          \* WM_APP_PREVIEW and WM_APP_PREVIEW_CLOSE in the queue
    daemon,         \* the command the daemon is sending, and to whose window
    fresh,          \* SPAWN_TICK is less than two seconds old
    procs,          \* where each viewer process is
    explicit,       \* the processes started with a path
    toggles         \* history: toggles posted in this press

keyVars == <<hook, down, latched, aged, toggles>>
daemonVars == <<daemon, fresh>>
procVars == <<procs, explicit>>
quickVars == <<life, keyVars, posts, daemonVars, procVars>>

Idle == [cmd |-> "none", to |-> "none"]

QuickTypeOK ==
    /\ win \in {"none", "open", "gone"} /\ {busy, grace, closing} \subseteq BOOLEAN
    /\ {hook, down, latched, aged, fresh} \subseteq BOOLEAN
    /\ posts \in Seq({"toggle", "close"}) /\ Len(posts) <= MaxPosts
    /\ daemon \in {Idle} \cup [cmd : {"toggle", "close"}, to : Procs]
    /\ procs \in [Procs -> {"off", "starts", "forwards", "resolves", "runs"}]
    /\ explicit \subseteq Procs
    /\ toggles \in Nat

QuickInit ==
    /\ LifeInit
    /\ hook = TRUE
    /\ down = FALSE /\ latched = FALSE /\ aged = FALSE /\ toggles = 0
    /\ posts = <<>> /\ daemon = Idle /\ fresh = FALSE
    /\ procs = [p \in Procs |-> "off"] /\ explicit = {}

-----------------------------------------------------------------------------
(* The hook                                                                  *)

Posts(m) == Len(posts) < MaxPosts /\ posts' = Append(posts, m)

(* handle_key for Space going down, and again for each repeat.  Whether the  *)
(* moment qualifies (qualifies) is the environment's.                        *)
SeesDown ==
    \/ /\ hook /\ ~latched
       /\ latched' = TRUE /\ aged' = FALSE
       /\ Posts("toggle") /\ toggles' = toggles + 1
    \/ UNCHANGED <<latched, aged, toggles, posts>>

KeyDown == ~down /\ down' = TRUE /\ SeesDown /\ UNCHANGED <<life, hook, daemonVars, procVars>>
KeyRepeat == down /\ SeesDown /\ UNCHANGED <<life, hook, down, daemonVars, procVars>>

(* The release goes by the latch, not by what is in front now.  With the     *)
(* hold-to-peek setting on, a long press closes.                             *)
KeyUp ==
    /\ down /\ down' = FALSE
    /\ latched' = (latched /\ ~hook) /\ aged' = (aged /\ ~hook) /\ toggles' = 0
    /\ \/ posts' = posts
       \/ hook /\ latched /\ aged /\ Posts("close")
    /\ UNCHANGED <<life, hook, daemonVars, procVars>>

(* Esc or Enter.                                                             *)
KeyCloses == hook /\ Posts("close") /\ UNCHANGED <<life, keyVars, daemonVars, procVars>>

LatchAges == latched /\ ~aged /\ aged' = TRUE
             /\ UNCHANGED <<life, hook, down, latched, toggles, posts, daemonVars, procVars>>

(* Windows removes a hook that was slow.                                     *)
HookDropped == hook /\ hook' = FALSE
               /\ UNCHANGED <<life, down, latched, aged, toggles, posts, daemonVars, procVars>>

(* rearm: every minute, on WM_RELOAD and after sleep, as the setting is.     *)
\* mutant: a fresh hook starts from a fresh latch
RearmUnlatched == hook' \in BOOLEAN /\ latched' = FALSE
                  /\ UNCHANGED <<life, down, aged, toggles, posts, daemonVars, procVars>>
Rearm == hook' \in BOOLEAN
         /\ UNCHANGED <<life, down, latched, aged, toggles, posts, daemonVars, procVars>>

-----------------------------------------------------------------------------
(* The daemon                                                                *)

\* A viewer process that has not started yet.
Start(p, e) ==
    /\ procs[p] = "off" /\ p # daemon.to
    /\ procs' = [procs EXCEPT ![p] = "starts"]
    /\ explicit' = IF e THEN explicit \cup {p} ELSE explicit \ {p}

Owner(p) == procs[p] = "runs" /\ win = "open"

(* request_toggle: to the window that is there, or a new process unless one  *)
(* was started just now.  Starting it can fail.                              *)
request_toggle ==
    \/ \E p \in Procs : /\ Owner(p)
                        /\ fresh' = FALSE /\ daemon' = [cmd |-> "toggle", to |-> p]
                        /\ UNCHANGED procVars
    \/ /\ win # "open" /\ fresh
       /\ UNCHANGED <<daemonVars, procVars>>
    \/ /\ win # "open" /\ ~fresh
       /\ fresh' = TRUE /\ daemon' = daemon
       /\ UNCHANGED procVars \/ \E p \in Procs : Start(p, FALSE)

request_close ==
    /\ IF win = "open" THEN \E p \in Procs : Owner(p) /\ daemon' = [cmd |-> "close", to |-> p]
                       ELSE daemon' = daemon
    /\ UNCHANGED <<fresh, procVars>>

DaemonTakes ==
    /\ daemon = Idle /\ posts # <<>>
    /\ posts' = Tail(posts)
    /\ \/ Head(posts) = "toggle" /\ request_toggle
       \/ Head(posts) = "close" /\ request_close
    /\ UNCHANGED <<life, keyVars>>

(* send_command returns when the window has handled the command, or is no    *)
(* more.                                                                     *)
DaemonReturns ==
    /\ daemon # Idle /\ daemon' = Idle
    /\ IF Owner(daemon.to) THEN ClosesOnCommand ELSE UNCHANGED life
    /\ UNCHANGED <<keyVars, posts, fresh, procVars>>

TickAges == fresh /\ fresh' = FALSE /\ UNCHANGED <<life, keyVars, posts, daemon, procVars>>

-----------------------------------------------------------------------------
(* The viewer processes                                                      *)

StartedByHand(p) == Start(p, TRUE) /\ UNCHANGED <<life, keyVars, posts, daemonVars>>

\* The path matters to a process that has still to give it away.
Goes(p, to) ==
    /\ procs' = [procs EXCEPT ![p] = to]
    /\ explicit' = IF to = "forwards" THEN explicit ELSE explicit \ {p}

\* mutant: the mutex is taken once the file is known
MutexExistsLate(p) == \E q \in Procs \ {p} : procs[q] \in {"forwards", "runs"}
\* The mutex exists while a process has a handle of it, its owner or not.
MutexExists(p) == \E q \in Procs \ {p} : procs[q] \in {"forwards", "resolves", "runs"}

(* run_preview, first part.                                                  *)
TakesMutex(p) ==
    /\ procs[p] = "starts"
    /\ Goes(p, IF MutexExists(p) THEN "forwards" ELSE "resolves")
    /\ UNCHANGED <<life, keyVars, posts, daemonVars>>

(* The second process gives its path to the window, or gives up when there   *)
(* is none for a second.                                                     *)
Forwards(p) ==
    /\ procs[p] = "forwards" /\ win = "open"
    /\ Goes(p, "off")
    /\ IF p \in explicit /\ ~busy THEN Reloads ELSE UNCHANGED life
    /\ UNCHANGED <<keyVars, posts, daemonVars>>
\* mutant: it waits for a window for ever
GivesUpNever(p) == procs[p] = "forwards" /\ FALSE /\ UNCHANGED quickVars
GivesUp(p) ==
    /\ procs[p] = "forwards" /\ win # "open"
    /\ Goes(p, "off")
    /\ UNCHANGED <<life, keyVars, posts, daemonVars>>

(* The first resolves what to show, within three seconds, and opens; without *)
(* a path and a selection there is nothing to show.                          *)
Opened(p) ==
    /\ procs[p] = "resolves"
    /\ Goes(p, "runs") /\ Opens
    /\ UNCHANGED <<keyVars, posts, daemonVars>>
NothingToShow(p) ==
    /\ procs[p] = "resolves"
    /\ Goes(p, "off")
    /\ UNCHANGED <<life, keyVars, posts, daemonVars>>

(* The window's own steps, and its process.                                  *)
WindowSteps ==
    /\ Reloads \/ GraceEnds \/ Closes \/ ClosesAtOnce
    /\ UNCHANGED <<keyVars, posts, daemonVars, procVars>>
PumpReturns == PumpEnds /\ UNCHANGED <<keyVars, posts, daemonVars, procVars>>
Ends(p) ==
    /\ procs[p] = "runs" /\ ProcessEnds
    /\ Goes(p, "off")
    /\ UNCHANGED <<keyVars, posts, daemonVars>>

(* A panic aborts the process, or it is killed.                              *)
Dies(p) ==
    /\ procs[p] # "off" /\ Goes(p, "off")
    /\ IF procs[p] = "runs" THEN win' = "none" /\ busy' = FALSE /\ grace' = TRUE /\ closing' = FALSE
                            ELSE UNCHANGED life
    /\ UNCHANGED <<keyVars, posts, daemonVars>>

-----------------------------------------------------------------------------
Settles(p) == TakesMutex(p) \/ Forwards(p) \/ GivesUp(p) \/ Opened(p) \/ NothingToShow(p) \/ Ends(p)

QuickNext ==
    \/ KeyDown \/ KeyRepeat \/ KeyUp \/ KeyCloses \/ LatchAges \/ HookDropped \/ Rearm
    \/ DaemonTakes \/ DaemonReturns \/ TickAges
    \/ WindowSteps \/ PumpReturns
    \/ \E p \in Procs : StartedByHand(p) \/ Settles(p) \/ Dies(p)

(* The daemon and the processes run; keys, settings and deaths are the       *)
(* environment's.                                                            *)
QuickFairness ==
    /\ WF_quickVars(DaemonTakes) /\ WF_quickVars(DaemonReturns)
    /\ WF_quickVars(PumpReturns)
    /\ \A p \in Procs : WF_quickVars(Settles(p))

QuickSpec == QuickInit /\ [][QuickNext]_quickVars

-----------------------------------------------------------------------------
(* One process at a time looks for a file to show, or shows it, however      *)
(* Space, the command line and deaths interleave; and a window is its.       *)
OneViewer ==
    /\ \A p, q \in Procs : {procs[p], procs[q]} \subseteq {"resolves", "runs"} => p = q
    /\ win # "none" <=> \E p \in Procs : procs[p] = "runs"

(* A key press asks for one toggle at most, with every repeat of the key,    *)
(* and whenever the hook is dropped and installed again meanwhile: a press   *)
(* never opens the window and closes it.                                     *)
OnePressOneToggle == toggles <= 1

(* No process lingers: whoever started comes to end, or a window is open.    *)
(* A process that stayed would keep the mutex, and Space would be dead.      *)
NoneLingers == \A p \in Procs : procs[p] # "off" ~> (procs[p] = "off" \/ win = "open")
=============================================================================
