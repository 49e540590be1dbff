---------------------------- MODULE SettingsSync ----------------------------
(***************************************************************************)
(* Settings sync: the Settings dialog, its registry values, the detached   *)
(* sync threads it starts (push, pull, connect, disconnect, the flush at   *)
(* close), the durable ConnectionsSyncPending marker, and the user's cloud *)
(* document, which other devices of the same account also write.           *)
(*                                                                         *)
(* Every sync operation holds SYNC_LOCK from start to return; what is not  *)
(* under the lock is the dialog thread (Save, close) and the bookkeeping   *)
(* of finish_push_worker.  A request may be lost before the server sees    *)
(* it, or its reply may be lost after the server applied it.  The process  *)
(* may end between any two steps; the registry and the cloud survive.      *)
(***************************************************************************)
EXTENDS Naturals, FiniteSets

CONSTANTS
  Keys,        \* the allowlisted settings that have a control in the dialog
  Vals,        \* the values a setting takes
  Default,     \* what a control shows for a setting that is not stored
  Accounts,    \* Connections accounts the user may sign in to
  Workers,     \* identities of sync threads
  MaxConflicts, \* the 3 of push_snapshot: the conflict that gives up
  MaxTransient, \* the 2 of push_snapshot: transient failures it bears
  MaxVersion,  \* bound: accepted writes per account document
  Patient,     \* TRUE: the user saves only while no sync thread is alive
  Absent,      \* a setting that is not stored
  None         \* no account, no thread, no cached document

ASSUME SyncAssumption ==
  /\ Default \in Vals /\ Absent \notin Vals
  /\ None \notin Accounts /\ None \notin Workers
  /\ MaxConflicts \in Nat \ {0} /\ MaxTransient \in Nat
  /\ MaxVersion \in Nat /\ Patient \in BOOLEAN

Docs == [Keys -> Vals \cup {Absent}]
Empty == [k \in Keys |-> Absent]

VARIABLES
  local,         \* the settings stored in HKCU
  pending,       \* the ConnectionsSyncPending marker in HKCU
  account,       \* whose refresh token is stored, or None
  cloud,         \* per account: the document and its version (0: never written)
  ui,            \* where the dialog thread is
  controls,      \* the values the dialog's controls show
  button,        \* is the sync button enabled?
  PUSH_WORKERS,  \* push and flush threads not yet finished
  SYNC_LOCK,     \* the thread inside a sync operation, or None
  STORE_CACHE,   \* the cached document with its version, or None
  th,            \* per thread: its operation and where it is
  unsent,        \* history: no accepted write holds the Save being made
  owed           \* history: no accepted write holds the last marked Save

registryVars == <<local, pending, account>>
dialogVars == <<ui, controls, button>>
staticVars == <<PUSH_WORKERS, SYNC_LOCK, STORE_CACHE>>
vars == <<local, pending, account, cloud, ui, controls, button, PUSH_WORKERS,
          SYNC_LOCK, STORE_CACHE, th, unsent, owed>>
historyVars == <<unsent, owed>>

\* A thread: its token, the snapshot it pushes, whether that snapshot holds
\* the last marked Save (fresh) and the Save being made (newest), the base
\* version it writes against, its retry counters, the document it fetched,
\* and how its push ended.
IdleThread ==
  [op |-> "none", pc |-> "idle", token |-> None, snap |-> Empty,
   fresh |-> FALSE, newest |-> FALSE, base |-> 0, conflicts |-> 0, transient |-> 0,
   throttled |-> FALSE, seeding |-> FALSE, got |-> Empty, ok |-> FALSE]

AllIdle == \A w \in Workers : th[w].pc = "idle"
IsPush(w) == th[w].op \in {"push", "flush"}

Init ==
  /\ local = Empty /\ pending = FALSE /\ account = None
  /\ cloud = [a \in Accounts |-> [version |-> 0, doc |-> Empty]]
  /\ ui = "closed"
  /\ controls = [k \in Keys |-> Default]
  /\ button = TRUE
  /\ PUSH_WORKERS = 0 /\ SYNC_LOCK = None /\ STORE_CACHE = None
  /\ th = [w \in Workers |-> IdleThread]
  /\ unsent = FALSE /\ owed = FALSE

-----------------------------------------------------------------------------
(* The dialog thread. *)

Spawned(w, o) == [th EXCEPT ![w] = [IdleThread EXCEPT !.op = o, !.pc = "lock"]]

\* WM_INITDIALOG and spawn_sync_pull
OpenSettings ==
  /\ ui = "closed"
  /\ ui' = "open" /\ button' = TRUE
  /\ controls' = [k \in Keys |-> IF local[k] = Absent THEN Default ELSE local[k]]
  /\ IF account = None THEN th' = th
     ELSE \E w \in Workers : th[w].pc = "idle" /\ th' = Spawned(w, "pull")
  /\ UNCHANGED <<registryVars, cloud, staticVars, historyVars>>

EditControl(k, v) ==
  /\ ui = "open" /\ controls[k] # v
  /\ controls' = [controls EXCEPT ![k] = v]
  /\ UNCHANGED <<registryVars, cloud, ui, button, staticVars, th, historyVars>>

\* IDOK: every control's value is stored, changed or not
apply_settings ==
  /\ ui = "open" /\ (Patient => AllIdle)
  /\ ui' = "applied"
  /\ local' = controls
  /\ unsent' = TRUE
  /\ th' = [w \in Workers |-> [th[w] EXCEPT !.newest = FALSE]]
  /\ UNCHANGED <<pending, account, cloud, controls, button, staticVars, owed>>

\* spawn_sync_push, its first test
CheckSignedIn ==
  /\ ui = "applied"
  /\ ui' = IF account = None THEN "open" ELSE "checked"
  /\ unsent' = (unsent /\ account # None)
  /\ UNCHANGED <<registryVars, cloud, controls, button, staticVars, th, owed>>

\* from here on the saved values are owed to the cloud
Owe ==
  /\ owed' = (account # None /\ (owed \/ unsent)) /\ unsent' = FALSE
  /\ th' = [w \in Workers |-> [th[w] EXCEPT !.fresh = @ /\ th[w].newest]]

mark_push_pending ==
  /\ ui = "checked"
  /\ ui' = "marked" /\ pending' = TRUE /\ Owe
  /\ UNCHANGED <<local, account, cloud, controls, button, staticVars>>

\* begin_push_worker, then the thread
SpawnPush(w) ==
  /\ ui = "marked" /\ th[w].pc = "idle"
  /\ ui' = "open"
  /\ PUSH_WORKERS' = PUSH_WORKERS + 1
  /\ th' = Spawned(w, "push")
  /\ UNCHANGED <<registryVars, cloud, controls, button, SYNC_LOCK, STORE_CACHE,
                 historyVars>>

\* the button signs in, or disconnects
on_sync_click(w) ==
  /\ ui = "open" /\ button /\ th[w].pc = "idle"
  /\ button' = FALSE
  /\ th' = Spawned(w, IF account = None THEN "connect" ELSE "disconnect")
  /\ UNCHANGED <<registryVars, cloud, ui, controls, staticVars, historyVars>>

\* IDCANCEL: the dialog thread is in flush_pending until the process ends
CloseSettings ==
  /\ ui = "open"
  /\ ui' = "flushing"
  /\ UNCHANGED <<registryVars, cloud, controls, button, staticVars, th,
                 historyVars>>

\* the pushes have finished, the marker is still set: one more attempt
flush_pending(w) ==
  /\ ui = "flushing" /\ PUSH_WORKERS = 0 /\ pending /\ account # None
  /\ th[w].pc = "idle"
  /\ ui' = "draining"
  /\ PUSH_WORKERS' = PUSH_WORKERS + 1
  /\ th' = Spawned(w, "flush")
  /\ UNCHANGED <<registryVars, cloud, controls, button, SYNC_LOCK, STORE_CACHE,
                 historyVars>>

\* flush_pending returned or ran out of its six seconds and the window is
\* destroyed; or the process was killed.  Threads and statics are gone.
ProcessEnds ==
  /\ ui # "closed"
  /\ ui' = "closed"
  /\ PUSH_WORKERS' = 0 /\ SYNC_LOCK' = None /\ STORE_CACHE' = None
  /\ th' = [w \in Workers |-> IdleThread]
  /\ unsent' = FALSE
  /\ UNCHANGED <<registryVars, cloud, controls, button, owed>>

-----------------------------------------------------------------------------
(* A sync thread. *)

At(w, o, p) == th[w].op \in o /\ th[w].pc = p
Goto(w, p) == th' = [th EXCEPT ![w].pc = p]
AllOps == {"push", "flush", "pull", "connect", "disconnect"}

sync_guard(w) == SYNC_LOCK = None /\ SYNC_LOCK' = w

\* mutant: the cached document outlives the session
clear_cache_not == STORE_CACHE' = STORE_CACHE

clear_cache == STORE_CACHE' = None

clear_push_pending == pending' = FALSE

\* The operation returns: the guard is dropped.  A push still has to be
\* counted out; any other thread posts its event and is over.
Return(w, success) ==
  /\ SYNC_LOCK' = None
  /\ IF IsPush(w)
     THEN /\ th' = [th EXCEPT ![w].pc = "finish", ![w].ok = success]
          /\ button' = button
     ELSE /\ th' = [th EXCEPT ![w] = IdleThread]
          /\ button' = TRUE

\* the operation takes the lock; connect forgets what was cached
Begin(w) ==
  /\ At(w, AllOps, "lock")
  /\ sync_guard(w)
  /\ IF th[w].op = "connect" THEN clear_cache /\ Goto(w, "login")
     ELSE STORE_CACHE' = STORE_CACHE /\ Goto(w, "token")
  /\ UNCHANGED <<registryVars, cloud, dialogVars, PUSH_WORKERS, historyVars>>

\* a pull first delivers what the marker says is undelivered
AfterToken(w) ==
  IF IsPush(w) \/ (th[w].op = "pull" /\ pending) THEN "snapshot"
  ELSE IF th[w].op = "pull" THEN "get" ELSE "delete"

\* the refresh token is read, exchanged and stored again
access_token(w) ==
  /\ At(w, AllOps \ {"connect"}, "token")
  /\ account # None
  /\ th' = [th EXCEPT ![w].token = account, ![w].pc = AfterToken(w)]
  /\ UNCHANGED <<registryVars, cloud, dialogVars, staticVars, historyVars>>

\* not signed in, or the sign-in server refused or was not reached;
\* disconnect goes on without the delete
access_token_fails(w) ==
  /\ At(w, AllOps \ {"connect"}, "token")
  /\ IF th[w].op = "disconnect"
     THEN Goto(w, "forget") /\ UNCHANGED <<SYNC_LOCK, button>>
     ELSE Return(w, FALSE)
  /\ UNCHANGED <<registryVars, cloud, ui, controls, PUSH_WORKERS, STORE_CACHE,
                 historyVars>>

\* connect: the browser sign-in gave tokens and they were stored
login(w, a) ==
  /\ At(w, {"connect"}, "login")
  /\ account' = a
  /\ th' = [th EXCEPT ![w].token = a, ![w].pc = "get"]
  /\ UNCHANGED <<local, pending, cloud, dialogVars, staticVars, historyVars>>

login_fails(w) ==
  /\ At(w, {"connect"}, "login")
  /\ Return(w, FALSE)
  /\ UNCHANGED <<registryVars, cloud, ui, controls, PUSH_WORKERS, STORE_CACHE,
                 historyVars>>

\* push_snapshot: what is stored now, absent settings left out
read_local(w) ==
  /\ At(w, AllOps, "snapshot")
  /\ th' = [th EXCEPT ![w].snap = local, ![w].fresh = TRUE, ![w].newest = TRUE,
                      ![w].pc = "base",
                      ![w].conflicts = 0, ![w].transient = 0,
                      ![w].throttled = FALSE]
  /\ UNCHANGED <<registryVars, cloud, dialogVars, staticVars, historyVars>>

\* what a conditional GET answers: 304 makes the cached document stand
Answer(w) ==
  LET now == cloud[th[w].token]
  IN IF STORE_CACHE # None /\ STORE_CACHE.version = now.version
     THEN STORE_CACHE ELSE now

\* push_snapshot asks for the base version only
GetBase(w) ==
  /\ At(w, AllOps, "base")
  /\ STORE_CACHE' = Answer(w)
  /\ th' = [th EXCEPT ![w].base = Answer(w).version, ![w].pc = "post"]
  /\ UNCHANGED <<registryVars, cloud, dialogVars, PUSH_WORKERS, SYNC_LOCK,
                 historyVars>>

\* pull and connect: a document never written is seeded from local
store_get(w) ==
  /\ At(w, {"pull", "connect"}, "get")
  /\ STORE_CACHE' = Answer(w)
  /\ th' = IF Answer(w).version > 0
           THEN [th EXCEPT ![w].got = Answer(w).doc, ![w].pc = "apply"]
           ELSE [th EXCEPT ![w].seeding = TRUE, ![w].pc = "snapshot"]
  /\ UNCHANGED <<registryVars, cloud, dialogVars, PUSH_WORKERS, SYNC_LOCK,
                 historyVars>>

store_get_fails(w) ==
  /\ At(w, AllOps, "base") \/ At(w, AllOps, "get")
  /\ Return(w, FALSE)
  /\ UNCHANGED <<registryVars, cloud, ui, controls, PUSH_WORKERS, STORE_CACHE,
                 historyVars>>

\* every setting the document holds replaces the stored one
apply_remote(w) ==
  /\ At(w, {"pull", "connect"}, "apply")
  /\ local' = [k \in Keys |-> IF th[w].got[k] = Absent THEN local[k]
                                                       ELSE th[w].got[k]]
  /\ Return(w, TRUE)
  /\ UNCHANGED <<pending, account, cloud, ui, controls, PUSH_WORKERS,
                 STORE_CACHE, historyVars>>

(* push_snapshot's POST loop. *)

\* the server takes a write against its current version and merges it
Accepts(w) ==
  LET a == th[w].token
  IN /\ th[w].base = cloud[a].version /\ cloud[a].version < MaxVersion
     /\ cloud' = [cloud EXCEPT ![a].version = @ + 1,
                    ![a].doc = [k \in Keys |-> IF th[w].snap[k] = Absent THEN @[k]
                                                ELSE th[w].snap[k]]]
     /\ owed' = (owed /\ ~th[w].fresh)
     /\ unsent' = (unsent /\ ~th[w].newest)

\* 200.  A pull that began by pushing clears the marker and reads on.
PostOk(w) ==
  /\ At(w, AllOps, "post") /\ Accepts(w)
  /\ clear_cache
  /\ IF th[w].op = "pull" /\ ~th[w].seeding
     THEN clear_push_pending /\ Goto(w, "get") /\ UNCHANGED <<SYNC_LOCK, button>>
     ELSE pending' = pending /\ Return(w, TRUE)
  /\ UNCHANGED <<local, account, ui, controls, PUSH_WORKERS>>

\* no reply, or 5xx: two more tries, then the error
Retry(w) ==
  IF th[w].transient < MaxTransient
  THEN /\ th' = [th EXCEPT ![w].transient = @ + 1]
       /\ UNCHANGED <<SYNC_LOCK, button>>
  ELSE Return(w, FALSE)

PostLost(w) ==
  /\ At(w, AllOps, "post")
  /\ Retry(w)
  /\ UNCHANGED <<registryVars, cloud, ui, controls, PUSH_WORKERS, STORE_CACHE,
                 historyVars>>

\* the write is in, its reply is not
PostReplyLost(w) ==
  /\ At(w, AllOps, "post") /\ Accepts(w)
  /\ Retry(w)
  /\ UNCHANGED <<registryVars, ui, controls, PUSH_WORKERS, STORE_CACHE>>


\* mutant: the count of conflicts starts again before it reaches its limit
PostConflictForever(w) ==
  /\ At(w, AllOps, "post") /\ th[w].base # cloud[th[w].token].version
  /\ \E base \in {cloud[th[w].token].version, th[w].base} :
       th' = [th EXCEPT ![w].conflicts = (@ + 1) % MaxConflicts, ![w].base = base]
  /\ UNCHANGED <<registryVars, cloud, dialogVars, staticVars, historyVars>>

\* 409: take the version in the reply; when it has none ask again, which refreshes the cache,
\* or keep the old one when that fails
PostConflict(w) ==
  /\ At(w, AllOps, "post") /\ th[w].base # cloud[th[w].token].version
  /\ IF th[w].conflicts + 1 >= MaxConflicts THEN Return(w, FALSE) /\ STORE_CACHE' = STORE_CACHE
     ELSE /\ \E base \in {cloud[th[w].token].version, th[w].base} :
               /\ th' = [th EXCEPT ![w].conflicts = @ + 1, ![w].base = base]
               /\ STORE_CACHE' = STORE_CACHE \/ (base = Answer(w).version /\ STORE_CACHE' = Answer(w))
          /\ UNCHANGED <<SYNC_LOCK, button>>
  /\ UNCHANGED <<registryVars, cloud, ui, controls, PUSH_WORKERS, historyVars>>

\* 429: one retry after the wait the server asks for
PostThrottled(w) ==
  /\ At(w, AllOps, "post")
  /\ IF th[w].throttled THEN Return(w, FALSE)
     ELSE th' = [th EXCEPT ![w].throttled = TRUE] /\ UNCHANGED <<SYNC_LOCK, button>>
  /\ UNCHANGED <<registryVars, cloud, ui, controls, PUSH_WORKERS, STORE_CACHE,
                 historyVars>>

\* any other status
PostRefused(w) ==
  /\ At(w, AllOps, "post")
  /\ Return(w, FALSE)
  /\ UNCHANGED <<registryVars, cloud, ui, controls, PUSH_WORKERS, STORE_CACHE,
                 historyVars>>

(* disconnect *)

\* the document goes, with or without a reply
store_delete(w) ==
  /\ At(w, {"disconnect"}, "delete")
  /\ cloud' = [cloud EXCEPT ![th[w].token] = [version |-> 0, doc |-> Empty]]
  /\ clear_cache \/ STORE_CACHE' = STORE_CACHE
  /\ Goto(w, "forget")
  /\ UNCHANGED <<registryVars, dialogVars, PUSH_WORKERS, SYNC_LOCK,
                 historyVars>>

store_delete_fails(w) ==
  /\ At(w, {"disconnect"}, "delete")
  /\ Goto(w, "forget")
  /\ UNCHANGED <<registryVars, cloud, dialogVars, staticVars, historyVars>>

\* cred_store::clear and clear_cache
ForgetCredentials(w) ==
  /\ At(w, {"disconnect"}, "forget")
  /\ account' = None /\ clear_cache /\ owed' = FALSE
  /\ Goto(w, "unmark")
  /\ UNCHANGED <<local, pending, cloud, dialogVars, PUSH_WORKERS, SYNC_LOCK,
                 unsent>>

ForgetMarker(w) ==
  /\ At(w, {"disconnect"}, "unmark")
  /\ clear_push_pending
  /\ Return(w, TRUE)
  /\ UNCHANGED <<local, account, cloud, ui, controls, PUSH_WORKERS,
                 STORE_CACHE, historyVars>>

\* mutant: the marker goes with the last worker, successful or not
finish_push_worker_any(w) ==
  /\ th[w].pc = "finish"
  /\ PUSH_WORKERS' = PUSH_WORKERS - 1
  /\ pending' = (pending /\ PUSH_WORKERS' # 0)
  /\ th' = [th EXCEPT ![w] = IdleThread] /\ button' = TRUE
  /\ UNCHANGED <<local, account, cloud, ui, controls, SYNC_LOCK, STORE_CACHE,
                 historyVars>>

\* outside the lock: the last push to finish, if it succeeded, clears the
\* marker; then the thread posts its event
finish_push_worker(w) ==
  /\ th[w].pc = "finish"
  /\ PUSH_WORKERS' = PUSH_WORKERS - 1
  /\ IF th[w].ok /\ PUSH_WORKERS' = 0 THEN clear_push_pending ELSE pending' = pending
  /\ th' = [th EXCEPT ![w] = IdleThread]
  /\ button' = (button \/ th[w].op = "push")
  /\ UNCHANGED <<local, account, cloud, ui, controls, SYNC_LOCK, STORE_CACHE,
                 historyVars>>

\* another device of account a stores one setting
OtherDevice(a, k, v) ==
  /\ cloud[a].version < MaxVersion /\ cloud[a].doc[k] # v
  /\ cloud' = [cloud EXCEPT ![a].version = @ + 1, ![a].doc[k] = v]
  /\ UNCHANGED <<registryVars, dialogVars, staticVars, th, historyVars>>

-----------------------------------------------------------------------------
DialogStep ==
  \/ OpenSettings \/ apply_settings \/ CheckSignedIn \/ mark_push_pending
  \/ CloseSettings \/ ProcessEnds
  \/ \E k \in Keys, v \in Vals : EditControl(k, v)
  \/ \E w \in Workers : SpawnPush(w) \/ on_sync_click(w) \/ flush_pending(w)

\* what a thread does once it has the lock, up to its return
LockedStep(w) ==
  \/ access_token(w) \/ access_token_fails(w)
  \/ (\E a \in Accounts : login(w, a)) \/ login_fails(w)
  \/ read_local(w) \/ GetBase(w) \/ store_get(w) \/ store_get_fails(w)
  \/ apply_remote(w)
  \/ PostOk(w) \/ PostLost(w) \/ PostReplyLost(w) \/ PostConflict(w)
  \/ PostThrottled(w) \/ PostRefused(w)
  \/ store_delete(w) \/ store_delete_fails(w)
  \/ ForgetCredentials(w) \/ ForgetMarker(w)

ThreadStep(w) == Begin(w) \/ LockedStep(w) \/ finish_push_worker(w)

Next ==
  \/ DialogStep
  \/ \E w \in Workers : ThreadStep(w)
  \/ \E a \in Accounts, k \in Keys, v \in Vals : OtherDevice(a, k, v)

Spec == Init /\ [][Next]_vars

\* a running thread goes on: every request ends in a reply, an error or the
\* 20-second timeout, and the browser sign-in in its own timeout.  The user,
\* the other devices and whoever wants the lock owe nothing.
FairSpec == Spec /\ \A w \in Workers : WF_vars(LockedStep(w))

-----------------------------------------------------------------------------
ThreadStates ==
  {"idle", "lock", "login", "token", "snapshot", "base", "post", "get", "apply",
   "delete", "forget", "unmark", "finish"}

Threads ==
  [op : AllOps \cup {"none"}, pc : ThreadStates, token : Accounts \cup {None},
   snap : Docs, fresh : BOOLEAN, newest : BOOLEAN, base : 0..MaxVersion,
   conflicts : 0..(MaxConflicts - 1), transient : 0..MaxTransient,
   throttled : BOOLEAN, seeding : BOOLEAN, got : Docs, ok : BOOLEAN]

TypeOK ==
  /\ local \in Docs /\ pending \in BOOLEAN /\ account \in Accounts \cup {None}
  /\ cloud \in [Accounts -> [version : 0..MaxVersion, doc : Docs]]
  /\ ui \in {"closed", "open", "applied", "checked", "marked", "flushing", "draining"}
  /\ controls \in [Keys -> Vals] /\ button \in BOOLEAN
  /\ PUSH_WORKERS \in Nat /\ SYNC_LOCK \in Workers \cup {None}
  /\ STORE_CACHE \in [version : 0..MaxVersion, doc : Docs] \cup {None}
  /\ th \in [Workers -> Threads]
  /\ unsent \in BOOLEAN /\ owed \in BOOLEAN

\* "After Save, persist a pending marker before starting the worker.  Failures
\* ... are retried on the next Settings open; success clears it": as long as
\* the last marked Save has not reached the cloud, the marker is there to make
\* somebody try again, through lost replies, conflicts and restarts.
MarkerCoversOwed == owed /\ account # None => pending

\* "Failures remain visible and are retried on the next Settings open": when
\* the dialog is open and no thread is at work any more, a Save that the cloud
\* has not accepted still has its marker.
FailuresAreRetried ==
  owed /\ account # None /\ ui = "open" /\ AllIdle => pending

\* A background pull never replaces a saved setting by an older cloud value
\* while that Save is still owed to the cloud: the push would then send the
\* old value and the user's change is lost on every device.
PullSparesOwed ==
  [][local' # local /\ ui' = ui => ~owed]_vars

\* A sync thread writes to or deletes the document of an account only while
\* the user is signed in to that account: a push that races a disconnect or an
\* account change leaves no copy behind.
WritesOnlyWhileSignedIn ==
  [][\A a \in Accounts : cloud'[a] # cloud[a] /\ th' # th => account = a]_vars

\* "cache validators cannot cross account boundaries": what a pull is about to
\* apply is the document that account's cloud held when it was asked.
PullReadsTheAccount ==
  [][\A w \in Workers :
       th[w].pc = "get" /\ th'[w].pc = "apply"
         => th'[w].got = cloud[th[w].token].doc]_vars

\* The retries end: whoever holds SYNC_LOCK lets it go, whatever the network
\* and the other devices do.
LockIsReleased == SYNC_LOCK # None ~> SYNC_LOCK = None
=============================================================================
