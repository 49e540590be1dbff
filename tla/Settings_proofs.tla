--------------------------- MODULE Settings_proofs ---------------------------
(***************************************************************************)
(* Proofs about SettingsSync, for any settings, values, accounts, threads  *)
(* and retry limits.                                                       *)
(*                                                                         *)
(* SessionInv: a thread past SYNC_LOCK holds it, and works with the token  *)
(* of the account that is signed in.  From it, WritesOnlyWhileSignedIn.    *)
(*                                                                         *)
(* PatientInv, when the user saves only while no thread is alive: during a *)
(* Save there is no thread, so a snapshot in flight always holds the last  *)
(* marked Save, an accepted push leaves nothing owed, and a pull that      *)
(* reads has nothing to lose.  From it, MarkerCoversOwed and               *)
(* PullSparesOwed.                                                         *)
(*                                                                         *)
(* After them: the version cache of the sync, the shell registration, and  *)
(* the ticks and the Save of the Settings dialog.                          *)
(***************************************************************************)
EXTENDS SettingsSync, Registration, SettingsDialog, ListLemmas, TLAPS

Inside == ThreadStates \ {"idle", "lock", "finish"}
WithToken == {"snapshot", "base", "post", "get", "apply", "delete"}
Saving == {"applied", "checked", "marked"}

LockHeld == \A w \in Workers : th[w].pc \in Inside => SYNC_LOCK = w
TokenIsAccount ==
  \A w \in Workers :
    th[w].pc \in WithToken => account # None /\ th[w].token = account
UnmarkSignedOut == \A w \in Workers : th[w].pc = "unmark" => account = None
OwedSignedIn == owed => account # None

\* everything TypeOK says but that PUSH_WORKERS is a natural number
Typed ==
  /\ local \in Docs /\ pending \in BOOLEAN /\ account \in Accounts \cup {None}
  /\ cloud \in [Accounts -> [version : 0..MaxVersion, doc : Docs]]
  /\ ui \in {"closed", "open", "applied", "checked", "marked", "flushing", "draining"}
  /\ controls \in [Keys -> Vals] /\ button \in BOOLEAN
  /\ SYNC_LOCK \in Workers \cup {None}
  /\ STORE_CACHE \in [version : 0..MaxVersion, doc : Docs] \cup {None}
  /\ th \in [Workers -> Threads]
  /\ unsent \in BOOLEAN /\ owed \in BOOLEAN

SessionInv ==
  /\ Typed
  /\ LockHeld
  /\ TokenIsAccount
  /\ UnmarkSignedOut
  /\ OwedSignedIn

QuietSave == ui \in Saving => AllIdle
FreshSnapshot == \A w \in Workers : th[w].pc \in {"base", "post"} => th[w].fresh
DoneNotOwed == \A w \in Workers : th[w].pc = "finish" /\ th[w].ok => ~owed
ConnectNotOwed == \A w \in Workers : th[w].op = "connect" /\ th[w].pc # "idle" => ~owed
ReadNotOwed == \A w \in Workers : th[w].pc \in {"get", "apply"} => ~owed
OwedMarked == owed => pending

PatientInv ==
  /\ QuietSave
  /\ FreshSnapshot
  /\ DoneNotOwed
  /\ ConnectNotOwed
  /\ ReadNotOwed
  /\ OwedMarked

IInv == SessionInv /\ (Patient => PatientInv)

-----------------------------------------------------------------------------
(* Typing. *)

LEMMA IdleTyped == IdleThread \in Threads
  BY SyncAssumption DEF IdleThread, Threads, ThreadStates, AllOps, Docs, Empty

LEMMA EmptyTyped == Empty \in Docs
  BY DEF Empty, Docs

LEMMA InitTyped == Init => Typed
<1> SUFFICES ASSUME Init PROVE Typed OBVIOUS
<1>1. [version |-> 0, doc |-> Empty] \in [version : 0..MaxVersion, doc : Docs]
  BY EmptyTyped, SyncAssumption
<1>2. cloud \in [Accounts -> [version : 0..MaxVersion, doc : Docs]]
  BY <1>1 DEF Init
<1>3. th \in [Workers -> Threads]
  BY IdleTyped DEF Init
<1>4. controls \in [Keys -> Vals]
  BY SyncAssumption DEF Init
<1>5. None \in Workers \cup {None} /\ None \in Accounts \cup {None}
  OBVIOUS
<1>6. STORE_CACHE \in [version : 0..MaxVersion, doc : Docs] \cup {None}
  BY Zenon DEF Init
<1>7. local \in Docs /\ account \in Accounts \cup {None}
         /\ SYNC_LOCK \in Workers \cup {None}
  BY <1>5, EmptyTyped, Zenon DEF Init
<1>8. /\ ui = "closed" /\ button \in BOOLEAN /\ pending \in BOOLEAN
      /\ unsent \in BOOLEAN /\ owed \in BOOLEAN
  BY DEF Init
<1>9. ui \in {"closed", "open", "applied", "checked", "marked", "flushing", "draining"}
  BY <1>8
<1> QED BY <1>2, <1>3, <1>4, <1>6, <1>7, <1>8, <1>9, Zenon DEF Typed

LEMMA SpawnTyped ==
  ASSUME Typed, NEW w \in Workers, NEW o \in AllOps
  PROVE  Spawned(w, o) \in [Workers -> Threads]
<1>1. [IdleThread EXCEPT !.op = o, !.pc = "lock"] \in Threads
  BY IdleTyped DEF Threads, ThreadStates
<1> QED BY <1>1 DEF Spawned, Typed

(* One field of a thread set to a value of its type: the fields the         *)
(* invariants speak of are as before, but for that one.                    *)

LEMMA SetOp ==
  ASSUME NEW r \in Threads, NEW x \in AllOps
  PROVE  LET q == [r EXCEPT !.op = x]
         IN /\ q \in Threads
            /\ q.op = x
            /\ q.pc = r.pc /\ q.token = r.token /\ q.fresh = r.fresh
            /\ q.ok = r.ok
  BY DEF Threads

LEMMA SetPc ==
  ASSUME NEW r \in Threads, NEW x \in ThreadStates
  PROVE  LET q == [r EXCEPT !.pc = x]
         IN /\ q \in Threads
            /\ q.pc = x
            /\ q.op = r.op /\ q.token = r.token /\ q.fresh = r.fresh
            /\ q.ok = r.ok
  BY DEF Threads

LEMMA SetOk ==
  ASSUME NEW r \in Threads, NEW x \in BOOLEAN
  PROVE  LET q == [r EXCEPT !.ok = x]
         IN /\ q \in Threads
            /\ q.ok = x
            /\ q.op = r.op /\ q.pc = r.pc /\ q.token = r.token
            /\ q.fresh = r.fresh
  BY DEF Threads

LEMMA SetToken ==
  ASSUME NEW r \in Threads, NEW x \in Accounts
  PROVE  LET q == [r EXCEPT !.token = x]
         IN /\ q \in Threads
            /\ q.token = x
            /\ q.op = r.op /\ q.pc = r.pc /\ q.fresh = r.fresh
            /\ q.ok = r.ok
  BY DEF Threads

LEMMA SetSnap ==
  ASSUME NEW r \in Threads, NEW x \in Docs
  PROVE  LET q == [r EXCEPT !.snap = x]
         IN /\ q \in Threads
            /\ q.op = r.op /\ q.pc = r.pc /\ q.token = r.token
            /\ q.fresh = r.fresh /\ q.ok = r.ok
  BY DEF Threads

LEMMA SetFresh ==
  ASSUME NEW r \in Threads, NEW x \in BOOLEAN
  PROVE  LET q == [r EXCEPT !.fresh = x]
         IN /\ q \in Threads
            /\ q.fresh = x
            /\ q.op = r.op /\ q.pc = r.pc /\ q.token = r.token
            /\ q.ok = r.ok
  BY DEF Threads

LEMMA SetNewest ==
  ASSUME NEW r \in Threads, NEW x \in BOOLEAN
  PROVE  LET q == [r EXCEPT !.newest = x]
         IN /\ q \in Threads
            /\ q.op = r.op /\ q.pc = r.pc /\ q.token = r.token
            /\ q.fresh = r.fresh /\ q.ok = r.ok
  BY DEF Threads

LEMMA SetBase ==
  ASSUME NEW r \in Threads, NEW x \in 0..MaxVersion
  PROVE  LET q == [r EXCEPT !.base = x]
         IN /\ q \in Threads
            /\ q.op = r.op /\ q.pc = r.pc /\ q.token = r.token
            /\ q.fresh = r.fresh /\ q.ok = r.ok
  BY DEF Threads

LEMMA SetConflicts ==
  ASSUME NEW r \in Threads, NEW x \in 0..(MaxConflicts - 1)
  PROVE  LET q == [r EXCEPT !.conflicts = x]
         IN /\ q \in Threads
            /\ q.op = r.op /\ q.pc = r.pc /\ q.token = r.token
            /\ q.fresh = r.fresh /\ q.ok = r.ok
  BY DEF Threads

LEMMA SetTransient ==
  ASSUME NEW r \in Threads, NEW x \in 0..MaxTransient
  PROVE  LET q == [r EXCEPT !.transient = x]
         IN /\ q \in Threads
            /\ q.op = r.op /\ q.pc = r.pc /\ q.token = r.token
            /\ q.fresh = r.fresh /\ q.ok = r.ok
  BY DEF Threads

LEMMA SetThrottled ==
  ASSUME NEW r \in Threads, NEW x \in BOOLEAN
  PROVE  LET q == [r EXCEPT !.throttled = x]
         IN /\ q \in Threads
            /\ q.op = r.op /\ q.pc = r.pc /\ q.token = r.token
            /\ q.fresh = r.fresh /\ q.ok = r.ok
  BY DEF Threads

LEMMA SetSeeding ==
  ASSUME NEW r \in Threads, NEW x \in BOOLEAN
  PROVE  LET q == [r EXCEPT !.seeding = x]
         IN /\ q \in Threads
            /\ q.op = r.op /\ q.pc = r.pc /\ q.token = r.token
            /\ q.fresh = r.fresh /\ q.ok = r.ok
  BY DEF Threads

LEMMA SetGot ==
  ASSUME NEW r \in Threads, NEW x \in Docs
  PROVE  LET q == [r EXCEPT !.got = x]
         IN /\ q \in Threads
            /\ q.op = r.op /\ q.pc = r.pc /\ q.token = r.token
            /\ q.fresh = r.fresh /\ q.ok = r.ok
  BY DEF Threads

\* what a return leaves of the thread that returns
LEMMA Returned ==
  ASSUME Typed, NEW w \in Workers, NEW success \in BOOLEAN, Return(w, success)
  PROVE  /\ th' \in [Workers -> Threads] /\ SYNC_LOCK' = None /\ button' \in BOOLEAN
         /\ \A v \in Workers \ {w} : th'[v] = th[v]
         /\ \/ th'[w].pc = "idle"
            \/ /\ th'[w].pc = "finish" /\ th'[w].ok = success
               /\ th'[w].op = th[w].op /\ th[w].op # "connect"
<1>0. th[w] \in Threads BY DEF Typed
<1>1. CASE IsPush(w)
  <2> DEFINE r == [th[w] EXCEPT !.pc = "finish"]
             q == [r EXCEPT !.ok = success]
  <2>1. "finish" \in ThreadStates BY DEF ThreadStates
  <2>2. r \in Threads /\ r.pc = "finish" /\ r.op = th[w].op
    BY <1>0, <2>1, SetPc
  <2>3. q \in Threads /\ q.pc = "finish" /\ q.op = th[w].op /\ q.ok = success
    BY <2>2, SetOk
  <2>4. th' = [th EXCEPT ![w] = q] BY <1>1 DEF Return
  <2>5. th[w].op # "connect" BY <1>1 DEF IsPush
  <2> HIDE DEF q
  <2> QED BY <1>1, <2>3, <2>4, <2>5 DEF Return, Typed
<1>2. CASE ~IsPush(w)
  <2>1. IdleThread.pc = "idle" BY DEF IdleThread
  <2> QED BY <1>2, <2>1, IdleTyped DEF Return, Typed
<1> QED BY <1>1, <1>2

-----------------------------------------------------------------------------
(* What each step of a thread does to the threads, in the terms the         *)
(* invariants speak of.                                                     *)

Keeps(w) == \A v \in Workers \ {w} : th'[v] = th[v]
SameThread(w) ==
  /\ th'[w].op = th[w].op /\ th'[w].token = th[w].token
  /\ th'[w].fresh = th[w].fresh /\ th'[w].ok = th[w].ok
Moves(w, p) == Keeps(w) /\ SameThread(w) /\ th'[w].pc = p /\ SYNC_LOCK' = SYNC_LOCK
Leaves(w, success) ==
  /\ Keeps(w) /\ SYNC_LOCK' = None
  /\ \/ th'[w].pc = "idle"
     \/ /\ th'[w].pc = "finish" /\ th'[w].ok = success
        /\ th'[w].op = th[w].op /\ th[w].op # "connect"

LEMMA ReturnLeaves ==
  ASSUME Typed, NEW w \in Workers, NEW success \in BOOLEAN, Return(w, success)
  PROVE  th' \in [Workers -> Threads] /\ button' \in BOOLEAN /\ Leaves(w, success)
  BY Returned DEF Leaves, Keeps

\* a thread replaced by one that differs in the fields Set... speak of
LEMMA Put ==
  ASSUME Typed, NEW w \in Workers, NEW r \in Threads, th' = [th EXCEPT ![w] = r]
  PROVE  th' \in [Workers -> Threads] /\ th'[w] = r /\ Keeps(w)
  BY DEF Typed, Keeps

LEMMA SpawnShape ==
  ASSUME Typed, NEW w \in Workers, NEW o \in AllOps, th' = Spawned(w, o)
  PROVE  /\ th' \in [Workers -> Threads] /\ Keeps(w)
         /\ th'[w].pc = "lock" /\ th'[w].op = o
<1> DEFINE q == [IdleThread EXCEPT !.op = o]
           r == [q EXCEPT !.pc = "lock"]
<1>1. q \in Threads /\ q.op = o
  BY IdleTyped, SetOp
<1>2. "lock" \in ThreadStates BY DEF ThreadStates
<1> HIDE DEF q
<1>3. r \in Threads /\ r.pc = "lock" /\ r.op = o
  BY <1>1, <1>2, SetPc
<1>4. th' = [th EXCEPT ![w] = r] BY DEF Spawned, q
<1> HIDE DEF r
<1> QED BY <1>3, <1>4, Put

LEMMA GotoShape ==
  ASSUME Typed, NEW w \in Workers, NEW p \in ThreadStates, Goto(w, p)
  PROVE  th' \in [Workers -> Threads] /\ Keeps(w) /\ SameThread(w) /\ th'[w].pc = p
<1> DEFINE r == [th[w] EXCEPT !.pc = p]
<1>1. th[w] \in Threads BY DEF Typed
<1>2. /\ r \in Threads /\ r.pc = p /\ r.op = th[w].op /\ r.token = th[w].token
      /\ r.fresh = th[w].fresh /\ r.ok = th[w].ok
  BY <1>1, SetPc
<1>3. th' = [th EXCEPT ![w] = r] BY DEF Goto
<1> HIDE DEF r
<1> QED BY <1>2, <1>3, Put DEF SameThread

\* a signed-in thread's account has a document
LEMMA TokenTyped ==
  ASSUME SessionInv, NEW w \in Workers, th[w].pc \in WithToken
  PROVE  th[w].token \in Accounts
  BY DEF SessionInv, TokenIsAccount, Typed

LEMMA AnswerTyped ==
  ASSUME SessionInv, NEW w \in Workers, th[w].pc \in WithToken
  PROVE  /\ Answer(w) \in [version : 0..MaxVersion, doc : Docs]
         /\ Answer(w).version \in 0..MaxVersion /\ Answer(w).doc \in Docs
<1>1. th[w].token \in Accounts BY TokenTyped
<1>2. cloud[th[w].token] \in [version : 0..MaxVersion, doc : Docs]
  BY <1>1 DEF SessionInv, Typed
<1>3. STORE_CACHE # None => STORE_CACHE \in [version : 0..MaxVersion, doc : Docs]
  BY DEF SessionInv, Typed
<1>4. Answer(w) \in [version : 0..MaxVersion, doc : Docs]
  BY <1>2, <1>3 DEF Answer
<1> QED BY <1>4

-----------------------------------------------------------------------------
(* The ways a step can keep the invariants. *)

\* a thread inside an operation goes on inside it
LEMMA SessionMove ==
  ASSUME SessionInv, Typed', NEW w \in Workers, Keeps(w),
         th[w].pc \in Inside, SYNC_LOCK' = SYNC_LOCK, account' = account,
         owed' => owed,
         th'[w].pc \in WithToken => account # None /\ th'[w].token = account,
         th'[w].pc # "unmark"
  PROVE  SessionInv'
  BY DEF SessionInv, LockHeld, TokenIsAccount, UnmarkSignedOut, OwedSignedIn, Keeps

\* a thread inside an operation returns from it
LEMMA SessionLeave ==
  ASSUME SessionInv, Typed', NEW w \in Workers, NEW b, Leaves(w, b),
         th[w].pc \in Inside, account' = account, owed' => owed
  PROVE  SessionInv'
<1>1. \A v \in Workers \ {w} : th[v].pc \notin Inside
  BY DEF SessionInv, LockHeld
<1>2. th'[w].pc \notin Inside /\ th'[w].pc \notin WithToken /\ th'[w].pc # "unmark"
  BY DEF Leaves, Inside, WithToken
<1>3. \A v \in Workers : th'[v].pc \notin Inside
  BY <1>1, <1>2 DEF Leaves, Keeps
<1> QED BY <1>2, <1>3 DEF SessionInv, LockHeld, TokenIsAccount, UnmarkSignedOut,
              OwedSignedIn, Leaves, Keeps

\* the account changes while one thread is inside
LEMMA SessionSwitch ==
  ASSUME SessionInv, Typed', NEW w \in Workers, Keeps(w),
         th[w].pc \in Inside, SYNC_LOCK' = SYNC_LOCK,
         th'[w].pc \in WithToken => account' # None /\ th'[w].token = account',
         th'[w].pc = "unmark" => account' = None,
         owed' => account' # None
  PROVE  SessionInv'
<1>1. \A v \in Workers \ {w} : th'[v].pc \notin Inside
  BY DEF SessionInv, LockHeld, Keeps
<1>2. WithToken \subseteq Inside /\ "unmark" \in Inside
  BY DEF WithToken, Inside, ThreadStates
<1>3. SYNC_LOCK' = w
  BY DEF SessionInv, LockHeld
<1> QED BY <1>1, <1>2, <1>3 DEF SessionInv, LockHeld, TokenIsAccount,
              UnmarkSignedOut, OwedSignedIn

\* a step outside the operations: threads start, end, or stay where they are
StartOrStay ==
  \A v \in Workers : \/ th'[v].pc \in {"idle", "lock"}
                     \/ th'[v].pc = th[v].pc /\ th'[v].token = th[v].token

LEMMA SessionOutside ==
  ASSUME SessionInv, Typed', SYNC_LOCK' = SYNC_LOCK, account' = account,
         owed' => account # None,
         StartOrStay
  PROVE  SessionInv'
<1>1. {"idle", "lock"} \cap (Inside \cup WithToken \cup {"unmark"}) = {}
  BY DEF Inside, WithToken
<1> QED BY <1>1 DEF StartOrStay, SessionInv, LockHeld, TokenIsAccount,
              UnmarkSignedOut, OwedSignedIn

\* one living thread moves, and nobody saves
LEMMA PatientMove ==
  ASSUME PatientInv, NEW w \in Workers, Keeps(w), th[w].pc # "idle",
         ui' = ui, owed' => owed, owed' => (pending => pending'),
         th'[w].pc = "idle" \/ th'[w].op = th[w].op,
         th'[w].pc \in {"base", "post"} => th'[w].fresh,
         th'[w].pc = "finish" /\ th'[w].ok => ~owed',
         th'[w].pc \in {"get", "apply"} => ~owed'
  PROVE  PatientInv'
<1>1. ui \notin Saving
  BY DEF PatientInv, QuietSave, AllIdle
<1>2. QuietSave' BY <1>1 DEF QuietSave
<1>3. FreshSnapshot' BY DEF PatientInv, FreshSnapshot, Keeps
<1>4. DoneNotOwed' BY DEF PatientInv, DoneNotOwed, Keeps
<1>5. ConnectNotOwed' BY DEF PatientInv, ConnectNotOwed, Keeps
<1>6. ReadNotOwed' BY DEF PatientInv, ReadNotOwed, Keeps
<1>7. OwedMarked' BY DEF PatientInv, OwedMarked
<1> QED BY <1>2, <1>3, <1>4, <1>5, <1>6, <1>7 DEF PatientInv

-----------------------------------------------------------------------------
(* The dialog's steps. *)

\* starting a thread from a dialog that is not saving
LEMMA SpawnStep ==
  ASSUME IInv, NEW w \in Workers, NEW o \in AllOps, th' = Spawned(w, o),
         o = "connect" => account = None,
         ui' \notin Saving, Typed', SYNC_LOCK' = SYNC_LOCK,
         account' = account, owed' = owed, pending' = pending
  PROVE  IInv'
<1>1. Keeps(w) /\ th'[w].pc = "lock" /\ th'[w].op = o
  BY SpawnShape DEF IInv, SessionInv
<1>2. SessionInv'
  <2>1. StartOrStay
    BY <1>1 DEF Keeps, StartOrStay
  <2>2. SessionInv /\ (owed => account # None)
    BY DEF IInv, SessionInv, OwedSignedIn
  <2>3. owed' => account # None BY <2>2, Zenon
  <2> QED BY <2>1, <2>2, <2>3, SessionOutside
<1>3. ASSUME Patient PROVE PatientInv'
  <2>1. PatientInv BY <1>3 DEF IInv
  <2>2. account = None => ~owed BY DEF IInv, SessionInv, OwedSignedIn
  <2>3. QuietSave' BY DEF QuietSave
  <2>4. FreshSnapshot' /\ DoneNotOwed' /\ ReadNotOwed' /\ OwedMarked'
    BY <1>1, <2>1 DEF PatientInv, FreshSnapshot, DoneNotOwed, ReadNotOwed,
                      OwedMarked, Keeps
  <2>5. ConnectNotOwed'
    BY <1>1, <2>1, <2>2 DEF PatientInv, ConnectNotOwed, Keeps
  <2> QED BY <2>3, <2>4, <2>5 DEF PatientInv
<1> QED BY <1>2, <1>3 DEF IInv

\* a step of the dialog that leaves the threads and the account alone
LEMMA QuietStep ==
  ASSUME IInv, Typed', th' = th, SYNC_LOCK' = SYNC_LOCK, account' = account,
         owed' = owed, pending' = pending, ui' \in Saving => (Patient => AllIdle)
  PROVE  IInv'
<1>0. StartOrStay BY DEF StartOrStay
<1>1. SessionInv'
  BY <1>0, SessionOutside DEF IInv, SessionInv, OwedSignedIn
<1>2. ASSUME Patient PROVE PatientInv'
  BY <1>2 DEF IInv, PatientInv, QuietSave, AllIdle, FreshSnapshot, DoneNotOwed,
              ConnectNotOwed, ReadNotOwed, OwedMarked
<1> QED BY <1>1, <1>2 DEF IInv

LEMMA OpenStep ==
  ASSUME IInv, OpenSettings PROVE IInv'
<1>0. Typed BY DEF IInv, SessionInv
<1>1. controls' \in [Keys -> Vals]
  BY <1>0, SyncAssumption DEF OpenSettings, Typed, Docs
<1>2. CASE account = None
  <2>1. Typed'
    BY <1>0, <1>1, <1>2 DEF OpenSettings, Typed, registryVars, staticVars, historyVars
  <2> QED BY <1>2, <2>1, QuietStep
        DEF OpenSettings, Saving, registryVars, staticVars, historyVars
<1>3. CASE account # None
  <2>1. PICK w \in Workers : th' = Spawned(w, "pull")
    BY <1>3 DEF OpenSettings
  <2>2. th' \in [Workers -> Threads]
    BY <1>0, <2>1, SpawnShape DEF AllOps
  <2>3. Typed'
    BY <1>0, <1>1, <2>2 DEF OpenSettings, Typed, registryVars, staticVars, historyVars
  <2> QED BY <2>1, <2>3, SpawnStep
        DEF OpenSettings, Saving, AllOps, registryVars, staticVars, historyVars
<1> QED BY <1>2, <1>3

LEMMA EditStep ==
  ASSUME IInv, NEW k \in Keys, NEW v \in Vals, EditControl(k, v) PROVE IInv'
<1>1. Typed'
  BY DEF IInv, SessionInv, EditControl, historyVars, Typed, registryVars, staticVars
<1> QED
  BY <1>1, QuietStep DEF EditControl, historyVars, Saving, registryVars, staticVars

LEMMA CheckStep ==
  ASSUME IInv, CheckSignedIn PROVE IInv'
<1>1. Typed'
  BY DEF IInv, SessionInv, CheckSignedIn, Typed, registryVars, staticVars
<1>2. Patient => AllIdle
  BY DEF IInv, PatientInv, QuietSave, Saving, CheckSignedIn
<1> QED BY <1>1, <1>2, QuietStep DEF CheckSignedIn, registryVars, staticVars

LEMMA CloseStep ==
  ASSUME IInv, CloseSettings PROVE IInv'
<1>1. Typed'
  BY DEF IInv, SessionInv, CloseSettings, Typed, registryVars, staticVars, historyVars
<1> QED BY <1>1, QuietStep
      DEF CloseSettings, Saving, registryVars, staticVars, historyVars

LEMMA SpawnPushStep ==
  ASSUME IInv, NEW w \in Workers, SpawnPush(w) PROVE IInv'
<1>1. th' \in [Workers -> Threads]
  BY SpawnShape DEF SpawnPush, AllOps, IInv, SessionInv
<1>2. Typed'
  BY <1>1 DEF IInv, SessionInv, SpawnPush, Typed, registryVars, historyVars
<1> QED BY <1>2, SpawnStep DEF SpawnPush, Saving, AllOps, registryVars, historyVars

LEMMA FlushStep ==
  ASSUME IInv, NEW w \in Workers, flush_pending(w) PROVE IInv'
<1>1. th' \in [Workers -> Threads]
  BY SpawnShape DEF flush_pending, AllOps, IInv, SessionInv
<1>2. Typed'
  BY <1>1 DEF IInv, SessionInv, flush_pending, Typed, registryVars, historyVars
<1> QED BY <1>2, SpawnStep DEF flush_pending, Saving, AllOps, registryVars, historyVars

LEMMA ClickStep ==
  ASSUME IInv, NEW w \in Workers, on_sync_click(w) PROVE IInv'
<1> DEFINE o == IF account = None THEN "connect" ELSE "disconnect"
<1>0. o \in AllOps /\ th' = Spawned(w, o) /\ (o = "connect" => account = None)
  BY DEF on_sync_click, AllOps
<1> HIDE DEF o
<1>1. th' \in [Workers -> Threads]
  BY <1>0, SpawnShape DEF IInv, SessionInv
<1>2. Typed'
  BY <1>1 DEF IInv, SessionInv, on_sync_click, Typed, registryVars, staticVars, historyVars
<1>3. /\ ui' \notin Saving /\ SYNC_LOCK' = SYNC_LOCK
      /\ account' = account /\ owed' = owed /\ pending' = pending
  BY DEF on_sync_click, Saving, registryVars, staticVars, historyVars
<1> QED BY <1>0, <1>2, <1>3, SpawnStep

\* one history field of every thread is rewritten, the rest stays
Retagged ==
  \A v \in Workers :
    /\ th'[v].pc = th[v].pc /\ th'[v].op = th[v].op
    /\ th'[v].token = th[v].token /\ th'[v].ok = th[v].ok

LEMMA ApplyShape ==
  ASSUME Typed, apply_settings
  PROVE  /\ th' \in [Workers -> Threads] /\ Retagged
         /\ \A v \in Workers : th'[v].fresh = th[v].fresh
<1>1. \A v \in Workers : th[v] \in Threads BY DEF Typed
<1>2. \A v \in Workers :
        LET q == [th[v] EXCEPT !.newest = FALSE]
        IN /\ q \in Threads
           /\ q.op = th[v].op /\ q.pc = th[v].pc /\ q.token = th[v].token
           /\ q.fresh = th[v].fresh /\ q.ok = th[v].ok
  BY <1>1, SetNewest
<1>3. th' = [v \in Workers |-> [th[v] EXCEPT !.newest = FALSE]]
  BY DEF apply_settings
<1> QED BY <1>2, <1>3 DEF Retagged

LEMMA OweShape ==
  ASSUME Typed, Owe
  PROVE  th' \in [Workers -> Threads] /\ Retagged
<1>1. \A v \in Workers : th[v] \in Threads BY DEF Typed
<1> DEFINE f(v) == th[v].fresh /\ th[v].newest
<1>2. \A v \in Workers : f(v) \in BOOLEAN OBVIOUS
<1> HIDE DEF f
<1>3. \A v \in Workers :
        LET q == [th[v] EXCEPT !.fresh = f(v)]
        IN /\ q \in Threads
           /\ q.op = th[v].op /\ q.pc = th[v].pc /\ q.token = th[v].token
           /\ q.ok = th[v].ok
  BY <1>1, <1>2, SetFresh
<1>4. th' = [v \in Workers |-> [th[v] EXCEPT !.fresh = f(v)]]
  BY DEF Owe, f
<1> QED BY <1>3, <1>4 DEF Retagged

LEMMA ApplyStep ==
  ASSUME IInv, apply_settings PROVE IInv'
<1>0. Typed BY DEF IInv, SessionInv
<1>1. /\ th' \in [Workers -> Threads] /\ Retagged
      /\ \A v \in Workers : th'[v].fresh = th[v].fresh
  BY <1>0, ApplyShape
<1>2. local' \in Docs
  BY <1>0 DEF apply_settings, Typed, Docs
<1>3. Typed'
  BY <1>0, <1>1, <1>2 DEF Typed, apply_settings, staticVars
<1>4. StartOrStay BY <1>1 DEF Retagged, StartOrStay
<1>5. SessionInv'
  BY <1>3, <1>4, SessionOutside
  DEF IInv, SessionInv, OwedSignedIn, apply_settings, staticVars
<1>6. ASSUME Patient PROVE PatientInv'
  <2>1. PatientInv BY <1>6 DEF IInv
  <2>2. QuietSave'
    BY <1>1, <1>6 DEF apply_settings, QuietSave, AllIdle, Retagged
  <2>3. FreshSnapshot' /\ ReadNotOwed' /\ DoneNotOwed'
    BY <1>1, <2>1 DEF PatientInv, FreshSnapshot, ReadNotOwed, DoneNotOwed,
                      Retagged, apply_settings
  <2>4. ConnectNotOwed' /\ OwedMarked'
    BY <1>1, <2>1 DEF PatientInv, ConnectNotOwed, OwedMarked, Retagged,
                      apply_settings
  <2> QED BY <2>2, <2>3, <2>4 DEF PatientInv
<1> QED BY <1>5, <1>6 DEF IInv

LEMMA MarkStep ==
  ASSUME IInv, mark_push_pending PROVE IInv'
<1>0. Typed BY DEF IInv, SessionInv
<1>1. th' \in [Workers -> Threads] /\ Retagged
  BY <1>0, OweShape DEF mark_push_pending
<1>2. owed' \in BOOLEAN /\ unsent' \in BOOLEAN /\ pending' = TRUE
      /\ (owed' => account # None)
  BY DEF mark_push_pending, Owe
<1>3. Typed'
  BY <1>0, <1>1, <1>2 DEF Typed, mark_push_pending, staticVars
<1>4. StartOrStay BY <1>1 DEF Retagged, StartOrStay
<1>5. SessionInv'
  BY <1>2, <1>3, <1>4, SessionOutside DEF IInv, mark_push_pending, staticVars
<1>6. ASSUME Patient PROVE PatientInv'
  <2>1. AllIdle
    BY <1>6 DEF IInv, PatientInv, QuietSave, Saving, mark_push_pending
  <2>2. \A v \in Workers : th'[v].pc = "idle"
    BY <1>1, <2>1 DEF AllIdle, Retagged
  <2> QED BY <1>2, <2>2 DEF PatientInv, QuietSave, AllIdle, FreshSnapshot,
             DoneNotOwed, ConnectNotOwed, ReadNotOwed, OwedMarked
<1> QED BY <1>5, <1>6 DEF IInv

LEMMA EndStep ==
  ASSUME IInv, ProcessEnds PROVE IInv'
<1>0. Typed BY DEF IInv, SessionInv
<1>1. \A v \in Workers : th'[v].pc = "idle"
  BY DEF ProcessEnds, IdleThread
<1>2. th' \in [Workers -> Threads]
  BY IdleTyped DEF ProcessEnds
<1>3. STORE_CACHE' \in [version : 0..MaxVersion, doc : Docs] \cup {None}
  BY Zenon DEF ProcessEnds
<1>4. Typed'
  BY <1>0, <1>2, <1>3 DEF Typed, ProcessEnds, registryVars
<1>5. SessionInv'
  BY <1>1, <1>4 DEF IInv, SessionInv, LockHeld, TokenIsAccount, UnmarkSignedOut,
     OwedSignedIn, Inside, WithToken, ProcessEnds, registryVars
<1>6. ASSUME Patient PROVE PatientInv'
  BY <1>1, <1>6 DEF IInv, PatientInv, QuietSave, AllIdle, FreshSnapshot,
     DoneNotOwed, ConnectNotOwed, ReadNotOwed, OwedMarked, ProcessEnds, registryVars
<1> QED BY <1>5, <1>6 DEF IInv

-----------------------------------------------------------------------------
(* The threads' steps.  A thread inside an operation goes on inside it, or   *)
(* returns.                                                                  *)

LEMMA MoveStep ==
  ASSUME IInv, Typed', NEW w \in Workers, Keeps(w), th[w].pc \in Inside,
         SYNC_LOCK' = SYNC_LOCK, account' = account, ui' = ui,
         owed' => owed, owed' => (pending => pending'),
         th'[w].op = th[w].op, th'[w].pc \in Inside \ {"unmark"},
         th'[w].pc \in WithToken => account # None /\ th'[w].token = account,
         Patient => (th'[w].pc \in {"base", "post"} => th'[w].fresh),
         Patient => (th'[w].pc \in {"get", "apply"} => ~owed')
  PROVE  IInv'
<1>1. SessionInv'
  BY SessionMove DEF IInv
<1>2. th[w].pc # "idle" /\ th'[w].pc # "finish"
  BY DEF Inside
<1>3. ASSUME Patient PROVE PatientInv'
  BY <1>2, <1>3, PatientMove DEF IInv
<1> QED BY <1>1, <1>3 DEF IInv

LEMMA LeaveStep ==
  ASSUME IInv, Typed', NEW w \in Workers, NEW b \in BOOLEAN, Leaves(w, b),
         th[w].pc \in Inside, account' = account, ui' = ui,
         owed' => owed, owed' => (pending => pending'),
         Patient => (b => ~owed')
  PROVE  IInv'
<1>1. SessionInv'
  BY SessionLeave DEF IInv
<1>2. Keeps(w) /\ (th'[w].pc = "idle" \/ th'[w].op = th[w].op)
  BY DEF Leaves
<1>3. th[w].pc # "idle" /\ th'[w].pc \notin {"base", "post", "get", "apply"}
  BY DEF Inside, Leaves
<1>4. th'[w].pc = "finish" => th'[w].ok = b
  BY DEF Leaves
<1>5. ASSUME Patient PROVE PatientInv'
  BY <1>2, <1>3, <1>4, <1>5, PatientMove DEF IInv
<1> QED BY <1>1, <1>5 DEF IInv

\* a failed operation returns, and changes nothing but the thread
Unchanged == 
  /\ local' = local /\ pending' = pending /\ account' = account
  /\ cloud' = cloud /\ ui' = ui /\ controls' = controls
  /\ STORE_CACHE' = STORE_CACHE
  /\ unsent' = unsent /\ owed' = owed

LEMMA FailStep ==
  ASSUME IInv, NEW w \in Workers, th[w].pc \in Inside, Return(w, FALSE), Unchanged
  PROVE  IInv'
<1>0. Typed BY DEF IInv, SessionInv
<1>1. th' \in [Workers -> Threads] /\ button' \in BOOLEAN /\ Leaves(w, FALSE)
  BY <1>0, ReturnLeaves
<1>2. SYNC_LOCK' = None BY <1>1 DEF Leaves
<1>3. Typed'
  BY <1>0, <1>1, <1>2 DEF Typed, Unchanged
<1> QED BY <1>1, <1>3, LeaveStep DEF Unchanged

\* a thread goes to its next step with no other effect
LEMMA GotoStep ==
  ASSUME IInv, NEW w \in Workers, th[w].pc \in Inside, NEW p \in {"forget", "delete"},
         Goto(w, p), Unchanged, SYNC_LOCK' = SYNC_LOCK, button' = button,
         p = "delete" => account # None /\ th[w].token = account
  PROVE  IInv'
<1>0. Typed BY DEF IInv, SessionInv
<1>1. p \in ThreadStates BY DEF ThreadStates
<1>2. th' \in [Workers -> Threads] /\ Keeps(w) /\ SameThread(w) /\ th'[w].pc = p
  BY <1>0, <1>1, GotoShape
<1>3. Typed'
  BY <1>0, <1>2 DEF Typed, Unchanged
<1>4. p \in Inside \ {"unmark"} /\ p \notin {"base", "post", "get", "apply"}
  BY DEF Inside, ThreadStates
<1>5. p \in WithToken => account # None /\ th'[w].token = account
  BY <1>2 DEF WithToken, SameThread
<1> QED BY <1>2, <1>3, <1>4, <1>5, MoveStep DEF SameThread, Unchanged

LEMMA BeginStep ==
  ASSUME IInv, NEW w \in Workers, Begin(w) PROVE IInv'
<1>0. Typed BY DEF IInv, SessionInv
<1> DEFINE p == IF th[w].op = "connect" THEN "login" ELSE "token"
<1>1. p \in ThreadStates /\ Goto(w, p)
  BY DEF Begin, ThreadStates
<1>2. p \in {"login", "token"} OBVIOUS
<1> HIDE DEF p
<1>3. th' \in [Workers -> Threads] /\ Keeps(w) /\ SameThread(w) /\ th'[w].pc = p
  BY <1>0, <1>1, GotoShape
<1>4. STORE_CACHE' \in [version : 0..MaxVersion, doc : Docs] \cup {None}
  BY <1>0, Zenon DEF Begin, clear_cache, Typed
<1>5. SYNC_LOCK = None /\ SYNC_LOCK' = w /\ th[w].pc = "lock"
  BY DEF Begin, sync_guard, At
<1>6. /\ local' = local /\ pending' = pending /\ account' = account
      /\ cloud' = cloud /\ ui' = ui /\ controls' = controls /\ button' = button
      /\ unsent' = unsent /\ owed' = owed
  BY DEF Begin, registryVars, dialogVars, historyVars
<1>7. Typed'
  BY <1>0, <1>3, <1>4, <1>5, <1>6 DEF Typed
<1>8. \A v \in Workers : th[v].pc \notin Inside
  BY <1>5, SyncAssumption DEF IInv, SessionInv, LockHeld
<1>9. {"login", "token"} \cap (WithToken \cup {"unmark"}) = {}
      /\ WithToken \subseteq Inside /\ "unmark" \in Inside
  BY DEF WithToken, Inside, ThreadStates
<1>10. LockHeld'
  BY <1>3, <1>5, <1>8 DEF LockHeld, Keeps
<1>11. TokenIsAccount' /\ UnmarkSignedOut'
  BY <1>2, <1>3, <1>8, <1>9 DEF TokenIsAccount, UnmarkSignedOut, Keeps
<1>12. SessionInv'
  BY <1>6, <1>7, <1>10, <1>11 DEF IInv, SessionInv, OwedSignedIn
<1>13. ASSUME Patient PROVE PatientInv'
  BY <1>2, <1>3, <1>5, <1>6, <1>13, PatientMove DEF IInv, SameThread
<1> QED BY <1>12, <1>13 DEF IInv

LEMMA TokenStep ==
  ASSUME IInv, NEW w \in Workers, access_token(w) PROVE IInv'
<1>0. Typed BY DEF IInv, SessionInv
<1> DEFINE p == AfterToken(w)
           r == [th[w] EXCEPT !.token = account]
           q == [r EXCEPT !.pc = p]
<1>1. /\ th[w].pc = "token" /\ account # None /\ th' = [th EXCEPT ![w] = q]
      /\ th[w].op \in AllOps \ {"connect"}
  BY DEF access_token, At
<1>2. p \in {"snapshot", "get", "delete"} /\ (p = "get" => ~pending)
  BY <1>1 DEF AfterToken
<1>3. Unchanged /\ SYNC_LOCK' = SYNC_LOCK /\ button' = button
  BY DEF access_token, Unchanged, registryVars, dialogVars, staticVars, historyVars
<1> HIDE DEF p
<1>4. th[w] \in Threads /\ account \in Accounts
  BY <1>0, <1>1 DEF Typed
<1>5. r \in Threads /\ r.op = th[w].op /\ r.token = account
  BY <1>4, SetToken
<1> HIDE DEF r
<1>6. p \in ThreadStates BY <1>2 DEF ThreadStates
<1>7. q \in Threads /\ q.op = th[w].op /\ q.token = account /\ q.pc = p
  BY <1>5, <1>6, SetPc
<1> HIDE DEF q
<1>8. /\ th' \in [Workers -> Threads] /\ Keeps(w) /\ th'[w].op = th[w].op
      /\ th'[w].token = account /\ th'[w].pc = p
  BY <1>0, <1>1, <1>7, Put
<1>9. Typed' BY <1>0, <1>3, <1>8 DEF Typed, Unchanged
<1>10. th[w].pc \in Inside /\ p \in Inside \ {"unmark"} /\ p \notin {"base", "post", "apply"}
  BY <1>1, <1>2 DEF Inside, ThreadStates
<1>11. Patient => (p = "get" => ~owed)
  BY <1>2 DEF IInv, PatientInv, OwedMarked
<1> QED BY <1>1, <1>3, <1>8, <1>9, <1>10, <1>11, MoveStep DEF Unchanged

LEMMA TokenFailsStep ==
  ASSUME IInv, NEW w \in Workers, access_token_fails(w) PROVE IInv'
<1>1. Unchanged /\ th[w].pc \in Inside
  BY DEF access_token_fails, At, Unchanged, registryVars, historyVars, Inside, ThreadStates
<1>2. CASE th[w].op = "disconnect"
  <2>1. Goto(w, "forget") /\ SYNC_LOCK' = SYNC_LOCK /\ button' = button
    BY <1>2 DEF access_token_fails
  <2> QED BY <1>1, <2>1, GotoStep
<1>3. CASE th[w].op # "disconnect"
  BY <1>1, <1>3, FailStep DEF access_token_fails
<1> QED BY <1>2, <1>3

LEMMA LoginStep ==
  ASSUME IInv, NEW w \in Workers, NEW a \in Accounts, login(w, a) PROVE IInv'
<1>0. Typed BY DEF IInv, SessionInv
<1> DEFINE r == [th[w] EXCEPT !.token = a]
           q == [r EXCEPT !.pc = "get"]
<1>1. /\ th[w].pc = "login" /\ th[w].op = "connect" /\ account' = a
      /\ th' = [th EXCEPT ![w] = q]
  BY DEF login, At
<1>2. /\ local' = local /\ pending' = pending /\ cloud' = cloud /\ ui' = ui
      /\ controls' = controls /\ button' = button /\ SYNC_LOCK' = SYNC_LOCK
      /\ STORE_CACHE' = STORE_CACHE
      /\ unsent' = unsent /\ owed' = owed
  BY DEF login, dialogVars, staticVars, historyVars
<1>3. th[w] \in Threads /\ "get" \in ThreadStates
  BY <1>0 DEF Typed, ThreadStates
<1>4. r \in Threads /\ r.op = th[w].op /\ r.token = a
  BY <1>3, SetToken
<1> HIDE DEF r
<1>5. q \in Threads /\ q.op = th[w].op /\ q.token = a /\ q.pc = "get"
  BY <1>3, <1>4, SetPc
<1> HIDE DEF q
<1>6. /\ th' \in [Workers -> Threads] /\ Keeps(w) /\ th'[w].op = th[w].op
      /\ th'[w].token = a /\ th'[w].pc = "get"
  BY <1>0, <1>1, <1>5, Put
<1>7. Typed' BY <1>0, <1>1, <1>2, <1>6 DEF Typed
<1>8. th[w].pc \in Inside BY <1>1 DEF Inside, ThreadStates
<1>9. a # None BY SyncAssumption
<1>10. SessionInv'
  BY <1>1, <1>2, <1>6, <1>7, <1>8, <1>9, SessionSwitch DEF IInv
<1>11. ASSUME Patient PROVE PatientInv'
  <2>1. ~owed BY <1>1, <1>11 DEF IInv, PatientInv, ConnectNotOwed
  <2> QED BY <1>1, <1>2, <1>6, <1>11, <2>1, PatientMove DEF IInv
<1> QED BY <1>10, <1>11 DEF IInv

LEMMA LoginFailsStep ==
  ASSUME IInv, NEW w \in Workers, login_fails(w) PROVE IInv'
<1>1. Unchanged /\ th[w].pc \in Inside
  BY DEF login_fails, At, Unchanged, registryVars, historyVars, Inside, ThreadStates
<1> QED BY <1>1, FailStep DEF login_fails

LEMMA GetFailsStep ==
  ASSUME IInv, NEW w \in Workers, store_get_fails(w) PROVE IInv'
<1>1. Unchanged /\ th[w].pc \in Inside
  BY DEF store_get_fails, At, Unchanged, registryVars, historyVars, Inside, ThreadStates
<1> QED BY <1>1, FailStep DEF store_get_fails

LEMMA ReadStep ==
  ASSUME IInv, NEW w \in Workers, read_local(w) PROVE IInv'
<1>0. Typed BY DEF IInv, SessionInv
<1> DEFINE r1 == [th[w] EXCEPT !.snap = local]
           r2 == [r1 EXCEPT !.fresh = TRUE]
           r3 == [r2 EXCEPT !.newest = TRUE]
           r4 == [r3 EXCEPT !.pc = "base"]
           r5 == [r4 EXCEPT !.conflicts = 0]
           r6 == [r5 EXCEPT !.transient = 0]
           r7 == [r6 EXCEPT !.throttled = FALSE]
<1>1. th[w].pc = "snapshot" /\ th' = [th EXCEPT ![w] = r7]
  BY DEF read_local, At
<1>2. Unchanged /\ SYNC_LOCK' = SYNC_LOCK /\ button' = button
  BY DEF read_local, Unchanged, registryVars, dialogVars, staticVars, historyVars
<1>3. /\ th[w] \in Threads /\ local \in Docs /\ "base" \in ThreadStates
      /\ 0 \in 0..(MaxConflicts - 1) /\ 0 \in 0..MaxTransient
  BY <1>0, SyncAssumption DEF Typed, ThreadStates
<1>4. r1 \in Threads /\ r1.op = th[w].op /\ r1.token = th[w].token
  BY <1>3, SetSnap
<1> HIDE DEF r1
<1>5. r2 \in Threads /\ r2.op = th[w].op /\ r2.token = th[w].token /\ r2.fresh = TRUE
  BY <1>4, SetFresh
<1> HIDE DEF r2
<1>6. r3 \in Threads /\ r3.op = th[w].op /\ r3.token = th[w].token /\ r3.fresh = TRUE
  BY <1>5, SetNewest
<1> HIDE DEF r3
<1>7. /\ r4 \in Threads /\ r4.op = th[w].op /\ r4.token = th[w].token
      /\ r4.fresh = TRUE /\ r4.pc = "base"
  BY <1>3, <1>6, SetPc
<1> HIDE DEF r4
<1>8. /\ r5 \in Threads /\ r5.op = th[w].op /\ r5.token = th[w].token
      /\ r5.fresh = TRUE /\ r5.pc = "base"
  BY <1>3, <1>7, SetConflicts
<1> HIDE DEF r5
<1>9. /\ r6 \in Threads /\ r6.op = th[w].op /\ r6.token = th[w].token
      /\ r6.fresh = TRUE /\ r6.pc = "base"
  BY <1>3, <1>8, SetTransient
<1> HIDE DEF r6
<1>10. /\ r7 \in Threads /\ r7.op = th[w].op /\ r7.token = th[w].token
       /\ r7.fresh = TRUE /\ r7.pc = "base"
  BY <1>9, SetThrottled
<1> HIDE DEF r7
<1>11. /\ th' \in [Workers -> Threads] /\ Keeps(w) /\ th'[w].op = th[w].op
       /\ th'[w].token = th[w].token /\ th'[w].pc = "base" /\ th'[w].fresh = TRUE
  BY <1>0, <1>1, <1>10, Put
<1>12. Typed' BY <1>0, <1>2, <1>11 DEF Typed, Unchanged
<1>13. th[w].pc \in Inside /\ "base" \in Inside \ {"unmark"}
  BY <1>1 DEF Inside, ThreadStates
<1>14. account # None /\ th'[w].token = account
  BY <1>1, <1>11 DEF IInv, SessionInv, TokenIsAccount, WithToken
<1> QED BY <1>2, <1>11, <1>12, <1>13, <1>14, MoveStep DEF Unchanged

LEMMA BaseStep ==
  ASSUME IInv, NEW w \in Workers, GetBase(w) PROVE IInv'
<1>0. Typed BY DEF IInv, SessionInv
<1> DEFINE r == [th[w] EXCEPT !.base = Answer(w).version]
           q == [r EXCEPT !.pc = "post"]
<1>1. th[w].pc = "base" /\ th' = [th EXCEPT ![w] = q] /\ STORE_CACHE' = Answer(w)
  BY DEF GetBase, At
<1>2. /\ local' = local /\ pending' = pending /\ account' = account
      /\ cloud' = cloud /\ ui' = ui /\ controls' = controls /\ button' = button
      /\ SYNC_LOCK' = SYNC_LOCK
      /\ unsent' = unsent /\ owed' = owed
  BY DEF GetBase, registryVars, dialogVars, historyVars
<1>3. /\ Answer(w) \in [version : 0..MaxVersion, doc : Docs]
      /\ Answer(w).version \in 0..MaxVersion
  BY <1>1, AnswerTyped DEF IInv, WithToken
<1>4. th[w] \in Threads /\ "post" \in ThreadStates
  BY <1>0 DEF Typed, ThreadStates
<1>5. r \in Threads /\ r.op = th[w].op /\ r.token = th[w].token /\ r.fresh = th[w].fresh
  BY <1>3, <1>4, SetBase
<1> HIDE DEF r
<1>6. /\ q \in Threads /\ q.op = th[w].op /\ q.token = th[w].token
      /\ q.fresh = th[w].fresh /\ q.pc = "post"
  BY <1>4, <1>5, SetPc
<1> HIDE DEF q
<1>7. /\ th' \in [Workers -> Threads] /\ Keeps(w) /\ th'[w].op = th[w].op
      /\ th'[w].token = th[w].token /\ th'[w].pc = "post"
      /\ th'[w].fresh = th[w].fresh
  BY <1>0, <1>1, <1>6, Put
<1>8. Typed' BY <1>0, <1>1, <1>2, <1>3, <1>7 DEF Typed
<1>9. th[w].pc \in Inside /\ "post" \in Inside \ {"unmark"}
  BY <1>1 DEF Inside, ThreadStates
<1>10. account # None /\ th'[w].token = account
  BY <1>1, <1>7 DEF IInv, SessionInv, TokenIsAccount, WithToken
<1>11. Patient => th'[w].fresh
  BY <1>1, <1>7 DEF IInv, PatientInv, FreshSnapshot
<1> QED BY <1>2, <1>7, <1>8, <1>9, <1>10, <1>11, MoveStep

LEMMA GetStep ==
  ASSUME IInv, NEW w \in Workers, store_get(w) PROVE IInv'
<1>0. Typed BY DEF IInv, SessionInv
<1>1. th[w].pc = "get" /\ STORE_CACHE' = Answer(w)
  BY DEF store_get, At
<1>2. /\ local' = local /\ pending' = pending /\ account' = account
      /\ cloud' = cloud /\ ui' = ui /\ controls' = controls /\ button' = button
      /\ SYNC_LOCK' = SYNC_LOCK
      /\ unsent' = unsent /\ owed' = owed
  BY DEF store_get, registryVars, dialogVars, historyVars
<1>3. /\ Answer(w) \in [version : 0..MaxVersion, doc : Docs]
      /\ Answer(w).doc \in Docs
  BY <1>1, AnswerTyped DEF IInv, WithToken
<1>4. th[w] \in Threads /\ "apply" \in ThreadStates /\ "snapshot" \in ThreadStates
  BY <1>0 DEF Typed, ThreadStates
<1>5. account # None /\ th[w].token = account
  BY <1>1 DEF IInv, SessionInv, TokenIsAccount, WithToken
<1>6. Patient => ~owed
  BY <1>1 DEF IInv, PatientInv, ReadNotOwed
<1>7. /\ th[w].pc \in Inside /\ "apply" \in Inside \ {"unmark"}
      /\ "snapshot" \in Inside \ {"unmark"}
  BY <1>1 DEF Inside, ThreadStates
<1>8. CASE Answer(w).version > 0
  <2> DEFINE r == [th[w] EXCEPT !.got = Answer(w).doc]
             q == [r EXCEPT !.pc = "apply"]
  <2>1. th' = [th EXCEPT ![w] = q] BY <1>8 DEF store_get
  <2>2. r \in Threads /\ r.op = th[w].op /\ r.token = th[w].token
    BY <1>3, <1>4, SetGot
  <2> HIDE DEF r
  <2>3. q \in Threads /\ q.op = th[w].op /\ q.token = th[w].token /\ q.pc = "apply"
    BY <1>4, <2>2, SetPc
  <2> HIDE DEF q
  <2>4. /\ th' \in [Workers -> Threads] /\ Keeps(w) /\ th'[w].op = th[w].op
        /\ th'[w].token = th[w].token /\ th'[w].pc = "apply"
    BY <1>0, <2>1, <2>3, Put
  <2>5. Typed' BY <1>0, <1>1, <1>2, <1>3, <2>4 DEF Typed
  <2> QED BY <1>2, <1>5, <1>6, <1>7, <2>4, <2>5, MoveStep
<1>9. CASE ~(Answer(w).version > 0)
  <2> DEFINE r == [th[w] EXCEPT !.seeding = TRUE]
             q == [r EXCEPT !.pc = "snapshot"]
  <2>1. th' = [th EXCEPT ![w] = q] BY <1>9 DEF store_get
  <2>2. r \in Threads /\ r.op = th[w].op /\ r.token = th[w].token
    BY <1>4, SetSeeding
  <2> HIDE DEF r
  <2>3. q \in Threads /\ q.op = th[w].op /\ q.token = th[w].token /\ q.pc = "snapshot"
    BY <1>4, <2>2, SetPc
  <2> HIDE DEF q
  <2>4. /\ th' \in [Workers -> Threads] /\ Keeps(w) /\ th'[w].op = th[w].op
        /\ th'[w].token = th[w].token /\ th'[w].pc = "snapshot"
    BY <1>0, <2>1, <2>3, Put
  <2>5. Typed' BY <1>0, <1>1, <1>2, <1>3, <2>4 DEF Typed
  <2> QED BY <1>2, <1>5, <1>7, <2>4, <2>5, MoveStep
<1> QED BY <1>8, <1>9

LEMMA ApplyRemoteStep ==
  ASSUME IInv, NEW w \in Workers, apply_remote(w) PROVE IInv'
<1>0. Typed BY DEF IInv, SessionInv
<1>1. th[w].pc = "apply" /\ Return(w, TRUE)
  BY DEF apply_remote, At
<1>2. /\ pending' = pending /\ account' = account /\ STORE_CACHE' = STORE_CACHE
      /\ cloud' = cloud /\ ui' = ui /\ controls' = controls
      /\ unsent' = unsent /\ owed' = owed
  BY DEF apply_remote, historyVars
<1>3. th[w].got \in Docs /\ local \in Docs
  BY <1>0 DEF Typed, Threads
<1>4. local' \in Docs
  BY <1>3 DEF apply_remote, Docs
<1>5. th' \in [Workers -> Threads] /\ button' \in BOOLEAN /\ Leaves(w, TRUE)
  BY <1>0, <1>1, ReturnLeaves
<1>6. SYNC_LOCK' = None BY <1>5 DEF Leaves
<1>7. Typed' BY <1>0, <1>2, <1>4, <1>5, <1>6 DEF Typed
<1>8. th[w].pc \in Inside BY <1>1 DEF Inside, ThreadStates
<1>9. Patient => ~owed'
  BY <1>1, <1>2 DEF IInv, PatientInv, ReadNotOwed
<1> QED BY <1>2, <1>5, <1>7, <1>8, <1>9, LeaveStep

-----------------------------------------------------------------------------
(* The POST loop. *)

LEMMA AcceptsShape ==
  ASSUME IInv, NEW w \in Workers, th[w].pc = "post", Accepts(w)
  PROVE  /\ cloud' \in [Accounts -> [version : 0..MaxVersion, doc : Docs]]
         /\ owed' \in BOOLEAN /\ unsent' \in BOOLEAN
         /\ owed' => owed
         /\ Patient => ~owed'
<1>0. Typed BY DEF IInv, SessionInv
<1> DEFINE a == th[w].token
           d == [k \in Keys |-> IF th[w].snap[k] = Absent THEN cloud[a].doc[k]
                                ELSE th[w].snap[k]]
<1>1. a \in Accounts
  BY TokenTyped DEF IInv, WithToken
<1>2. th[w].snap \in Docs BY <1>0 DEF Typed, Threads
<1>3. /\ cloud[a] \in [version : 0..MaxVersion, doc : Docs]
      /\ cloud[a].version \in 0..MaxVersion /\ cloud[a].doc \in Docs
  BY <1>0, <1>1 DEF Typed
<1>4. d \in Docs
  BY <1>2, <1>3 DEF Docs
<1>5. cloud[a].version < MaxVersion
  BY DEF Accepts
<1>6. cloud[a].version + 1 \in 0..MaxVersion
  BY <1>3, <1>5, SyncAssumption
<1>7. cloud' = [cloud EXCEPT ![a].version = @ + 1, ![a].doc = d]
  BY DEF Accepts
<1> HIDE DEF d
<1>8. [cloud[a] EXCEPT !.version = @ + 1, !.doc = d]
        \in [version : 0..MaxVersion, doc : Docs]
  BY <1>3, <1>4, <1>6
<1>9. cloud' \in [Accounts -> [version : 0..MaxVersion, doc : Docs]]
  BY <1>0, <1>7, <1>8 DEF Typed
<1>10. owed' = (owed /\ ~th[w].fresh) /\ unsent' = (unsent /\ ~th[w].newest)
  BY DEF Accepts
<1>11. Patient => th[w].fresh
  BY DEF IInv, PatientInv, FreshSnapshot
<1> QED BY <1>9, <1>10, <1>11

LEMMA PostOkStep ==
  ASSUME IInv, NEW w \in Workers, PostOk(w) PROVE IInv'
<1>0. Typed BY DEF IInv, SessionInv
<1>1. th[w].pc = "post" /\ Accepts(w) BY DEF PostOk, At
<1>2. /\ cloud' \in [Accounts -> [version : 0..MaxVersion, doc : Docs]]
      /\ owed' \in BOOLEAN /\ unsent' \in BOOLEAN
      /\ (owed' => owed) /\ (Patient => ~owed')
  BY <1>1, AcceptsShape
<1>3. STORE_CACHE' \in [version : 0..MaxVersion, doc : Docs] \cup {None}
  BY Zenon DEF PostOk, clear_cache
<1>4. /\ local' = local /\ account' = account /\ ui' = ui
      /\ controls' = controls
  BY DEF PostOk
<1>5. th[w].pc \in Inside BY <1>1 DEF Inside, ThreadStates
<1>6. CASE th[w].op = "pull" /\ ~th[w].seeding
  <2>1. /\ pending' = FALSE /\ Goto(w, "get") /\ SYNC_LOCK' = SYNC_LOCK
        /\ button' = button
    BY <1>6 DEF PostOk, clear_push_pending
  <2>2. "get" \in ThreadStates /\ "get" \in Inside \ {"unmark"}
    BY DEF ThreadStates, Inside
  <2>3. th' \in [Workers -> Threads] /\ Keeps(w) /\ SameThread(w) /\ th'[w].pc = "get"
    BY <1>0, <2>1, <2>2, GotoShape
  <2>4. Typed' BY <1>0, <1>2, <1>3, <1>4, <2>1, <2>3 DEF Typed
  <2>5. account # None /\ th'[w].token = account
    BY <1>1, <2>3 DEF IInv, SessionInv, TokenIsAccount, WithToken, SameThread
  <2>6. SessionInv'
    BY <1>2, <1>4, <1>5, <2>1, <2>2, <2>3, <2>4, <2>5, SessionMove DEF IInv
  <2>7. ASSUME Patient PROVE PatientInv'
    <3>1. th[w].pc # "idle" /\ ~owed' BY <1>1, <1>2, <2>7
    <3> QED BY <1>4, <2>3, <2>7, <3>1, PatientMove DEF IInv, SameThread
  <2>8. IInv' BY <2>6, <2>7 DEF IInv
  <2> QED BY <2>8
<1>7. CASE ~(th[w].op = "pull" /\ ~th[w].seeding)
  <2>1. pending' = pending /\ Return(w, TRUE)
    BY <1>7 DEF PostOk
  <2>2. th' \in [Workers -> Threads] /\ button' \in BOOLEAN /\ Leaves(w, TRUE)
    BY <1>0, <2>1, ReturnLeaves
  <2>3. SYNC_LOCK' = None BY <2>2 DEF Leaves
  <2>4. Typed' BY <1>0, <1>2, <1>3, <1>4, <2>1, <2>2, <2>3 DEF Typed
  <2> QED BY <1>2, <1>4, <1>5, <2>1, <2>2, <2>4, LeaveStep
<1> QED BY <1>6, <1>7

\* a thread that stays in the loop, one counter or the base changed
Loops(w) ==
  /\ th' \in [Workers -> Threads] /\ Keeps(w) /\ SameThread(w)
  /\ th'[w].pc = "post" /\ SYNC_LOCK' = SYNC_LOCK /\ button' = button

LEMMA LoopStep ==
  ASSUME IInv, NEW w \in Workers, th[w].pc = "post", Loops(w),
         local' = local, pending' = pending, account' = account, ui' = ui,
         controls' = controls,
         STORE_CACHE' \in [version : 0..MaxVersion, doc : Docs] \cup {None},
         cloud' \in [Accounts -> [version : 0..MaxVersion, doc : Docs]],
         owed' \in BOOLEAN, unsent' \in BOOLEAN, owed' => owed
  PROVE  IInv'
<1>1. Typed' BY DEF IInv, SessionInv, Typed, Loops
<1>2. "post" \in Inside \ {"unmark"} BY DEF Inside, ThreadStates
<1>3. account # None /\ th'[w].token = account
  BY DEF IInv, SessionInv, TokenIsAccount, WithToken, Loops, SameThread
<1>4. Patient => th'[w].fresh
  BY DEF IInv, PatientInv, FreshSnapshot, Loops, SameThread
<1> QED BY <1>1, <1>2, <1>3, <1>4, MoveStep DEF Loops, SameThread

LEMMA RetryShape ==
  ASSUME Typed, NEW w \in Workers, th[w].pc = "post", Retry(w)
  PROVE  Loops(w) \/ Return(w, FALSE)
<1>1. CASE th[w].transient < MaxTransient
  <2> DEFINE q == [th[w] EXCEPT !.transient = th[w].transient + 1]
  <2>1. th' = [th EXCEPT ![w] = q] /\ SYNC_LOCK' = SYNC_LOCK /\ button' = button
    BY <1>1 DEF Retry
  <2>2. th[w] \in Threads /\ th[w].transient \in 0..MaxTransient
    BY DEF Typed, Threads
  <2>3. th[w].transient + 1 \in 0..MaxTransient
    BY <1>1, <2>2, SyncAssumption
  <2>4. /\ q \in Threads /\ q.op = th[w].op /\ q.pc = th[w].pc
        /\ q.token = th[w].token /\ q.fresh = th[w].fresh /\ q.ok = th[w].ok
    BY <2>2, <2>3, SetTransient
  <2> HIDE DEF q
  <2> QED BY <2>1, <2>4, Put DEF Loops, SameThread
<1>2. CASE ~(th[w].transient < MaxTransient)
  BY <1>2 DEF Retry
<1> QED BY <1>1, <1>2

LEMMA PostLostStep ==
  ASSUME IInv, NEW w \in Workers, PostLost(w) PROVE IInv'
<1>0. Typed BY DEF IInv, SessionInv
<1>1. th[w].pc = "post" /\ Retry(w) /\ Unchanged
  BY DEF PostLost, At, Unchanged, registryVars, historyVars
<1>2. CASE Loops(w)
  BY <1>0, <1>1, <1>2, LoopStep DEF Unchanged, Typed
<1>3. CASE Return(w, FALSE)
  BY <1>1, <1>3, FailStep DEF Inside, ThreadStates
<1> QED BY <1>0, <1>1, <1>2, <1>3, RetryShape

LEMMA PostReplyLostStep ==
  ASSUME IInv, NEW w \in Workers, PostReplyLost(w) PROVE IInv'
<1>0. Typed BY DEF IInv, SessionInv
<1>1. /\ th[w].pc = "post" /\ Retry(w) /\ Accepts(w)
      /\ local' = local /\ pending' = pending /\ account' = account /\ ui' = ui
      /\ controls' = controls /\ STORE_CACHE' = STORE_CACHE
  BY DEF PostReplyLost, At, registryVars
<1>2. /\ cloud' \in [Accounts -> [version : 0..MaxVersion, doc : Docs]]
      /\ owed' \in BOOLEAN /\ unsent' \in BOOLEAN /\ (owed' => owed)
  BY <1>1, AcceptsShape
<1>3. CASE Loops(w)
  BY <1>0, <1>1, <1>2, <1>3, LoopStep DEF Typed
<1>4. CASE Return(w, FALSE)
  <2>1. th' \in [Workers -> Threads] /\ button' \in BOOLEAN /\ Leaves(w, FALSE)
    BY <1>0, <1>4, ReturnLeaves
  <2>2. SYNC_LOCK' = None BY <2>1 DEF Leaves
  <2>3. Typed' BY <1>0, <1>1, <1>2, <2>1, <2>2 DEF Typed
  <2>4. th[w].pc \in Inside BY <1>1 DEF Inside, ThreadStates
  <2> QED BY <1>1, <1>2, <2>1, <2>3, <2>4, LeaveStep
<1> QED BY <1>0, <1>1, <1>3, <1>4, RetryShape

LEMMA PostConflictStep ==
  ASSUME IInv, NEW w \in Workers, PostConflict(w) PROVE IInv'
<1>0. Typed BY DEF IInv, SessionInv
<1>1. /\ th[w].pc = "post" /\ local' = local /\ pending' = pending /\ account' = account
      /\ cloud' = cloud /\ ui' = ui /\ controls' = controls /\ unsent' = unsent /\ owed' = owed
  BY DEF PostConflict, At, registryVars, historyVars
<1>2. CASE th[w].conflicts + 1 >= MaxConflicts
  <2>1. Return(w, FALSE) /\ STORE_CACHE' = STORE_CACHE BY <1>2 DEF PostConflict
  <2> QED BY <1>1, <2>1, FailStep DEF Unchanged, Inside, ThreadStates
<1>3. CASE ~(th[w].conflicts + 1 >= MaxConflicts)
  <2>1. SYNC_LOCK' = SYNC_LOCK /\ button' = button
    BY <1>3 DEF PostConflict
  <2>2. PICK b \in {cloud[th[w].token].version, th[w].base} :
          /\ th' = [th EXCEPT ![w].conflicts = @ + 1, ![w].base = b]
          /\ STORE_CACHE' = STORE_CACHE \/ STORE_CACHE' = Answer(w)
    BY <1>3 DEF PostConflict
  <2> DEFINE r == [th[w] EXCEPT !.conflicts = th[w].conflicts + 1]
             q == [r EXCEPT !.base = b]
  <2>3. th' = [th EXCEPT ![w] = q] BY <2>2
  <2>4. /\ th[w] \in Threads /\ th[w].conflicts \in 0..(MaxConflicts - 1)
        /\ th[w].base \in 0..MaxVersion
    BY <1>0 DEF Typed, Threads
  <2>5. cloud[th[w].token].version \in 0..MaxVersion
    BY <1>0, <1>1, TokenTyped DEF IInv, WithToken, Typed
  <2>6. th[w].conflicts + 1 \in 0..(MaxConflicts - 1)
    BY <1>3, <2>4, SyncAssumption
  <2>7. b \in 0..MaxVersion BY <2>4, <2>5
  <2>8. /\ r \in Threads /\ r.op = th[w].op /\ r.pc = th[w].pc
        /\ r.token = th[w].token /\ r.fresh = th[w].fresh /\ r.ok = th[w].ok
    BY <2>4, <2>6, SetConflicts
  <2> HIDE DEF r
  <2>9. /\ q \in Threads /\ q.op = th[w].op /\ q.pc = th[w].pc
        /\ q.token = th[w].token /\ q.fresh = th[w].fresh /\ q.ok = th[w].ok
    BY <2>7, <2>8, SetBase
  <2> HIDE DEF q
  <2>10. Loops(w)
    BY <1>0, <1>1, <2>1, <2>3, <2>9, Put DEF Loops, SameThread
  <2>11. STORE_CACHE' \in [version : 0..MaxVersion, doc : Docs] \cup {None}
    <3>1. Answer(w) \in [version : 0..MaxVersion, doc : Docs]
      BY <1>1, AnswerTyped DEF IInv, WithToken
    <3> QED BY <1>0, <2>2, <3>1 DEF Typed
  <2> QED BY <1>0, <1>1, <2>10, <2>11, LoopStep DEF Typed
<1> QED BY <1>2, <1>3

LEMMA PostThrottledStep ==
  ASSUME IInv, NEW w \in Workers, PostThrottled(w) PROVE IInv'
<1>0. Typed BY DEF IInv, SessionInv
<1>1. th[w].pc = "post" /\ Unchanged
  BY DEF PostThrottled, At, Unchanged, registryVars, historyVars
<1>2. CASE th[w].throttled
  BY <1>1, <1>2, FailStep DEF PostThrottled, Inside, ThreadStates
<1>3. CASE ~th[w].throttled
  <2> DEFINE q == [th[w] EXCEPT !.throttled = TRUE]
  <2>1. th' = [th EXCEPT ![w] = q] /\ SYNC_LOCK' = SYNC_LOCK /\ button' = button
    BY <1>3 DEF PostThrottled
  <2>2. th[w] \in Threads BY <1>0 DEF Typed
  <2>3. /\ q \in Threads /\ q.op = th[w].op /\ q.pc = th[w].pc
        /\ q.token = th[w].token /\ q.fresh = th[w].fresh /\ q.ok = th[w].ok
    BY <2>2, SetThrottled
  <2> HIDE DEF q
  <2>4. Loops(w)
    BY <1>0, <1>1, <2>1, <2>3, Put DEF Loops, SameThread
  <2> QED BY <1>0, <1>1, <2>4, LoopStep DEF Unchanged, Typed
<1> QED BY <1>2, <1>3

LEMMA PostRefusedStep ==
  ASSUME IInv, NEW w \in Workers, PostRefused(w) PROVE IInv'
<1>1. th[w].pc = "post" /\ Unchanged
  BY DEF PostRefused, At, Unchanged, registryVars, historyVars
<1> QED BY <1>1, FailStep DEF PostRefused, Inside, ThreadStates

-----------------------------------------------------------------------------
(* disconnect, the end of a push, and the other devices. *)

LEMMA DeleteStep ==
  ASSUME IInv, NEW w \in Workers, store_delete(w) PROVE IInv'
<1>0. Typed BY DEF IInv, SessionInv
<1>1. /\ th[w].pc = "delete" /\ Goto(w, "forget") /\ SYNC_LOCK' = SYNC_LOCK
      /\ local' = local /\ pending' = pending /\ account' = account /\ ui' = ui
      /\ controls' = controls /\ button' = button
      /\ unsent' = unsent /\ owed' = owed
  BY DEF store_delete, At, registryVars, dialogVars, historyVars
<1>2. [version |-> 0, doc |-> Empty] \in [version : 0..MaxVersion, doc : Docs]
  BY EmptyTyped, SyncAssumption
<1>3. cloud' \in [Accounts -> [version : 0..MaxVersion, doc : Docs]]
  BY <1>0, <1>2 DEF store_delete, Typed
<1>4. STORE_CACHE' \in [version : 0..MaxVersion, doc : Docs] \cup {None}
  BY <1>0, Zenon DEF store_delete, clear_cache, Typed
<1>5. "forget" \in ThreadStates /\ "forget" \in Inside \ {"unmark"}
  BY DEF Inside, ThreadStates
<1>6. th' \in [Workers -> Threads] /\ Keeps(w) /\ SameThread(w) /\ th'[w].pc = "forget"
  BY <1>0, <1>1, <1>5, GotoShape
<1>7. Typed' BY <1>0, <1>1, <1>3, <1>4, <1>6 DEF Typed
<1>8. th[w].pc \in Inside /\ "forget" \notin WithToken
  BY <1>1 DEF Inside, ThreadStates, WithToken
<1> QED BY <1>1, <1>5, <1>6, <1>7, <1>8, MoveStep DEF SameThread

LEMMA DeleteFailsStep ==
  ASSUME IInv, NEW w \in Workers, store_delete_fails(w) PROVE IInv'
<1>1. /\ th[w].pc \in Inside /\ Goto(w, "forget") /\ SYNC_LOCK' = SYNC_LOCK
      /\ button' = button /\ Unchanged
  BY DEF store_delete_fails, At, Unchanged, registryVars, dialogVars, staticVars,
         historyVars, Inside, ThreadStates
<1> QED BY <1>1, GotoStep

LEMMA ForgetStep ==
  ASSUME IInv, NEW w \in Workers, ForgetCredentials(w) PROVE IInv'
<1>0. Typed BY DEF IInv, SessionInv
<1>1. /\ th[w].pc = "forget" /\ Goto(w, "unmark") /\ SYNC_LOCK' = SYNC_LOCK
      /\ account' = None /\ owed' = FALSE
      /\ local' = local /\ pending' = pending /\ cloud' = cloud /\ ui' = ui
      /\ controls' = controls /\ button' = button
      /\ unsent' = unsent
  BY DEF ForgetCredentials, At, dialogVars
<1>2. STORE_CACHE' \in [version : 0..MaxVersion, doc : Docs] \cup {None}
      /\ account' \in Accounts \cup {None}
  BY <1>1, Zenon DEF ForgetCredentials, clear_cache
<1>3. "unmark" \in ThreadStates /\ "unmark" \notin WithToken /\ th[w].pc \in Inside
  BY <1>1 DEF Inside, ThreadStates, WithToken
<1>4. th' \in [Workers -> Threads] /\ Keeps(w) /\ SameThread(w) /\ th'[w].pc = "unmark"
  BY <1>0, <1>1, <1>3, GotoShape
<1>5. Typed' BY <1>0, <1>1, <1>2, <1>4 DEF Typed
<1>6. SessionInv'
  BY <1>1, <1>3, <1>4, <1>5, SessionSwitch DEF IInv
<1>7. ASSUME Patient PROVE PatientInv'
  BY <1>1, <1>4, <1>7, PatientMove DEF IInv, SameThread
<1> QED BY <1>6, <1>7 DEF IInv

LEMMA UnmarkStep ==
  ASSUME IInv, NEW w \in Workers, ForgetMarker(w) PROVE IInv'
<1>0. Typed BY DEF IInv, SessionInv
<1>1. /\ th[w].pc = "unmark" /\ Return(w, TRUE) /\ pending' = FALSE
      /\ local' = local /\ account' = account /\ cloud' = cloud /\ ui' = ui
      /\ controls' = controls /\ STORE_CACHE' = STORE_CACHE
      /\ unsent' = unsent /\ owed' = owed
  BY DEF ForgetMarker, At, clear_push_pending, historyVars
<1>2. th' \in [Workers -> Threads] /\ button' \in BOOLEAN /\ Leaves(w, TRUE)
  BY <1>0, <1>1, ReturnLeaves
<1>3. SYNC_LOCK' = None BY <1>2 DEF Leaves
<1>4. Typed' BY <1>0, <1>1, <1>2, <1>3 DEF Typed
<1>5. ~owed'
  BY <1>1 DEF IInv, SessionInv, UnmarkSignedOut, OwedSignedIn
<1>6. th[w].pc \in Inside BY <1>1 DEF Inside, ThreadStates
<1> QED BY <1>1, <1>2, <1>4, <1>5, <1>6, LeaveStep

LEMMA FinishStep ==
  ASSUME IInv, NEW w \in Workers, finish_push_worker(w) PROVE IInv'
<1>0. Typed BY DEF IInv, SessionInv
<1>1. /\ th[w].pc = "finish" /\ th' = [th EXCEPT ![w] = IdleThread]
      /\ SYNC_LOCK' = SYNC_LOCK
      /\ local' = local /\ account' = account /\ cloud' = cloud /\ ui' = ui
      /\ controls' = controls /\ STORE_CACHE' = STORE_CACHE
      /\ unsent' = unsent /\ owed' = owed
  BY DEF finish_push_worker, historyVars
<1>2. pending' \in BOOLEAN /\ button' \in BOOLEAN /\ (~th[w].ok => pending' = pending)
  BY <1>0 DEF finish_push_worker, clear_push_pending, Typed
<1>3. th' \in [Workers -> Threads] /\ th'[w] = IdleThread /\ Keeps(w)
  BY <1>0, <1>1, IdleTyped, Put
<1>4. th'[w].pc = "idle" BY <1>3 DEF IdleThread
<1>5. Typed' BY <1>0, <1>1, <1>2, <1>3 DEF Typed
<1>6. StartOrStay BY <1>3, <1>4 DEF StartOrStay, Keeps
<1>7. SessionInv'
  BY <1>1, <1>5, <1>6, SessionOutside DEF IInv, SessionInv, OwedSignedIn
<1>8. ASSUME Patient PROVE PatientInv'
  <2>1. th[w].ok => ~owed'
    BY <1>1, <1>8 DEF IInv, PatientInv, DoneNotOwed
  <2>2. owed' => (pending => pending') BY <1>2, <2>1
  <2> QED BY <1>1, <1>3, <1>4, <1>8, <2>2, PatientMove DEF IInv
<1> QED BY <1>7, <1>8 DEF IInv

LEMMA OtherStep ==
  ASSUME IInv, NEW a \in Accounts, NEW k \in Keys, NEW v \in Vals, OtherDevice(a, k, v)
  PROVE  IInv'
<1>0. Typed BY DEF IInv, SessionInv
<1>1. /\ cloud[a] \in [version : 0..MaxVersion, doc : Docs]
      /\ cloud[a].version \in 0..MaxVersion /\ cloud[a].doc \in Docs
  BY <1>0 DEF Typed
<1>2. cloud[a].version + 1 \in 0..MaxVersion
  BY <1>1, SyncAssumption DEF OtherDevice
<1> DEFINE d == [cloud[a].doc EXCEPT ![k] = v]
<1>3. d \in Docs BY <1>1 DEF Docs
<1>4. cloud' = [cloud EXCEPT ![a].version = @ + 1, ![a].doc = d]
  BY DEF OtherDevice
<1> HIDE DEF d
<1>5. [cloud[a] EXCEPT !.version = @ + 1, !.doc = d]
        \in [version : 0..MaxVersion, doc : Docs]
  BY <1>1, <1>2, <1>3
<1>6. cloud' \in [Accounts -> [version : 0..MaxVersion, doc : Docs]]
  BY <1>0, <1>4, <1>5 DEF Typed
<1>7. Typed'
  BY <1>0, <1>6 DEF OtherDevice, Typed, registryVars, dialogVars, staticVars, historyVars
<1>8. ui' \in Saving => (Patient => AllIdle)
  BY DEF OtherDevice, dialogVars, IInv, PatientInv, QuietSave
<1> QED BY <1>7, <1>8, QuietStep
      DEF OtherDevice, registryVars, dialogVars, staticVars, historyVars

-----------------------------------------------------------------------------
(* The theorems. *)

LEMMA InitInv == Init => IInv
<1> SUFFICES ASSUME Init PROVE IInv OBVIOUS
<1>1. Typed BY InitTyped
<1>2. \A w \in Workers : th[w].pc = "idle"
  BY DEF Init, IdleThread
<1>3. SessionInv
  BY <1>1, <1>2 DEF Init, SessionInv, LockHeld, TokenIsAccount, UnmarkSignedOut,
     OwedSignedIn, Inside, WithToken
<1>4. PatientInv
  BY <1>2 DEF Init, PatientInv, QuietSave, AllIdle, FreshSnapshot, DoneNotOwed,
     ConnectNotOwed, ReadNotOwed, OwedMarked
<1> QED BY <1>3, <1>4 DEF IInv

LEMMA NextInv == IInv /\ [Next]_vars => IInv'
<1> SUFFICES ASSUME IInv, [Next]_vars PROVE IInv' OBVIOUS
<1>1. CASE UNCHANGED vars
  <2>1. Typed' BY <1>1 DEF IInv, SessionInv, Typed, vars
  <2>2. ui' \in Saving => (Patient => AllIdle)
    BY <1>1 DEF IInv, PatientInv, QuietSave, vars
  <2> QED BY <1>1, <2>1, <2>2, QuietStep DEF vars
<1>2. CASE DialogStep
  BY <1>2, OpenStep, ApplyStep, CheckStep, MarkStep, CloseStep, EndStep, EditStep,
     SpawnPushStep, ClickStep, FlushStep DEF DialogStep
<1>3. ASSUME NEW w \in Workers, ThreadStep(w) PROVE IInv'
  <2>1. CASE Begin(w) BY <2>1, BeginStep
  <2>2. CASE finish_push_worker(w) BY <2>2, FinishStep
  <2>3. CASE LockedStep(w)
    BY <2>3, TokenStep, TokenFailsStep, LoginStep, LoginFailsStep, ReadStep,
       BaseStep, GetStep, GetFailsStep, ApplyRemoteStep, PostOkStep, PostLostStep,
       PostReplyLostStep, PostConflictStep, PostThrottledStep, PostRefusedStep,
       DeleteStep, DeleteFailsStep, ForgetStep, UnmarkStep DEF LockedStep
  <2> QED BY <1>3, <2>1, <2>2, <2>3 DEF ThreadStep
<1>4. CASE \E a \in Accounts, k \in Keys, v \in Vals : OtherDevice(a, k, v)
  BY <1>4, OtherStep
<1> QED BY <1>1, <1>2, <1>3, <1>4 DEF Next

\* SessionInv always holds, and PatientInv when the user is patient.
THEOREM InductiveInvariant == Spec => []IInv
<1> QED BY InitInv, NextInv, PTL DEF Spec

\* A Save the cloud has not accepted keeps its marker, for any network, any
\* other devices and any crashes, when the user saves only while no sync thread
\* is alive (spawn_sync_push, finish_push_worker, pull_on_open).
THEOREM MarkerCoversOwedAlways ==
  ASSUME Patient
  PROVE  Spec => []MarkerCoversOwed
<1>1. IInv => MarkerCoversOwed
  BY DEF IInv, PatientInv, OwedMarked, MarkerCoversOwed
<1> QED BY <1>1, InductiveInvariant, PTL

LEMMA WritesStep ==
  ASSUME IInv, [Next]_vars, NEW a \in Accounts, cloud'[a] # cloud[a], th' # th
  PROVE  account = a
<1>1. ASSUME NEW w \in Workers, th[w].pc \in {"post", "delete"},
             \A b \in Accounts \ {th[w].token} : cloud'[b] = cloud[b]
      PROVE  account = a
  BY <1>1 DEF IInv, SessionInv, TokenIsAccount, WithToken
<1>2. cloud' # cloud OBVIOUS
<1>3. ASSUME NEW w \in Workers, PostOk(w) \/ PostReplyLost(w) PROVE account = a
  <2>1. th[w].pc = "post" /\ Accepts(w)
    BY <1>3 DEF PostOk, PostReplyLost, At
  <2>2. cloud \in [Accounts -> [version : 0..MaxVersion, doc : Docs]]
    BY DEF IInv, SessionInv, Typed
  <2>3. \A b \in Accounts \ {th[w].token} : cloud'[b] = cloud[b]
    BY <2>1, <2>2 DEF Accepts
  <2> QED BY <1>1, <2>1, <2>3
<1>4. ASSUME NEW w \in Workers, store_delete(w) PROVE account = a
  <2>1. th[w].pc = "delete"
    BY <1>4 DEF store_delete, At
  <2>2. \A b \in Accounts \ {th[w].token} : cloud'[b] = cloud[b]
    BY <1>4 DEF store_delete, IInv, SessionInv, Typed
  <2> QED BY <1>1, <2>1, <2>2
<1>5. ~UNCHANGED vars BY <1>2 DEF vars
<1>6. ~DialogStep
  BY <1>2 DEF DialogStep, OpenSettings, apply_settings, CheckSignedIn,
     mark_push_pending, CloseSettings, ProcessEnds, EditControl, SpawnPush,
     on_sync_click, flush_pending
<1>7. ~\E b \in Accounts, k \in Keys, v \in Vals : OtherDevice(b, k, v)
  BY DEF OtherDevice
<1>8. ASSUME NEW w \in Workers, ThreadStep(w) PROVE account = a
  <2>1. ~Begin(w) /\ ~finish_push_worker(w)
    BY <1>2 DEF Begin, finish_push_worker
  <2>2. ~access_token(w) /\ ~access_token_fails(w) /\ ~login_fails(w)
        /\ ~\E b \in Accounts : login(w, b)
    BY <1>2 DEF access_token, access_token_fails, login, login_fails
  <2>3. /\ ~read_local(w) /\ ~GetBase(w) /\ ~store_get(w) /\ ~store_get_fails(w)
        /\ ~apply_remote(w)
    BY <1>2 DEF read_local, GetBase, store_get, store_get_fails, apply_remote
  <2>4. ~PostLost(w) /\ ~PostConflict(w) /\ ~PostThrottled(w) /\ ~PostRefused(w)
    BY <1>2 DEF PostLost, PostConflict, PostThrottled, PostRefused
  <2>5. ~store_delete_fails(w) /\ ~ForgetCredentials(w) /\ ~ForgetMarker(w)
    BY <1>2 DEF store_delete_fails, ForgetCredentials, ForgetMarker
  <2> QED BY <1>3, <1>4, <1>8, <2>1, <2>2, <2>3, <2>4, <2>5 DEF ThreadStep, LockedStep
<1> QED BY <1>5, <1>6, <1>7, <1>8 DEF Next

\* A sync thread touches an account's document only while that account is
\* signed in: SYNC_LOCK is held from before the token is read, so disconnect
\* and a new sign-in wait for the push, or the push finds no token.
THEOREM WritesOnlyWhileSignedInAlways == Spec => WritesOnlyWhileSignedIn
<1>1. IInv /\ [Next]_vars
        => \A a \in Accounts : cloud'[a] # cloud[a] /\ th' # th => account = a
  BY WritesStep
<1>2. IInv /\ [Next]_vars
        => [\A a \in Accounts : cloud'[a] # cloud[a] /\ th' # th => account = a]_vars
  BY <1>1
<1> QED BY <1>2, InductiveInvariant, PTL DEF Spec, WritesOnlyWhileSignedIn

LEMMA SparesStep ==
  ASSUME IInv, Patient, [Next]_vars, local' # local, ui' = ui
  PROVE  ~owed
<1>1. ASSUME NEW w \in Workers, apply_remote(w) PROVE ~owed
  BY <1>1 DEF apply_remote, At, IInv, PatientInv, ReadNotOwed
<1>2. ~UNCHANGED vars BY DEF vars
<1>3. ~DialogStep
  BY DEF DialogStep, OpenSettings, apply_settings, CheckSignedIn,
     mark_push_pending, CloseSettings, ProcessEnds, EditControl, SpawnPush,
     on_sync_click, flush_pending, registryVars
<1>4. ~\E b \in Accounts, k \in Keys, v \in Vals : OtherDevice(b, k, v)
  BY DEF OtherDevice, registryVars
<1>5. ASSUME NEW w \in Workers, ThreadStep(w) PROVE ~owed
  <2>1. ~Begin(w) /\ ~finish_push_worker(w)
    BY DEF Begin, finish_push_worker, registryVars
  <2>2. ~access_token(w) /\ ~access_token_fails(w) /\ ~login_fails(w)
        /\ ~\E b \in Accounts : login(w, b)
    BY DEF access_token, access_token_fails, login, login_fails, registryVars
  <2>3. ~read_local(w) /\ ~GetBase(w) /\ ~store_get(w) /\ ~store_get_fails(w)
    BY DEF read_local, GetBase, store_get, store_get_fails, registryVars
  <2>4. /\ ~PostOk(w) /\ ~PostLost(w) /\ ~PostReplyLost(w) /\ ~PostConflict(w)
        /\ ~PostThrottled(w) /\ ~PostRefused(w)
    BY DEF PostOk, PostLost, PostReplyLost, PostConflict, PostThrottled, PostRefused,
       registryVars
  <2>5. /\ ~store_delete(w) /\ ~store_delete_fails(w) /\ ~ForgetCredentials(w)
        /\ ~ForgetMarker(w)
    BY DEF store_delete, store_delete_fails, ForgetCredentials, ForgetMarker,
       registryVars
  <2> QED BY <1>1, <1>5, <2>1, <2>2, <2>3, <2>4, <2>5 DEF ThreadStep, LockedStep
<1> QED BY <1>2, <1>3, <1>4, <1>5 DEF Next

\* No pull or sign-in replaces a saved value that is still owed to the cloud,
\* when the user saves only while no sync thread is alive.
THEOREM PullSparesOwedAlways ==
  ASSUME Patient
  PROVE  Spec => PullSparesOwed
<1>1. IInv /\ [Next]_vars => (local' # local /\ ui' = ui => ~owed)
  BY SparesStep
<1>2. IInv /\ [Next]_vars => [local' # local /\ ui' = ui => ~owed]_vars
  BY <1>1
<1> QED BY <1>2, InductiveInvariant, PTL DEF Spec, PullSparesOwed

-----------------------------------------------------------------------------
(***************************************************************************)
(* STORE_CACHE of SettingsSync, for any accounts, threads and versions: a  *)
(* conditional GET that answers "not modified" hands out the cached        *)
(* document, so what a pull applies is the document of its account.        *)
(*                                                                         *)
(* CacheInv: what is cached is a version of the document of the account    *)
(* that is signed in, and the newest one if the versions are equal.  It    *)
(* fails between the deletion of a document, which takes its version back  *)
(* to zero, and the moment disconnect clears the cache; and it need not    *)
(* hold of the account that connect is about to sign in to, for which the  *)
(* cache must be empty.  In both places SYNC_LOCK keeps every reader out.  *)
(***************************************************************************)
Clearing == \E w \in Workers : th[w].pc = "forget"
CacheIsTrue ==
  STORE_CACHE # None /\ ~Clearing =>
    /\ account # None
    /\ STORE_CACHE.version <= cloud[account].version
    /\ STORE_CACHE.version = cloud[account].version => STORE_CACHE = cloud[account]
LoginForgot == \A w \in Workers : th[w].pc = "login" => STORE_CACHE = None
CacheInv == CacheIsTrue /\ LoginForgot

\* what PullReadsTheAccount says of one step
ReadsTrue ==
  \A w \in Workers :
    th[w].pc = "get" /\ th'[w].pc = "apply" => th'[w].got = cloud[th[w].token].doc

Still == STORE_CACHE' = STORE_CACHE /\ account' = account /\ cloud' = cloud

-----------------------------------------------------------------------------
(* The ways a step can keep the cache. *)

\* whoever is inside an operation is alone there
LEMMA AloneInside ==
  ASSUME SessionInv, NEW w \in Workers, th[w].pc \in Inside
  PROVE  \A v \in Workers \ {w} : th[v].pc \notin Inside
  BY DEF SessionInv, LockHeld

LEMMA PlacesInside ==
  WithToken \subseteq Inside /\ {"login", "forget"} \subseteq Inside
  BY DEF Inside, WithToken, ThreadStates

\* no thread enters the sign-in, leaves the deletion, or ends a read
LEMMA CacheKept ==
  ASSUME CacheInv, Still,
         \A v \in Workers : /\ th'[v].pc = "login" => th[v].pc = "login"
                            /\ th[v].pc = "forget" => th'[v].pc = "forget"
                            /\ th'[v].pc = "apply" => th[v].pc # "get"
  PROVE  CacheInv' /\ ReadsTrue
  BY DEF CacheInv, CacheIsTrue, LoginForgot, Clearing, ReadsTrue, Still

\* one thread moves and does not touch the cache
LEMMA CacheMove ==
  ASSUME CacheInv, Still, NEW w \in Workers, Keeps(w),
         th[w].pc # "forget", th'[w].pc \notin {"login", "apply"}
  PROVE  CacheInv' /\ ReadsTrue
<1>1. \A v \in Workers : /\ th'[v].pc = "login" => th[v].pc = "login"
                         /\ th[v].pc = "forget" => th'[v].pc = "forget"
                         /\ th'[v].pc = "apply" => th[v].pc # "get"
  BY DEF Keeps
<1> QED BY <1>1, CacheKept

\* one thread moves and the cache is empty afterwards
LEMMA CacheEmptied ==
  ASSUME STORE_CACHE' = None, NEW w \in Workers, Keeps(w),
         th[w].pc = "get" => th'[w].pc # "apply"
  PROVE  CacheInv' /\ ReadsTrue
  BY DEF CacheInv, CacheIsTrue, LoginForgot, ReadsTrue, Keeps

\* a conditional GET hands out the account's document
LEMMA AnswerTrue ==
  ASSUME IInv, CacheInv, NEW w \in Workers, th[w].pc \in {"base", "post", "get"}
  PROVE  /\ account # None /\ th[w].token = account /\ ~Clearing
         /\ Answer(w) = cloud[account]
<1>1. account # None /\ th[w].token = account
  BY DEF IInv, SessionInv, TokenIsAccount, WithToken
<1>2. ~Clearing
  BY AloneInside, PlacesInside DEF IInv, Clearing, WithToken
<1> QED BY <1>1, <1>2 DEF CacheInv, CacheIsTrue, Answer

\* and what it hands out is cached
LEMMA CacheFilled ==
  ASSUME IInv, NEW w \in Workers, Keeps(w), th[w].pc \in {"base", "post", "get"},
         th'[w].pc # "login",
         account # None, STORE_CACHE' = cloud[account], cloud' = cloud, account' = account
  PROVE  CacheInv'
<1>1. cloud[account].version \in Nat
  BY SyncAssumption DEF IInv, SessionInv, Typed
<1>2. CacheIsTrue' BY <1>1 DEF CacheIsTrue
<1>3. LoginForgot'
  BY AloneInside, PlacesInside DEF IInv, LoginForgot, Keeps, WithToken
<1> QED BY <1>2, <1>3 DEF CacheInv

-----------------------------------------------------------------------------
(* The steps of a thread. *)

\* an operation returns
LEMMA CacheReturn ==
  ASSUME IInv, CacheInv, Still, NEW w \in Workers, NEW b \in BOOLEAN, Return(w, b),
         th[w].pc # "forget"
  PROVE  CacheInv' /\ ReadsTrue
<1>1. Keeps(w) /\ th'[w].pc \in {"idle", "finish"}
  BY ReturnLeaves DEF IInv, SessionInv, Leaves
<1> QED BY <1>1, CacheMove

\* a thread goes to its next step
LEMMA CacheGoto ==
  ASSUME IInv, CacheInv, Still, NEW w \in Workers, NEW p \in ThreadStates, Goto(w, p),
         th[w].pc # "forget", p \notin {"login", "apply"}
  PROVE  CacheInv' /\ ReadsTrue
<1>1. Keeps(w) /\ th'[w].pc = p
  BY GotoShape DEF IInv, SessionInv
<1> QED BY <1>1, CacheMove

LEMMA CacheBegin ==
  ASSUME IInv, CacheInv, NEW w \in Workers, Begin(w)
  PROVE  CacheInv' /\ ReadsTrue
<1>1. th[w].pc = "lock" /\ account' = account /\ cloud' = cloud
  BY DEF Begin, At, registryVars
<1>2. CASE th[w].op = "connect"
  <2>1. STORE_CACHE' = None /\ Goto(w, "login") BY <1>2 DEF Begin, clear_cache
  <2>2. Keeps(w)
    BY <2>1, GotoShape DEF IInv, SessionInv, ThreadStates
  <2> QED BY <1>1, <2>1, <2>2, CacheEmptied
<1>3. CASE th[w].op # "connect"
  <2>1. STORE_CACHE' = STORE_CACHE /\ Goto(w, "token") BY <1>3 DEF Begin
  <2> QED BY <1>1, <2>1, CacheGoto DEF Still, ThreadStates
<1> QED BY <1>2, <1>3

LEMMA CacheToken ==
  ASSUME IInv, CacheInv, NEW w \in Workers, access_token(w)
  PROVE  CacheInv' /\ ReadsTrue
<1> DEFINE p == AfterToken(w)
           r == [th[w] EXCEPT !.token = account]
           q == [r EXCEPT !.pc = p]
<1>1. th[w].pc = "token" /\ account # None /\ th' = [th EXCEPT ![w] = q] /\ Still
  BY DEF access_token, At, Still, registryVars, staticVars
<1>2. p \in {"snapshot", "get", "delete"} BY DEF AfterToken
<1> HIDE DEF p
<1>3. Typed /\ th[w] \in Threads /\ account \in Accounts /\ p \in ThreadStates
  BY <1>1, <1>2 DEF IInv, SessionInv, Typed, ThreadStates
<1>4. r \in Threads BY <1>3, SetToken
<1> HIDE DEF r
<1>5. q \in Threads /\ q.pc = p BY <1>3, <1>4, SetPc
<1> HIDE DEF q
<1>6. Keeps(w) /\ th'[w].pc = p BY <1>1, <1>3, <1>5, Put
<1> QED BY <1>1, <1>2, <1>6, CacheMove

LEMMA CacheTokenFails ==
  ASSUME IInv, CacheInv, NEW w \in Workers, access_token_fails(w)
  PROVE  CacheInv' /\ ReadsTrue
<1>1. th[w].pc = "token" /\ Still
  BY DEF access_token_fails, At, Still, registryVars
<1>2. CASE Goto(w, "forget")
  BY <1>1, <1>2, CacheGoto DEF ThreadStates
<1>3. CASE Return(w, FALSE)
  BY <1>1, <1>3, CacheReturn
<1> QED BY <1>2, <1>3 DEF access_token_fails

LEMMA CacheLogin ==
  ASSUME IInv, CacheInv, NEW w \in Workers, NEW a \in Accounts, login(w, a)
  PROVE  CacheInv' /\ ReadsTrue
<1> DEFINE r == [th[w] EXCEPT !.token = a]
           q == [r EXCEPT !.pc = "get"]
<1>1. th[w].pc = "login" /\ th' = [th EXCEPT ![w] = q] /\ STORE_CACHE' = STORE_CACHE
  BY DEF login, At, staticVars
<1>2. STORE_CACHE' = None BY <1>1 DEF CacheInv, LoginForgot
<1>3. Typed /\ th[w] \in Threads /\ "get" \in ThreadStates
  BY DEF IInv, SessionInv, Typed, ThreadStates
<1>4. r \in Threads BY <1>3, SetToken
<1> HIDE DEF r
<1>5. q \in Threads BY <1>3, <1>4, SetPc
<1> HIDE DEF q
<1>6. Keeps(w) BY <1>1, <1>3, <1>5, Put
<1> QED BY <1>1, <1>2, <1>6, CacheEmptied

LEMMA CacheRead ==
  ASSUME IInv, CacheInv, NEW w \in Workers, read_local(w)
  PROVE  CacheInv' /\ ReadsTrue
<1>1. th[w].pc = "snapshot" /\ Still
  BY DEF read_local, At, Still, registryVars, staticVars
<1>2. th[w] \in Threads /\ th \in [Workers -> Threads]
  BY DEF IInv, SessionInv, Typed
<1>3. Keeps(w) BY <1>2 DEF read_local, Keeps
<1>4. th'[w].pc = "base" BY <1>2 DEF read_local, Threads
<1> QED BY <1>1, <1>3, <1>4, CacheMove

LEMMA CacheBase ==
  ASSUME IInv, CacheInv, NEW w \in Workers, GetBase(w)
  PROVE  CacheInv' /\ ReadsTrue
<1>1. /\ th[w].pc = "base" /\ STORE_CACHE' = Answer(w) /\ cloud' = cloud
      /\ account' = account
  BY DEF GetBase, At, registryVars
<1>2. th[w] \in Threads /\ th \in [Workers -> Threads]
  BY DEF IInv, SessionInv, Typed
<1>3. Keeps(w) BY <1>2 DEF GetBase, Keeps
<1>4. th'[w].pc = "post" BY <1>2 DEF GetBase, Threads
<1>5. account # None /\ Answer(w) = cloud[account] BY <1>1, AnswerTrue
<1>6. CacheInv' BY <1>1, <1>3, <1>4, <1>5, CacheFilled
<1> QED BY <1>1, <1>3, <1>6 DEF ReadsTrue, Keeps

LEMMA CacheGet ==
  ASSUME IInv, CacheInv, NEW w \in Workers, store_get(w)
  PROVE  CacheInv' /\ ReadsTrue
<1>1. /\ th[w].pc = "get" /\ STORE_CACHE' = Answer(w) /\ cloud' = cloud
      /\ account' = account
  BY DEF store_get, At, registryVars
<1>2. th[w] \in Threads /\ th \in [Workers -> Threads]
  BY DEF IInv, SessionInv, Typed
<1>3. account # None /\ th[w].token = account /\ Answer(w) = cloud[account]
  BY <1>1, AnswerTrue
<1>4. Keeps(w) BY <1>2 DEF store_get, Keeps
<1>5. CASE Answer(w).version > 0
  <2>1. th' = [th EXCEPT ![w].got = Answer(w).doc, ![w].pc = "apply"]
    BY <1>5 DEF store_get
  <2>2. th'[w].got = Answer(w).doc /\ th'[w].pc = "apply"
    BY <1>2, <2>1 DEF Threads
  <2>3. CacheInv' BY <1>1, <1>3, <1>4, <2>2, CacheFilled
  <2> QED BY <1>3, <1>4, <2>2, <2>3 DEF ReadsTrue, Keeps
<1>6. CASE ~(Answer(w).version > 0)
  <2>1. th' = [th EXCEPT ![w].seeding = TRUE, ![w].pc = "snapshot"]
    BY <1>6 DEF store_get
  <2>2. th'[w].pc = "snapshot" BY <1>2, <2>1 DEF Threads
  <2>3. CacheInv' BY <1>1, <1>3, <1>4, <2>2, CacheFilled
  <2> QED BY <1>4, <2>2, <2>3 DEF ReadsTrue, Keeps
<1> QED BY <1>5, <1>6

LEMMA CacheGetFails ==
  ASSUME IInv, CacheInv, NEW w \in Workers, store_get_fails(w)
  PROVE  CacheInv' /\ ReadsTrue
<1>1. th[w].pc # "forget" /\ Still /\ Return(w, FALSE)
  BY DEF store_get_fails, At, Still, registryVars
<1> QED BY <1>1, CacheReturn

LEMMA CacheApply ==
  ASSUME IInv, CacheInv, NEW w \in Workers, apply_remote(w)
  PROVE  CacheInv' /\ ReadsTrue
<1>1. th[w].pc # "forget" /\ Still /\ Return(w, TRUE)
  BY DEF apply_remote, At, Still
<1> QED BY <1>1, CacheReturn

\* the loop of push_snapshot goes round, or is given up
LEMMA CacheLoop ==
  ASSUME IInv, CacheInv, Still, NEW w \in Workers, th[w].pc = "post",
         Loops(w) \/ Return(w, FALSE)
  PROVE  CacheInv' /\ ReadsTrue
<1>1. CASE Loops(w) BY <1>1, CacheMove DEF Loops
<1>2. CASE Return(w, FALSE) BY <1>2, CacheReturn
<1> QED BY <1>1, <1>2

LEMMA CachePostOk ==
  ASSUME IInv, CacheInv, NEW w \in Workers, PostOk(w)
  PROVE  CacheInv' /\ ReadsTrue
<1>1. th[w].pc = "post" /\ STORE_CACHE' = None /\ (Goto(w, "get") \/ Return(w, TRUE))
  BY DEF PostOk, At, clear_cache
<1>2. Keeps(w)
  BY <1>1, GotoShape, ReturnLeaves DEF IInv, SessionInv, Leaves, ThreadStates
<1> QED BY <1>1, <1>2, CacheEmptied

\* the account's document has a newer version than the cached one
LEMMA CacheBehind ==
  ASSUME IInv, CacheInv, NEW a \in Accounts, STORE_CACHE' = STORE_CACHE,
         account' = account,
         cloud'[a].version = cloud[a].version + 1,
         \A b \in Accounts \ {a} : cloud'[b] = cloud[b],
         Clearing => Clearing'
  PROVE  CacheIsTrue'
<1>1. SUFFICES ASSUME STORE_CACHE' # None, ~Clearing'
               PROVE  /\ account' # None
                      /\ STORE_CACHE'.version <= cloud'[account'].version
                      /\ STORE_CACHE'.version = cloud'[account'].version
                           => STORE_CACHE' = cloud'[account']
  BY DEF CacheIsTrue
<1>2. /\ account # None /\ STORE_CACHE.version <= cloud[account].version
      /\ STORE_CACHE.version = cloud[account].version => STORE_CACHE = cloud[account]
  BY <1>1 DEF CacheInv, CacheIsTrue
<1>3. account \in Accounts /\ STORE_CACHE \in [version : 0..MaxVersion, doc : Docs]
  BY <1>1, <1>2 DEF IInv, SessionInv, Typed
<1>4. STORE_CACHE.version \in Nat /\ cloud[account].version \in Nat
  BY <1>3, SyncAssumption DEF IInv, SessionInv, Typed
<1>5. CASE account = a BY <1>2, <1>4, <1>5
<1>6. CASE account # a BY <1>2, <1>3, <1>6
<1> QED BY <1>5, <1>6

LEMMA CacheReplyLost ==
  ASSUME IInv, CacheInv, NEW w \in Workers, PostReplyLost(w)
  PROVE  CacheInv' /\ ReadsTrue
<1>0. Typed BY DEF IInv, SessionInv
<1>1. /\ th[w].pc = "post" /\ Accepts(w) /\ Retry(w) /\ STORE_CACHE' = STORE_CACHE
      /\ account' = account
  BY DEF PostReplyLost, At, registryVars
<1>2. Loops(w) \/ Return(w, FALSE) BY <1>0, <1>1, RetryShape
<1>3. Keeps(w) /\ th'[w].pc \in {"post", "idle", "finish"}
  <2>1. CASE Loops(w) BY <2>1 DEF Loops
  <2>2. CASE Return(w, FALSE) BY <1>0, <2>2, ReturnLeaves DEF Leaves
  <2> QED BY <1>2, <2>1, <2>2
<1>4. th[w].token \in Accounts BY <1>1, TokenTyped DEF IInv, WithToken
<1>5. /\ cloud'[th[w].token].version = cloud[th[w].token].version + 1
      /\ \A b \in Accounts \ {th[w].token} : cloud'[b] = cloud[b]
  BY <1>0, <1>1, <1>4 DEF Accepts, Typed
<1>6. Clearing => Clearing' BY <1>1, <1>3 DEF Clearing, Keeps
<1>7. CacheIsTrue' BY <1>1, <1>4, <1>5, <1>6, CacheBehind
<1>8. LoginForgot' /\ ReadsTrue
  BY <1>1, <1>3 DEF CacheInv, LoginForgot, ReadsTrue, Keeps
<1> QED BY <1>7, <1>8 DEF CacheInv

LEMMA CachePostFails ==
  ASSUME IInv, CacheInv, NEW w \in Workers,
         PostLost(w) \/ PostConflict(w) \/ PostThrottled(w) \/ PostRefused(w)
  PROVE  CacheInv' /\ ReadsTrue
<1>0. Typed /\ th \in [Workers -> Threads] /\ th[w] \in Threads
  BY DEF IInv, SessionInv, Typed
<1>1. th[w].pc = "post" /\ account' = account /\ cloud' = cloud
  BY DEF PostLost, PostConflict, PostThrottled, PostRefused, At, registryVars
<1>2. CASE PostLost(w)
  <2>1. Loops(w) \/ Return(w, FALSE) BY <1>0, <1>1, <1>2, RetryShape DEF PostLost
  <2>2. Still BY <1>1, <1>2 DEF Still, PostLost
  <2> QED BY <1>1, <2>1, <2>2, CacheLoop
<1>3. CASE Return(w, FALSE) /\ Still BY <1>1, <1>3, CacheLoop
<1>4. CASE PostConflict(w) /\ ~(Return(w, FALSE) /\ Still)
  <2>1. PICK b \in {cloud[th[w].token].version, th[w].base} :
          /\ th' = [th EXCEPT ![w].conflicts = @ + 1, ![w].base = b]
          /\ STORE_CACHE' = STORE_CACHE \/ STORE_CACHE' = Answer(w)
    BY <1>1, <1>4 DEF PostConflict, Still
  <2>2. Keeps(w) BY <1>0, <2>1 DEF Keeps
  <2>3. th'[w].pc = th[w].pc BY <1>0, <2>1 DEF Threads
  <2>4. CASE STORE_CACHE' = STORE_CACHE BY <1>1, <2>2, <2>3, <2>4, CacheMove DEF Still
  <2>5. CASE STORE_CACHE' = Answer(w)
    <3>1. account # None /\ Answer(w) = cloud[account] BY <1>1, AnswerTrue
    <3>2. CacheInv' BY <1>1, <2>2, <2>3, <2>5, <3>1, CacheFilled
    <3> QED BY <1>1, <2>2, <3>2 DEF ReadsTrue, Keeps
  <2> QED BY <2>1, <2>4, <2>5
<1>5. CASE PostThrottled(w) /\ ~(Return(w, FALSE) /\ Still)
  <2>1. th' = [th EXCEPT ![w].throttled = TRUE] BY <1>1, <1>5 DEF PostThrottled, Still
  <2>2. Keeps(w) BY <1>0, <2>1 DEF Keeps
  <2>3. th'[w].pc = th[w].pc BY <1>0, <2>1 DEF Threads
  <2>4. Still BY <1>1, <1>5 DEF Still, PostThrottled
  <2> QED BY <1>1, <2>2, <2>3, <2>4, CacheMove
<1>6. PostRefused(w) => Return(w, FALSE) /\ Still BY <1>1 DEF PostRefused, Still
<1> QED BY <1>2, <1>3, <1>4, <1>5, <1>6

LEMMA CacheDelete ==
  ASSUME IInv, CacheInv, NEW w \in Workers, store_delete(w) \/ store_delete_fails(w)
  PROVE  CacheInv' /\ ReadsTrue
<1>1. th[w].pc = "delete" /\ Goto(w, "forget")
      /\ (STORE_CACHE' = None \/ STORE_CACHE' = STORE_CACHE)
  BY DEF store_delete, store_delete_fails, At, clear_cache, staticVars
<1>2. Keeps(w) /\ th'[w].pc = "forget"
  BY <1>1, GotoShape DEF IInv, SessionInv, ThreadStates
<1>3. Clearing' BY <1>2 DEF Clearing
<1> QED BY <1>1, <1>2, <1>3 DEF CacheInv, CacheIsTrue, LoginForgot, ReadsTrue, Keeps

LEMMA CacheForget ==
  ASSUME IInv, CacheInv, NEW w \in Workers, ForgetCredentials(w)
  PROVE  CacheInv' /\ ReadsTrue
<1>1. th[w].pc = "forget" /\ STORE_CACHE' = None /\ Goto(w, "unmark")
  BY DEF ForgetCredentials, At, clear_cache
<1>2. Keeps(w) BY <1>1, GotoShape DEF IInv, SessionInv, ThreadStates
<1> QED BY <1>1, <1>2, CacheEmptied

LEMMA CacheReturns ==
  ASSUME IInv, CacheInv, NEW w \in Workers, ForgetMarker(w) \/ login_fails(w)
  PROVE  CacheInv' /\ ReadsTrue
<1>1. Still /\ (Return(w, TRUE) \/ Return(w, FALSE)) /\ th[w].pc # "forget"
  BY DEF ForgetMarker, login_fails, At, Still, registryVars
<1> QED BY <1>1, CacheReturn

LEMMA CacheFinish ==
  ASSUME IInv, CacheInv, NEW w \in Workers, finish_push_worker(w)
  PROVE  CacheInv' /\ ReadsTrue
<1>1. th[w].pc = "finish" /\ Still /\ th' = [th EXCEPT ![w] = IdleThread]
  BY DEF finish_push_worker, Still
<1>2. IdleThread.pc = "idle" BY DEF IdleThread
<1>3. Keeps(w) /\ th'[w] = IdleThread
  BY <1>1, IdleTyped, Put DEF IInv, SessionInv
<1> QED BY <1>1, <1>2, <1>3, CacheMove

LEMMA CacheOther ==
  ASSUME IInv, CacheInv, NEW a \in Accounts, NEW k \in Keys, NEW v \in Vals,
         OtherDevice(a, k, v)
  PROVE  CacheInv' /\ ReadsTrue
<1>1. STORE_CACHE' = STORE_CACHE /\ account' = account /\ th' = th
  BY DEF OtherDevice, registryVars, staticVars
<1>2. cloud \in [Accounts -> [version : 0..MaxVersion, doc : Docs]]
  BY DEF IInv, SessionInv, Typed
<1>3. cloud' = [cloud EXCEPT ![a].version = @ + 1, ![a].doc[k] = v]
  BY DEF OtherDevice
<1>4. \A b \in Accounts \ {a} : cloud'[b] = cloud[b] BY <1>2, <1>3
<1>5. cloud'[a].version = cloud[a].version + 1 BY <1>2, <1>3
<1>6. CacheIsTrue'
  BY <1>1, <1>4, <1>5, CacheBehind DEF Clearing
<1> QED BY <1>1, <1>6 DEF CacheInv, LoginForgot, ReadsTrue

-----------------------------------------------------------------------------
(* The steps of the dialog. *)

\* starting a thread
LEMMA CacheSpawn ==
  ASSUME IInv, CacheInv, Still, NEW w \in Workers, th[w].pc = "idle",
         NEW o \in AllOps, th' = Spawned(w, o)
  PROVE  CacheInv' /\ ReadsTrue
<1>1. Keeps(w) /\ th'[w].pc = "lock" BY SpawnShape DEF IInv, SessionInv
<1> QED BY <1>1, CacheMove

LEMMA CacheDialog ==
  ASSUME IInv, CacheInv, DialogStep
  PROVE  CacheInv' /\ ReadsTrue
<1>0. Typed BY DEF IInv, SessionInv
<1>1. CASE ProcessEnds
  <2>1. STORE_CACHE' = None /\ \A v \in Workers : th'[v].pc = "idle"
    BY <1>1 DEF ProcessEnds, IdleThread
  <2> QED BY <2>1 DEF CacheInv, CacheIsTrue, LoginForgot, ReadsTrue
<1>2. CASE ~ProcessEnds
  <2>1. Still
    BY <1>2 DEF DialogStep, OpenSettings, apply_settings, CheckSignedIn, mark_push_pending,
       CloseSettings, EditControl, SpawnPush, on_sync_click, flush_pending, Still,
       registryVars, staticVars
  <2>2. ASSUME \A v \in Workers : th'[v].pc = th[v].pc PROVE CacheInv' /\ ReadsTrue
    BY <2>1, <2>2, CacheKept
  <2>3. CASE OpenSettings
    <3>1. CASE account = None BY <2>2, <2>3, <3>1 DEF OpenSettings
    <3>2. CASE account # None
      BY <2>1, <2>3, <3>2, CacheSpawn DEF OpenSettings, AllOps
    <3> QED BY <3>1, <3>2
  <2>4. CASE apply_settings BY <1>0, <2>2, <2>4, ApplyShape DEF Retagged
  <2>5. CASE mark_push_pending
    BY <1>0, <2>2, <2>5, OweShape DEF Retagged, mark_push_pending
  <2>6. CASE CheckSignedIn \/ CloseSettings \/ \E k \in Keys, v \in Vals : EditControl(k, v)
    BY <2>2, <2>6 DEF CheckSignedIn, CloseSettings, EditControl
  <2>7. ASSUME NEW w \in Workers, SpawnPush(w) \/ flush_pending(w) PROVE CacheInv' /\ ReadsTrue
    BY <2>1, <2>7, CacheSpawn DEF SpawnPush, flush_pending, AllOps
  <2>8. ASSUME NEW w \in Workers, on_sync_click(w) PROVE CacheInv' /\ ReadsTrue
    <3>1. (IF account = None THEN "connect" ELSE "disconnect") \in AllOps
      BY DEF AllOps
    <3> QED BY <2>1, <2>8, <3>1, CacheSpawn DEF on_sync_click
  <2> QED BY <1>2, <2>3, <2>4, <2>5, <2>6, <2>7, <2>8 DEF DialogStep
<1> QED BY <1>1, <1>2

-----------------------------------------------------------------------------
LEMMA InitCache == Init => CacheInv
  BY DEF Init, CacheInv, CacheIsTrue, LoginForgot

LEMMA NextCache == IInv /\ CacheInv /\ [Next]_vars => CacheInv' /\ ReadsTrue
<1> SUFFICES ASSUME IInv, CacheInv, [Next]_vars PROVE CacheInv' /\ ReadsTrue OBVIOUS
<1>1. CASE UNCHANGED vars
  BY <1>1, CacheKept DEF vars, Still
<1>2. CASE DialogStep BY <1>2, CacheDialog
<1>3. ASSUME NEW w \in Workers, ThreadStep(w) PROVE CacheInv' /\ ReadsTrue
  <2>1. CASE Begin(w) BY <2>1, CacheBegin
  <2>2. CASE finish_push_worker(w) BY <2>2, CacheFinish
  <2>3. CASE LockedStep(w)
    BY <2>3, CacheToken, CacheTokenFails, CacheLogin, CacheReturns, CacheRead, CacheBase,
       CacheGet, CacheGetFails, CacheApply, CachePostOk, CacheReplyLost, CachePostFails,
       CacheDelete, CacheForget DEF LockedStep
  <2> QED BY <1>3, <2>1, <2>2, <2>3 DEF ThreadStep
<1>4. CASE \E a \in Accounts, k \in Keys, v \in Vals : OtherDevice(a, k, v)
  BY <1>4, CacheOther
<1> QED BY <1>1, <1>2, <1>3, <1>4 DEF Next

\* What a pull or a sign-in is about to apply is the document its own account's cloud held
\* when it was asked, whatever was cached before: for another account, by an earlier version
\* of the document, or before the document was deleted (store_get, clear_cache).
THEOREM PullReadsTheAccountAlways == Spec => PullReadsTheAccount
<1>1. Init => IInv /\ CacheInv BY InitInv, InitCache
<1>2. IInv /\ CacheInv /\ [Next]_vars => (IInv /\ CacheInv)'
  BY NextInv, NextCache
<1>3. IInv /\ CacheInv /\ [Next]_vars => ReadsTrue BY NextCache
<1>4. IInv /\ CacheInv /\ [Next]_vars
        => [\A w \in Workers :
              th[w].pc = "get" /\ th'[w].pc = "apply"
                => th'[w].got = cloud[th[w].token].doc]_vars
  BY <1>3 DEF ReadsTrue
<1> QED BY <1>1, <1>2, <1>4, PTL DEF Spec, PullReadsTheAccount

-----------------------------------------------------------------------------

(* The shell registration, for any extensions, formats and flags, and any   *)
(* number of steps of other programs.                                       *)
(*                                                                          *)
(* RegistrationInv: every slot lies under keys that are there, a perceived  *)
(* type of ours has its mark, and below a key whose shellex is gone nothing *)
(* of ours is left that could hold it up.  It is kept because each helper   *)
(* of register.rs keeps it by itself, and so do their compositions.         *)

\* A slot lies under keys that are there, as do the values of other programs, and a perceived
\* type of ours has its mark.
Rooted(k) ==
    /\ \A p \in Places :
        /\ k.thumb[p] # "nobody" \/ k.preview[p] # "nobody" => k.shellex[p] /\ k.key[p]
        /\ k.values[p] => k.key[p]
    /\ k.perceived = "ours" => k.mark

\* Nothing of ours holds up a key whose shellex is gone, and such a key is not empty.
NoneHeldUp(k) ==
    \A p \in Places : ~k.shellex[p] => ~k.mark /\ k.prop # "ours" /\ ~KeyEmpty(k, p)

\* What is another program's in old is so in new, but for the thumbnail.
Spares(old, new) ==
    /\ \A p \in Places :
        /\ old.preview[p] = "another" => new.preview[p] = "another"
        /\ old.thumb[p] = "another" => new.thumb[p] # "nobody"
        /\ old.values[p] => new.values[p]
    /\ old.prop = "another" => new.prop = "another"

SparesThumb(old, new) == \A p \in Places : old.thumb[p] = "another" => new.thumb[p] = "another"

KeepsAll(old, new) == new \in ExtKeys /\ Rooted(new) /\ Spares(old, new) /\ SparesThumb(old, new)

LEMMA KeepsCompose ==
  ASSUME NEW a, NEW b, NEW c, KeepsAll(a, b), KeepsAll(b, c)
  PROVE  KeepsAll(a, c)
BY DEF KeepsAll, Spares, SparesThumb, Places

LEMMA Slots ==
  ASSUME NEW slots \in [Places -> Owners]
  PROVE  /\ Everywhere(TRUE) \in [Places -> BOOLEAN] /\ Everywhere("ours") \in [Places -> Owners]
         /\ remove_if_ours(slots) \in [Places -> Owners]
         /\ [p \in Places |-> IF Free(slots[p]) THEN "ours" ELSE slots[p]] \in [Places -> Owners]
BY DEF Everywhere, Owners, remove_if_ours, Free

LEMMA WithSlotsIs ==
  ASSUME NEW k \in ExtKeys
  PROVE  /\ WithSlots(k) \in ExtKeys
         /\ WithSlots(k).thumb = k.thumb /\ WithSlots(k).preview = k.preview /\ WithSlots(k).prop = k.prop
         /\ WithSlots(k).lists = k.lists /\ WithSlots(k).perceived = k.perceived /\ WithSlots(k).mark = k.mark
         /\ WithSlots(k).shellex = Everywhere(TRUE) /\ WithSlots(k).key = Everywhere(TRUE)
         /\ WithSlots(k).values = k.values
<1>1. Everywhere(TRUE) \in [Places -> BOOLEAN] BY DEF Everywhere
<1> QED BY <1>1 DEF ExtKeys, WithSlots

LEMMA HookExtIs ==
  ASSUME NEW k \in ExtKeys, Rooted(k)
  PROVE  hook_ext(k) \in ExtKeys /\ Rooted(hook_ext(k)) /\ Spares(k, hook_ext(k)) /\ NoneHeldUp(hook_ext(k))
         /\ \A p \in Places : hook_ext(k).shellex[p]
<1> DEFINE w == WithSlots(k)
<1> HIDE DEF w
<1>1. w \in ExtKeys /\ w.preview = k.preview /\ w.prop = k.prop /\ w.perceived = k.perceived /\ w.mark = k.mark
      /\ w.shellex = Everywhere(TRUE) /\ w.key = Everywhere(TRUE) /\ w.values = k.values
  BY WithSlotsIs DEF w
<1>2. hook_ext(k) = [w EXCEPT !.thumb = Everywhere("ours")] BY DEF hook_ext, w
<1>3. Everywhere("ours") \in [Places -> Owners] BY DEF Everywhere, Owners
<1>4. hook_ext(k) \in ExtKeys BY <1>1, <1>2, <1>3 DEF ExtKeys
<1>5. hook_ext(k).preview = k.preview /\ hook_ext(k).prop = k.prop /\ hook_ext(k).perceived = k.perceived
      /\ hook_ext(k).mark = k.mark /\ hook_ext(k).shellex = Everywhere(TRUE) /\ hook_ext(k).key = Everywhere(TRUE)
      /\ hook_ext(k).values = k.values /\ hook_ext(k).thumb = Everywhere("ours")
  BY <1>1, <1>2, <1>3 DEF ExtKeys
<1>6. \A p \in Places : hook_ext(k).shellex[p] /\ hook_ext(k).key[p] /\ hook_ext(k).thumb[p] = "ours"
  BY <1>5 DEF Everywhere
<1>7. Rooted(hook_ext(k)) /\ Spares(k, hook_ext(k)) BY <1>5, <1>6 DEF Rooted, Spares
<1>8. NoneHeldUp(hook_ext(k)) BY <1>6 DEF NoneHeldUp
<1> QED BY <1>4, <1>6, <1>7, <1>8

LEMMA HookPreviewIs ==
  ASSUME NEW k \in ExtKeys, Rooted(k)
  PROVE  KeepsAll(k, hook_ext_preview(k)) /\ NoneHeldUp(hook_ext_preview(k))
         /\ hook_ext_preview(k).thumb = k.thumb
         /\ \A p \in Places : hook_ext_preview(k).shellex[p]
<1> DEFINE w == WithSlots(k)
           new == [p \in Places |-> IF Free(w.preview[p]) THEN "ours" ELSE w.preview[p]]
<1>1. w \in ExtKeys /\ w.preview = k.preview /\ w.prop = k.prop /\ w.perceived = k.perceived /\ w.mark = k.mark
      /\ w.shellex = Everywhere(TRUE) /\ w.key = Everywhere(TRUE) /\ w.values = k.values /\ w.thumb = k.thumb
  BY WithSlotsIs
<1>2. hook_ext_preview(k) = [w EXCEPT !.preview = new] BY Zenon DEF hook_ext_preview
<1>3. new \in [Places -> Owners] BY <1>1 DEF Owners, ExtKeys, Free
<1>n. \A p \in Places : new[p] # "nobody" /\ (k.preview[p] = "another" => new[p] = "another")
  BY <1>1 DEF Free
<1> HIDE DEF w, new
<1>4. hook_ext_preview(k) \in ExtKeys BY <1>1, <1>2, <1>3 DEF ExtKeys
<1>5. hook_ext_preview(k).preview = new /\ hook_ext_preview(k).prop = k.prop /\ hook_ext_preview(k).perceived = k.perceived
      /\ hook_ext_preview(k).mark = k.mark /\ hook_ext_preview(k).shellex = Everywhere(TRUE) /\ hook_ext_preview(k).key = Everywhere(TRUE)
      /\ hook_ext_preview(k).values = k.values /\ hook_ext_preview(k).thumb = k.thumb
  BY <1>1, <1>2, <1>3 DEF ExtKeys
<1>6. \A p \in Places : hook_ext_preview(k).shellex[p] /\ hook_ext_preview(k).key[p]
  BY <1>5 DEF Everywhere
<1>7. Rooted(hook_ext_preview(k)) /\ Spares(k, hook_ext_preview(k)) /\ SparesThumb(k, hook_ext_preview(k))
  BY <1>5, <1>6, <1>n DEF Rooted, Spares, SparesThumb
<1>8. NoneHeldUp(hook_ext_preview(k)) BY <1>6 DEF NoneHeldUp
<1> QED BY <1>4, <1>5, <1>6, <1>7, <1>8 DEF KeepsAll

LEMMA UnhookExtIs ==
  ASSUME NEW k \in ExtKeys, Rooted(k)
  PROVE  KeepsAll(k, unhook_ext(k)) /\ (NoneHeldUp(k) => NoneHeldUp(unhook_ext(k)))
         /\ unhook_ext(k).preview = k.preview
         /\ unhook_ext(k).shellex = k.shellex /\ unhook_ext(k).prop = k.prop /\ unhook_ext(k).perceived = k.perceived
         /\ unhook_ext(k).mark = k.mark /\ unhook_ext(k).lists = k.lists
         /\ \A p \in Places : unhook_ext(k).thumb[p] # "ours"
BY SMTT(30) DEF ExtKeys, Rooted, KeepsAll, Spares, SparesThumb, NoneHeldUp, KeyEmpty, unhook_ext, remove_if_ours, Places, Owners

LEMMA UnhookPreviewIs ==
  ASSUME NEW k \in ExtKeys, Rooted(k)
  PROVE  KeepsAll(k, unhook_ext_preview(k)) /\ (NoneHeldUp(k) => NoneHeldUp(unhook_ext_preview(k)))
         /\ unhook_ext_preview(k).thumb = k.thumb
         /\ unhook_ext_preview(k).shellex = k.shellex /\ unhook_ext_preview(k).prop = k.prop
         /\ unhook_ext_preview(k).perceived = k.perceived
         /\ unhook_ext_preview(k).mark = k.mark /\ unhook_ext_preview(k).lists = k.lists
         /\ \A p \in Places : unhook_ext_preview(k).preview[p] # "ours"
BY SMTT(30) DEF ExtKeys, Rooted, KeepsAll, Spares, SparesThumb, NoneHeldUp, KeyEmpty, unhook_ext_preview, remove_if_ours, Places, Owners

LEMMA HookPropIs ==
  ASSUME NEW k \in ExtKeys, Rooted(k)
  PROVE  KeepsAll(k, hook_ext_propstore(k)) /\ hook_ext_propstore(k).shellex = k.shellex
         /\ hook_ext_propstore(k).thumb = k.thumb
<1> DEFINE h == hook_ext_propstore(k)
<1>1. h \in ExtKeys
  <2>1. CASE Free(k.prop) /\ k.perceived = "nobody"
    BY <2>1 DEF hook_ext_propstore, set_perceived_type, ExtKeys, Places, Owners
  <2>2. CASE Free(k.prop) /\ k.perceived # "nobody"
    BY <2>2 DEF hook_ext_propstore, set_perceived_type, ExtKeys, Places, Owners
  <2>3. CASE ~Free(k.prop)
    BY <2>3 DEF hook_ext_propstore
  <2> QED BY <2>1, <2>2, <2>3
<1>2. /\ h.thumb = k.thumb /\ h.preview = k.preview /\ h.shellex = k.shellex /\ h.values = k.values
      /\ (k.prop = "another" => h.prop = "another")
  <2>1. CASE Free(k.prop) /\ k.perceived = "nobody"
    BY <2>1 DEF hook_ext_propstore, set_perceived_type, ExtKeys, Places, Owners, Free
  <2>2. CASE Free(k.prop) /\ k.perceived # "nobody"
    BY <2>2 DEF hook_ext_propstore, set_perceived_type, ExtKeys, Places, Owners, Free
  <2>3. CASE ~Free(k.prop)
    BY <2>3 DEF hook_ext_propstore
  <2> QED BY <2>1, <2>2, <2>3
<1>3. (\A p \in Places : k.key[p] => h.key[p]) /\ (h.perceived = "ours" => h.mark)
  <2>1. CASE Free(k.prop) /\ k.perceived = "nobody"
    BY <2>1 DEF hook_ext_propstore, set_perceived_type, ExtKeys, Places, Owners, Free
  <2>2. CASE Free(k.prop) /\ k.perceived # "nobody"
    BY <2>2 DEF hook_ext_propstore, set_perceived_type, ExtKeys, Places, Owners, Free, Rooted
  <2>3. CASE ~Free(k.prop)
    BY <2>3 DEF hook_ext_propstore, Rooted
  <2> QED BY <2>1, <2>2, <2>3
<1> HIDE DEF h
<1>4. KeepsAll(k, h) BY <1>1, <1>2, <1>3 DEF KeepsAll, Rooted, Spares, SparesThumb
<1> QED BY <1>2, <1>4 DEF h

LEMMA UnhookPropIs ==
  ASSUME NEW k \in ExtKeys, Rooted(k)
  PROVE  KeepsAll(k, unhook_ext_propstore(k)) /\ (NoneHeldUp(k) => NoneHeldUp(unhook_ext_propstore(k)))
         /\ unhook_ext_propstore(k).prop # "ours" /\ unhook_ext_propstore(k).perceived # "ours"
         /\ unhook_ext_propstore(k).mark = FALSE /\ unhook_ext_propstore(k).thumb = k.thumb
         /\ (unhook_ext_propstore(k).lists => k.lists /\ k.prop # "ours")
<1> DEFINE u == IF k.prop = "ours" THEN [k EXCEPT !.prop = "nobody", !.lists = FALSE] ELSE k
           h == unhook_ext_propstore(k)
<1>1. /\ u \in ExtKeys /\ u.thumb = k.thumb /\ u.preview = k.preview /\ u.shellex = k.shellex /\ u.key = k.key
      /\ u.values = k.values /\ u.perceived = k.perceived /\ u.mark = k.mark
      /\ u.prop # "ours" /\ (k.prop # "ours" => u.prop = k.prop /\ u.lists = k.lists) /\ (k.prop = "ours" => u.lists = FALSE)
  BY DEF ExtKeys, Owners
<1>2. h = IF u.mark THEN [u EXCEPT !.perceived = "nobody", !.mark = FALSE] ELSE u
  BY Zenon DEF unhook_ext_propstore, unhook_perceived_type
<1> HIDE DEF u, h
<1>3. /\ h \in ExtKeys /\ h.thumb = k.thumb /\ h.preview = k.preview /\ h.shellex = k.shellex /\ h.key = k.key
      /\ h.values = k.values /\ h.prop = u.prop /\ h.lists = u.lists /\ h.mark = FALSE
      /\ (u.mark => h.perceived = "nobody") /\ (~u.mark => h.perceived = u.perceived)
  BY <1>1, <1>2 DEF ExtKeys, Owners
<1>4. h.perceived # "ours" BY <1>1, <1>3 DEF Rooted, ExtKeys
<1>5. KeepsAll(k, h) BY <1>1, <1>3, <1>4 DEF KeepsAll, Rooted, Spares, SparesThumb
<1>6. NoneHeldUp(k) => NoneHeldUp(h)
  <2> SUFFICES ASSUME NoneHeldUp(k), NEW p \in Places, ~h.shellex[p]
               PROVE  ~h.mark /\ h.prop # "ours" /\ ~KeyEmpty(h, p)
    BY DEF NoneHeldUp
  <2>1. ~k.mark /\ k.prop # "ours" /\ ~KeyEmpty(k, p) BY <1>3 DEF NoneHeldUp
  <2>2. h.prop = k.prop /\ h.lists = k.lists /\ h.perceived = k.perceived /\ h.mark = FALSE /\ k.mark = FALSE
    BY <2>1, <1>1, <1>3 DEF ExtKeys
  <2>3. ~KeyEmpty(h, p) BY <2>1, <2>2, <1>3 DEF KeyEmpty
  <2> QED BY <2>1, <2>2, <2>3
<1> QED BY <1>1, <1>3, <1>4, <1>5, <1>6, Zenon DEF h, u

LEMMA PruneAtIs ==
  ASSUME NEW k \in ExtKeys, NEW q \in Places, Rooted(k)
  PROVE  /\ KeepsAll(k, prune_at(k, q))
         /\ ~ShellexEmpty(prune_at(k, q), q)
         /\ \A p \in Places : p # q => prune_at(k, q).shellex[p] = k.shellex[p]
         /\ prune_at(k, q).thumb = k.thumb /\ prune_at(k, q).preview = k.preview
         /\ prune_at(k, q).prop = k.prop /\ prune_at(k, q).perceived = k.perceived
         /\ prune_at(k, q).mark = k.mark /\ prune_at(k, q).lists = k.lists
         /\ (NoneHeldUp(k) /\ ~k.mark /\ k.prop # "ours" => NoneHeldUp(prune_at(k, q)))
<1>1. CASE ~ShellexEmpty(k, q)
  <2>1. prune_at(k, q) = k BY <1>1 DEF prune_at
  <2> QED BY <2>1, <1>1 DEF KeepsAll, Spares, SparesThumb, Rooted
<1>2. CASE ShellexEmpty(k, q)
  <2> DEFINE bare == [k EXCEPT !.shellex[q] = FALSE]
             h == prune_at(k, q)
  <2>1. /\ bare \in ExtKeys /\ bare.thumb = k.thumb /\ bare.preview = k.preview /\ bare.prop = k.prop
        /\ bare.lists = k.lists /\ bare.perceived = k.perceived /\ bare.mark = k.mark
        /\ bare.key = k.key /\ bare.values = k.values /\ bare.shellex = [k.shellex EXCEPT ![q] = FALSE]
    BY DEF ExtKeys
  <2>2. h = IF KeyEmpty(bare, q) THEN [bare EXCEPT !.key[q] = FALSE] ELSE bare
    BY <1>2, Zenon DEF prune_at
  <2> HIDE DEF bare, h
  <2>3. /\ h \in ExtKeys /\ h.thumb = k.thumb /\ h.preview = k.preview /\ h.prop = k.prop
        /\ h.lists = k.lists /\ h.perceived = k.perceived /\ h.mark = k.mark
        /\ h.values = k.values /\ h.shellex = bare.shellex
        /\ (KeyEmpty(bare, q) => h.key = [k.key EXCEPT ![q] = FALSE])
        /\ (~KeyEmpty(bare, q) => h.key = k.key)
    BY <2>1, <2>2 DEF ExtKeys
  <2>4. h.shellex[q] = FALSE /\ \A p \in Places : p # q => h.shellex[p] = k.shellex[p]
    BY <2>1, <2>3 DEF ExtKeys
  <2>5. \A p \in Places : p # q \/ ~KeyEmpty(bare, q) => h.key[p] = k.key[p]
    BY <2>1, <2>3 DEF ExtKeys
  <2>6. ~KeyEmpty(h, q)
    <3>1. CASE KeyEmpty(bare, q)
      <4>1. h.key[q] = FALSE BY <3>1, <2>3 DEF ExtKeys
      <4> QED BY <4>1 DEF KeyEmpty
    <3>2. CASE ~KeyEmpty(bare, q)
      <4>1. h = bare BY <3>2, <2>2
      <4> QED BY <4>1, <3>2
    <3> QED BY <3>1, <3>2
  <2>7. k.thumb[q] = "nobody" /\ k.preview[q] = "nobody" BY <1>2 DEF ShellexEmpty
  <2>8. KeyEmpty(bare, q) => ~k.values[q] BY <2>1 DEF KeyEmpty
  <2>9. Rooted(h) BY <2>3, <2>4, <2>5, <2>7, <2>8 DEF Rooted
  <2>10. KeepsAll(k, h) BY <2>3, <2>9 DEF KeepsAll, Spares, SparesThumb
  <2>11. ~ShellexEmpty(h, q) BY <2>4 DEF ShellexEmpty
  <2>12. NoneHeldUp(k) /\ ~k.mark /\ k.prop # "ours" => NoneHeldUp(h)
    <3> SUFFICES ASSUME NoneHeldUp(k), ~k.mark, k.prop # "ours", NEW p \in Places, ~h.shellex[p]
                 PROVE  ~h.mark /\ h.prop # "ours" /\ ~KeyEmpty(h, p)
      BY DEF NoneHeldUp
    <3>1. CASE p = q BY <3>1, <2>3, <2>6
    <3>2. CASE p # q
      <4>1. ~KeyEmpty(k, p) /\ ~k.shellex[p] BY <3>2, <2>4 DEF NoneHeldUp
      <4>2. h.key[p] = k.key[p] /\ h.shellex[p] = k.shellex[p] BY <3>2, <2>4, <2>5
      <4> QED BY <4>1, <4>2, <2>3 DEF KeyEmpty
    <3> QED BY <3>1, <3>2
  <2> QED BY <2>3, <2>4, <2>10, <2>11, <2>12 DEF h
<1> QED BY <1>1, <1>2

(* Registering and unregistering one extension                              *)

\* Another's thumbnail is replaced where a format is enabled, and nowhere else.
Served(e) == e \in FORMATS \cap enabled

Respects(e, old, new) ==
    new \in ExtKeys /\ Rooted(new) /\ Spares(old, new) /\ (~Served(e) => SparesThumb(old, new))

LEMMA RespectsThen ==
  ASSUME NEW e, NEW a, NEW b, NEW c, Respects(e, a, b), KeepsAll(b, c), c.thumb = b.thumb
  PROVE  Respects(e, a, c)
BY DEF Respects, KeepsAll, Spares, SparesThumb

LEMMA KeepsNothing ==
  ASSUME NEW e, NEW k \in ExtKeys, Rooted(k)
  PROVE  KeepsAll(k, k) /\ Respects(e, k, k)
BY DEF Respects, KeepsAll, Spares, SparesThumb

LEMMA PruneIs ==
  ASSUME NEW k \in ExtKeys, Rooted(k)
  PROVE  /\ KeepsAll(k, prune_empty_parents(k))
         /\ \A p \in Places : ~ShellexEmpty(prune_empty_parents(k), p)
         /\ prune_empty_parents(k).thumb = k.thumb /\ prune_empty_parents(k).preview = k.preview
         /\ prune_empty_parents(k).prop = k.prop /\ prune_empty_parents(k).perceived = k.perceived
         /\ prune_empty_parents(k).mark = k.mark /\ prune_empty_parents(k).lists = k.lists
         /\ (NoneHeldUp(k) /\ ~k.mark /\ k.prop # "ours" => NoneHeldUp(prune_empty_parents(k)))
<1> DEFINE one == prune_at(k, "ext")
           two == prune_at(one, "assoc")
<1>1. "ext" \in Places /\ "assoc" \in Places /\ "ext" # "assoc" BY DEF Places
<1>2. /\ KeepsAll(k, one) /\ ~ShellexEmpty(one, "ext")
      /\ one.thumb = k.thumb /\ one.preview = k.preview /\ one.prop = k.prop /\ one.perceived = k.perceived
      /\ one.mark = k.mark /\ one.lists = k.lists
      /\ (NoneHeldUp(k) /\ ~k.mark /\ k.prop # "ours" => NoneHeldUp(one))
  BY <1>1, PruneAtIs
<1>3. one \in ExtKeys /\ Rooted(one) BY <1>2 DEF KeepsAll
<1> HIDE DEF one
<1>4. /\ KeepsAll(one, two) /\ ~ShellexEmpty(two, "assoc") /\ two.shellex["ext"] = one.shellex["ext"]
      /\ two.thumb = one.thumb /\ two.preview = one.preview /\ two.prop = one.prop /\ two.perceived = one.perceived
      /\ two.mark = one.mark /\ two.lists = one.lists
      /\ (NoneHeldUp(one) /\ ~one.mark /\ one.prop # "ours" => NoneHeldUp(two))
  BY <1>1, <1>3, PruneAtIs
<1>5. prune_empty_parents(k) = two BY DEF prune_empty_parents, one
<1> HIDE DEF two
<1>6. KeepsAll(k, two) BY <1>2, <1>4, KeepsCompose
<1>7. \A p \in Places : ~ShellexEmpty(two, p) BY <1>2, <1>4 DEF ShellexEmpty, Places
<1> QED BY <1>2, <1>4, <1>5, <1>6, <1>7

LEMMA TakenOutIs ==
  ASSUME NEW k \in ExtKeys, Rooted(k)
  PROVE  /\ KeepsAll(k, unhook_ext_and_prune(k))
         /\ unhook_ext_and_prune(k).preview = k.preview
         /\ unhook_ext_and_prune(k).prop = k.prop /\ unhook_ext_and_prune(k).perceived = k.perceived
         /\ unhook_ext_and_prune(k).mark = k.mark /\ unhook_ext_and_prune(k).lists = k.lists
         /\ (\A p \in Places : unhook_ext_and_prune(k).thumb[p] # "ours")
         /\ (NoneHeldUp(k) /\ ~k.mark /\ k.prop # "ours" => NoneHeldUp(unhook_ext_and_prune(k)))
<1> DEFINE u == unhook_ext(k)
<1>1. /\ KeepsAll(k, u) /\ (NoneHeldUp(k) => NoneHeldUp(u)) /\ u.preview = k.preview /\ u.prop = k.prop
      /\ u.perceived = k.perceived /\ u.mark = k.mark /\ u.lists = k.lists
      /\ \A p \in Places : u.thumb[p] # "ours"
  BY UnhookExtIs
<1>2. u \in ExtKeys /\ Rooted(u) BY <1>1 DEF KeepsAll
<1>3. unhook_ext_and_prune(k) = prune_empty_parents(u) BY DEF unhook_ext_and_prune
<1> HIDE DEF u
<1>4. KeepsAll(k, prune_empty_parents(u)) BY <1>1, <1>2, PruneIs, KeepsCompose
<1> QED BY <1>1, <1>2, <1>3, <1>4, PruneIs

LEMMA PreviewTakenOutIs ==
  ASSUME NEW k \in ExtKeys, Rooted(k)
  PROVE  /\ KeepsAll(k, unhook_ext_preview_and_prune(k))
         /\ unhook_ext_preview_and_prune(k).thumb = k.thumb
         /\ unhook_ext_preview_and_prune(k).prop = k.prop /\ unhook_ext_preview_and_prune(k).perceived = k.perceived
         /\ unhook_ext_preview_and_prune(k).mark = k.mark /\ unhook_ext_preview_and_prune(k).lists = k.lists
         /\ (\A p \in Places : unhook_ext_preview_and_prune(k).preview[p] # "ours")
         /\ (\A p \in Places : ~ShellexEmpty(unhook_ext_preview_and_prune(k), p))
         /\ (NoneHeldUp(k) /\ ~k.mark /\ k.prop # "ours" => NoneHeldUp(unhook_ext_preview_and_prune(k)))
<1> DEFINE u == unhook_ext_preview(k)
<1>1. /\ KeepsAll(k, u) /\ (NoneHeldUp(k) => NoneHeldUp(u)) /\ u.thumb = k.thumb /\ u.prop = k.prop
      /\ u.perceived = k.perceived /\ u.mark = k.mark /\ u.lists = k.lists
      /\ \A p \in Places : u.preview[p] # "ours"
  BY UnhookPreviewIs
<1>2. u \in ExtKeys /\ Rooted(u) BY <1>1 DEF KeepsAll
<1>3. unhook_ext_preview_and_prune(k) = prune_empty_parents(u) BY DEF unhook_ext_preview_and_prune
<1> HIDE DEF u
<1>4. KeepsAll(k, prune_empty_parents(u)) BY <1>1, <1>2, PruneIs, KeepsCompose
<1> QED BY <1>1, <1>2, <1>3, <1>4, PruneIs

LEMMA FirstPassKeeps ==
  ASSUME NEW e, NEW k \in ExtKeys, Rooted(k)
  PROVE  /\ Respects(e, k, FirstPass(e, k))
         /\ (e \in FORMATS /\ NoneHeldUp(k) => NoneHeldUp(FirstPass(e, k)))
         /\ (Served(e) => NoneHeldUp(FirstPass(e, k)) /\ \A p \in Places : FirstPass(e, k).shellex[p])
<1>1. CASE Served(e)
  <2>1. FirstPass(e, k) = hook_ext(k) BY <1>1 DEF Served, FirstPass
  <2> QED BY <1>1, <2>1, HookExtIs DEF Respects
<1>2. CASE e \in FORMATS /\ ~Served(e)
  <2>1. FirstPass(e, k) = unhook_ext(k) BY <1>2 DEF Served, FirstPass
  <2>2. KeepsAll(k, unhook_ext(k)) /\ (NoneHeldUp(k) => NoneHeldUp(unhook_ext(k))) BY UnhookExtIs
  <2> QED BY <1>2, <2>1, <2>2 DEF Respects, KeepsAll
<1>3. CASE e \notin FORMATS
  <2> DEFINE one == unhook_ext_and_prune(k)
             two == unhook_ext_preview_and_prune(one)
  <2>1. KeepsAll(k, one) /\ one \in ExtKeys /\ Rooted(one) BY TakenOutIs DEF KeepsAll
  <2>2. KeepsAll(one, two) /\ two \in ExtKeys /\ Rooted(two) BY <2>1, PreviewTakenOutIs DEF KeepsAll
  <2>3. KeepsAll(two, unhook_ext_propstore(two)) BY <2>2, UnhookPropIs
  <2>4. FirstPass(e, k) = unhook_ext_propstore(two) BY <1>3 DEF FirstPass
  <2> HIDE DEF one, two
  <2>5. KeepsAll(k, unhook_ext_propstore(two)) BY <2>1, <2>2, <2>3, KeepsCompose
  <2> QED BY <1>3, <2>4, <2>5 DEF Respects, KeepsAll, Served
<1> QED BY <1>1, <1>2, <1>3

LEMMA PreviewPassKeeps ==
  ASSUME NEW e, NEW k \in ExtKeys, Rooted(k)
  PROVE  /\ KeepsAll(k, register_preview_handler(e, k)) /\ register_preview_handler(e, k).thumb = k.thumb
         /\ (e \in FORMATS /\ NoneHeldUp(k) => NoneHeldUp(register_preview_handler(e, k)))
         /\ (Served(e) => \A p \in Places : register_preview_handler(e, k).shellex[p])
<1>1. CASE Served(e)
  <2>1. register_preview_handler(e, k) = hook_ext_preview(k) BY <1>1 DEF Served, register_preview_handler
  <2> QED BY <2>1, HookPreviewIs
<1>2. CASE e \in FORMATS /\ ~Served(e)
  <2>1. register_preview_handler(e, k) = unhook_ext_preview(k) BY <1>2 DEF Served, register_preview_handler
  <2> QED BY <1>2, <2>1, UnhookPreviewIs
<1>3. CASE e \notin FORMATS
  <2>1. register_preview_handler(e, k) = k BY <1>3 DEF register_preview_handler
  <2> QED BY <1>3, <2>1, KeepsNothing DEF Served
<1> QED BY <1>1, <1>2, <1>3

LEMMA PropertyPassKeeps ==
  ASSUME NEW e, NEW k \in ExtKeys, Rooted(k)
  PROVE  /\ KeepsAll(k, register_property_handler(e, k)) /\ register_property_handler(e, k).thumb = k.thumb
         /\ (e \in FORMATS /\ NoneHeldUp(k) /\ (Served(e) => \A p \in Places : k.shellex[p])
                => NoneHeldUp(register_property_handler(e, k)))
<1>1. CASE Served(e)
  <2>1. register_property_handler(e, k) = hook_ext_propstore(k) BY <1>1 DEF Served, register_property_handler
  <2> QED BY <1>1, <2>1, HookPropIs DEF NoneHeldUp
<1>2. CASE e \in FORMATS /\ ~Served(e)
  <2>1. register_property_handler(e, k) = unhook_ext_propstore(k) BY <1>2 DEF Served, register_property_handler
  <2> QED BY <1>2, <2>1, UnhookPropIs
<1>3. CASE e \notin FORMATS
  <2>1. register_property_handler(e, k) = k BY <1>3 DEF register_property_handler
  <2> QED BY <1>3, <2>1, KeepsNothing
<1> QED BY <1>1, <1>2, <1>3

LEMMA UninstalledIs ==
  ASSUME NEW k \in ExtKeys, Rooted(k)
  PROVE  /\ KeepsAll(k, Uninstalled(k)) /\ ~PointsAtUs(Uninstalled(k))
         /\ (NoneHeldUp(k) => NoneHeldUp(Uninstalled(k)) /\ ~LeftEmpty(Uninstalled(k)))
         /\ (Uninstalled(k).lists => ListsDisplaced(k))
<1> DEFINE one == unhook_ext_propstore(k)
           two == unhook_ext_and_prune(one)
           end == unhook_ext_preview_and_prune(two)
<1>1. /\ KeepsAll(k, one) /\ (NoneHeldUp(k) => NoneHeldUp(one)) /\ one.prop # "ours" /\ one.perceived # "ours"
      /\ one.mark = FALSE /\ (one.lists => k.lists /\ k.prop # "ours")
  BY UnhookPropIs
<1>2. one \in ExtKeys /\ Rooted(one) BY <1>1 DEF KeepsAll
<1>0. Uninstalled(k) = end BY DEF Uninstalled
<1> HIDE DEF one
<1>3. /\ KeepsAll(one, two) /\ two.prop = one.prop /\ two.perceived = one.perceived /\ two.mark = one.mark
      /\ two.lists = one.lists /\ (\A p \in Places : two.thumb[p] # "ours")
      /\ (NoneHeldUp(one) /\ ~one.mark /\ one.prop # "ours" => NoneHeldUp(two))
  BY <1>2, TakenOutIs
<1>4. two \in ExtKeys /\ Rooted(two) BY <1>3 DEF KeepsAll
<1> HIDE DEF two
<1>5. /\ KeepsAll(two, end) /\ end.thumb = two.thumb /\ end.prop = two.prop /\ end.perceived = two.perceived
      /\ end.mark = two.mark /\ end.lists = two.lists /\ (\A p \in Places : end.preview[p] # "ours")
      /\ (\A p \in Places : ~ShellexEmpty(end, p))
      /\ (NoneHeldUp(two) /\ ~two.mark /\ two.prop # "ours" => NoneHeldUp(end))
  BY <1>4, PreviewTakenOutIs
<1> HIDE DEF end
<1>6. KeepsAll(k, end)
  <2>1. KeepsAll(k, two) BY <1>1, <1>3, KeepsCompose
  <2> QED BY <2>1, <1>5, KeepsCompose
<1>7. ~PointsAtUs(end)
  <2>1. \A p \in Places : end.thumb[p] # "ours" /\ end.preview[p] # "ours" BY <1>3, <1>5
  <2>2. end.prop # "ours" /\ end.perceived # "ours" /\ ~end.mark BY <1>1, <1>3, <1>5
  <2> QED BY <2>1, <2>2 DEF PointsAtUs
<1>8. NoneHeldUp(k) => NoneHeldUp(end) BY <1>1, <1>3, <1>5
<1>9. NoneHeldUp(end) => ~LeftEmpty(end)
  <2> SUFFICES ASSUME NoneHeldUp(end), NEW p \in Places, KeyEmpty(end, p) PROVE FALSE
    BY <1>5 DEF LeftEmpty
  <2> QED BY DEF NoneHeldUp, KeyEmpty
<1>10. end.lists => ListsDisplaced(k) BY <1>1, <1>3, <1>5 DEF ListsDisplaced
<1> QED BY <1>0, <1>6, <1>7, <1>8, <1>9, <1>10

-----------------------------------------------------------------------------
(* The theorems about the registration                                      *)

RegistrationInv ==
    /\ keys \in [Exts -> ExtKeys] /\ foreign \in Nat
    /\ \A e \in Exts : Rooted(keys[e])
    /\ \A e \in Exts \cap FORMATS : NoneHeldUp(keys[e])

LEMMA RegistrationStarts == RegistrationInit => RegistrationInv
<1> SUFFICES ASSUME RegistrationInit PROVE RegistrationInv
  OBVIOUS
<1>1. NoKeys \in ExtKeys BY DEF NoKeys, ExtKeys, Everywhere, Owners
<1>2. Rooted(NoKeys) /\ NoneHeldUp(NoKeys) BY DEF NoKeys, Rooted, NoneHeldUp, KeyEmpty, Everywhere
<1> HIDE DEF NoKeys
<1> QED BY <1>1, <1>2 DEF RegistrationInit, RegistrationInv

\* What a step of the extension does to the keys of every extension.
OursKeep ==
    /\ keys' \in [Exts -> ExtKeys]
    /\ \A e \in Exts : Respects(e, keys[e], keys'[e])
    /\ \A e \in Exts \cap FORMATS : NoneHeldUp(keys'[e])

LEMMA RegisterKeeps ==
  ASSUME RegistrationInv, register
  PROVE  OursKeep
<1>1. PICK there \in SUBSET Servers :
        LET one(e) == IF "thumbnail" \in there THEN FirstPass(e, keys[e]) ELSE keys[e]
            two(e) == IF "preview" \in there THEN register_preview_handler(e, one(e)) ELSE one(e)
        IN  /\ "menu" \in there => "thumbnail" \in there
            /\ {"preview", "property"} \cap there # {} => "menu" \in there
            /\ keys' = [e \in Exts |->
                 IF "property" \in there THEN register_property_handler(e, two(e)) ELSE two(e)]
  BY Zenon DEF register
<1> DEFINE one(e) == IF "thumbnail" \in there THEN FirstPass(e, keys[e]) ELSE keys[e]
           two(e) == IF "preview" \in there THEN register_preview_handler(e, one(e)) ELSE one(e)
           three(e) == IF "property" \in there THEN register_property_handler(e, two(e)) ELSE two(e)
<1>2. keys' = [e \in Exts |-> three(e)] BY <1>1
<1>3. "property" \in there => "thumbnail" \in there BY <1>1
<1>4. ASSUME NEW e \in Exts
      PROVE  /\ Respects(e, keys[e], three(e)) /\ three(e) \in ExtKeys
             /\ (e \in FORMATS => NoneHeldUp(three(e)))
  <2> DEFINE k == keys[e]
             a == one(e)
             b == two(e)
             c == three(e)
  <2>1. k \in ExtKeys /\ Rooted(k) /\ (e \in FORMATS => NoneHeldUp(k)) BY DEF RegistrationInv
  <2>2. a = IF "thumbnail" \in there THEN FirstPass(e, k) ELSE k OBVIOUS
  <2>3. b = IF "preview" \in there THEN register_preview_handler(e, a) ELSE a OBVIOUS
  <2>4. c = IF "property" \in there THEN register_property_handler(e, b) ELSE b OBVIOUS
  <2> HIDE DEF a, b, c, k
  <2>5. /\ Respects(e, k, a) /\ (e \in FORMATS => NoneHeldUp(a))
        /\ ("thumbnail" \in there /\ Served(e) => \A p \in Places : a.shellex[p])
    BY <2>1, <2>2, FirstPassKeeps, KeepsNothing
  <2>6. a \in ExtKeys /\ Rooted(a) BY <2>5 DEF Respects
  <2>7. /\ KeepsAll(a, b) /\ b.thumb = a.thumb /\ (e \in FORMATS => NoneHeldUp(b))
        /\ ("thumbnail" \in there /\ Served(e) => \A p \in Places : b.shellex[p])
    <3>1. CASE "preview" \in there BY <3>1, <2>3, <2>5, <2>6, PreviewPassKeeps
    <3>2. CASE "preview" \notin there BY <3>2, <2>3, <2>5, <2>6, KeepsNothing
    <3> QED BY <3>1, <3>2
  <2>8. b \in ExtKeys /\ Rooted(b) BY <2>7 DEF KeepsAll
  <2>9. KeepsAll(b, c) /\ c.thumb = b.thumb /\ (e \in FORMATS => NoneHeldUp(c))
    <3>1. CASE "property" \in there BY <3>1, <1>3, <2>4, <2>7, <2>8, PropertyPassKeeps
    <3>2. CASE "property" \notin there BY <3>2, <2>4, <2>7, <2>8, KeepsNothing
    <3> QED BY <3>1, <3>2
  <2>10. Respects(e, k, b) BY <2>5, <2>7, RespectsThen
  <2>11. Respects(e, k, c) BY <2>9, <2>10, RespectsThen
  <2>12. c \in ExtKeys BY <2>11 DEF Respects
  <2> QED BY <2>9, <2>11, <2>12 DEF c, k
<1> HIDE DEF three
<1>5. \A e \in Exts : keys'[e] = three(e) BY <1>2
<1> QED BY <1>2, <1>4, <1>5 DEF OursKeep

LEMMA UnregisterKeeps ==
  ASSUME RegistrationInv, unregister
  PROVE  OursKeep
<1>1. keys' = [e \in Exts |-> Uninstalled(keys[e])] BY DEF unregister
<1>2. ASSUME NEW e \in Exts
      PROVE  KeepsAll(keys[e], Uninstalled(keys[e])) /\ (e \in FORMATS => NoneHeldUp(Uninstalled(keys[e])))
  BY UninstalledIs DEF RegistrationInv
<1>3. \A e \in Exts : keys'[e] = Uninstalled(keys[e]) BY <1>1
<1>4. \A e \in Exts : Uninstalled(keys[e]) \in ExtKeys BY <1>2 DEF KeepsAll
<1>5. \A e \in Exts : Respects(e, keys[e], keys'[e]) BY <1>2, <1>3 DEF Respects, KeepsAll
<1> QED BY <1>1, <1>2, <1>3, <1>4, <1>5 DEF OursKeep

\* Another program's step on one extension leaves its keys in order.
LEMMA TakesIs ==
  ASSUME NEW k \in ExtKeys, Rooted(k), NEW t \in Takes(k)
  PROVE  t \in ExtKeys /\ Rooted(t) /\ (NoneHeldUp(k) => NoneHeldUp(t))
<1>1. CASE \E p \in Places : t = [k EXCEPT !.thumb[p] = "another", !.shellex[p] = TRUE, !.key[p] = TRUE]
  <2> PICK p \in Places : t = [k EXCEPT !.thumb[p] = "another", !.shellex[p] = TRUE, !.key[p] = TRUE]
    BY <1>1
  <2>1. t \in ExtKeys BY DEF ExtKeys, Owners
  <2>2. /\ t.thumb = [k.thumb EXCEPT ![p] = "another"] /\ t.shellex = [k.shellex EXCEPT ![p] = TRUE]
        /\ t.key = [k.key EXCEPT ![p] = TRUE] /\ t.preview = k.preview /\ t.prop = k.prop /\ t.lists = k.lists
        /\ t.perceived = k.perceived /\ t.mark = k.mark /\ t.values = k.values
    BY DEF ExtKeys
  <2>3. \A q \in Places : q # p => t.thumb[q] = k.thumb[q] /\ t.shellex[q] = k.shellex[q] /\ t.key[q] = k.key[q]
    BY <2>2 DEF ExtKeys
  <2>4. t.shellex[p] = TRUE /\ t.key[p] = TRUE BY <2>2 DEF ExtKeys
  <2> QED BY <2>1, <2>2, <2>3, <2>4 DEF Rooted, NoneHeldUp, KeyEmpty
<1>2. CASE \E p \in Places : t = [k EXCEPT !.preview[p] = "another", !.shellex[p] = TRUE, !.key[p] = TRUE]
  <2> PICK p \in Places : t = [k EXCEPT !.preview[p] = "another", !.shellex[p] = TRUE, !.key[p] = TRUE]
    BY <1>2
  <2>1. t \in ExtKeys BY DEF ExtKeys, Owners
  <2>2. /\ t.preview = [k.preview EXCEPT ![p] = "another"] /\ t.shellex = [k.shellex EXCEPT ![p] = TRUE]
        /\ t.key = [k.key EXCEPT ![p] = TRUE] /\ t.thumb = k.thumb /\ t.prop = k.prop /\ t.lists = k.lists
        /\ t.perceived = k.perceived /\ t.mark = k.mark /\ t.values = k.values
    BY DEF ExtKeys
  <2>3. \A q \in Places : q # p => t.preview[q] = k.preview[q] /\ t.shellex[q] = k.shellex[q] /\ t.key[q] = k.key[q]
    BY <2>2 DEF ExtKeys
  <2>4. t.shellex[p] = TRUE /\ t.key[p] = TRUE BY <2>2 DEF ExtKeys
  <2> QED BY <2>1, <2>2, <2>3, <2>4 DEF Rooted, NoneHeldUp, KeyEmpty
<1>3. CASE \E p \in Places : t = [k EXCEPT !.values[p] = TRUE, !.key[p] = TRUE]
  <2> PICK p \in Places : t = [k EXCEPT !.values[p] = TRUE, !.key[p] = TRUE]
    BY <1>3
  <2>1. t \in ExtKeys BY DEF ExtKeys, Owners
  <2>2. /\ t.values = [k.values EXCEPT ![p] = TRUE] /\ t.key = [k.key EXCEPT ![p] = TRUE]
        /\ t.preview = k.preview /\ t.thumb = k.thumb /\ t.prop = k.prop /\ t.lists = k.lists
        /\ t.perceived = k.perceived /\ t.mark = k.mark /\ t.shellex = k.shellex
    BY DEF ExtKeys
  <2>3. \A q \in Places : q # p => t.values[q] = k.values[q] /\ t.key[q] = k.key[q]
    BY <2>2 DEF ExtKeys
  <2>4. t.values[p] = TRUE /\ t.key[p] = TRUE BY <2>2 DEF ExtKeys
  <2> QED BY <2>1, <2>2, <2>3, <2>4 DEF Rooted, NoneHeldUp, KeyEmpty
<1>4. CASE t = [k EXCEPT !.prop = "another"]
  <2>1. t \in ExtKeys BY <1>4 DEF ExtKeys, Owners
  <2>2. /\ t.prop = "another" /\ t.values = k.values /\ t.key = k.key
        /\ t.preview = k.preview /\ t.thumb = k.thumb /\ t.lists = k.lists
        /\ t.perceived = k.perceived /\ t.mark = k.mark /\ t.shellex = k.shellex
    BY <1>4 DEF ExtKeys
  <2> QED BY <2>1, <2>2 DEF Rooted, NoneHeldUp, KeyEmpty
<1>5. CASE t = [k EXCEPT !.perceived = "another", !.key["ext"] = TRUE]
  <2>1. t \in ExtKeys BY <1>5 DEF ExtKeys, Owners, Places
  <2>2. /\ t.prop = k.prop /\ t.values = k.values /\ t.key = [k.key EXCEPT !["ext"] = TRUE]
        /\ t.preview = k.preview /\ t.thumb = k.thumb /\ t.lists = k.lists
        /\ t.perceived = "another" /\ t.mark = k.mark /\ t.shellex = k.shellex
    BY <1>5 DEF ExtKeys
  <2>3. t.key["ext"] = TRUE /\ t.key["assoc"] = k.key["assoc"] BY <2>2 DEF ExtKeys, Places
  <2> QED BY <2>1, <2>2, <2>3 DEF Rooted, NoneHeldUp, KeyEmpty, Places
<1> QED BY <1>1, <1>2, <1>3, <1>4, <1>5, Zenon DEF Takes

LEMMA SweptIs ==
  ASSUME NEW k \in ExtKeys, Rooted(k)
  PROVE  /\ Swept(k) \in ExtKeys /\ Rooted(Swept(k))
         /\ ((\A p \in Places : ~k.shellex[p] => ~k.mark /\ k.prop # "ours") => NoneHeldUp(Swept(k)))
<1> DEFINE stay == [p \in Places |-> k.key[p] /\ ~KeyEmpty(k, p)]
           t == Swept(k)
<1>1. stay \in [Places -> BOOLEAN] BY DEF ExtKeys
<1>2. t = [k EXCEPT !.key = stay] BY Zenon DEF Swept
<1>3. \A p \in Places : stay[p] = (k.key[p] /\ ~KeyEmpty(k, p)) OBVIOUS
<1> HIDE DEF stay, t
<1>4. t \in ExtKeys BY <1>1, <1>2 DEF ExtKeys
<1>5. /\ t.thumb = k.thumb /\ t.preview = k.preview /\ t.prop = k.prop /\ t.lists = k.lists
      /\ t.perceived = k.perceived /\ t.mark = k.mark /\ t.shellex = k.shellex /\ t.values = k.values /\ t.key = stay
  BY <1>1, <1>2 DEF ExtKeys
<1>6. \A p \in Places : k.shellex[p] \/ k.values[p] => t.key[p] = k.key[p]
  <2> TAKE p \in Places
  <2> SUFFICES ASSUME k.shellex[p] \/ k.values[p] PROVE t.key[p] = k.key[p]
    OBVIOUS
  <2>1. ~KeyEmpty(k, p) BY DEF KeyEmpty
  <2>2. k.key[p] \in BOOLEAN BY DEF ExtKeys
  <2> QED BY <2>1, <2>2, <1>3, <1>5
<1>7. Rooted(t) BY <1>5, <1>6 DEF Rooted
<1>8. \A p \in Places : ~KeyEmpty(t, p)
  <2> SUFFICES ASSUME NEW p \in Places, KeyEmpty(t, p) PROVE FALSE
    OBVIOUS
  <2>1. t.key[p] = TRUE /\ k.key[p] = TRUE /\ ~KeyEmpty(k, p) BY <1>3, <1>4, <1>5 DEF KeyEmpty, ExtKeys
  <2> QED BY <2>1, <1>5 DEF KeyEmpty
<1>9. (\A p \in Places : ~k.shellex[p] => ~k.mark /\ k.prop # "ours") => NoneHeldUp(t)
  BY <1>5, <1>8 DEF NoneHeldUp
<1> QED BY <1>4, <1>7, <1>9 DEF t

\* What another program gives up was its own.
LEMMA GivesUpIs ==
  ASSUME NEW k \in ExtKeys, Rooted(k), NEW t \in GivesUp(k)
  PROVE  t \in ExtKeys /\ Rooted(t) /\ t.shellex = k.shellex /\ t.mark = k.mark
         /\ (t.prop = "ours" => k.prop = "ours")
<1>1. CASE \E p \in Places : k.thumb[p] = "another" /\ t = [k EXCEPT !.thumb[p] = "nobody"]
  <2> PICK p \in Places : t = [k EXCEPT !.thumb[p] = "nobody"] BY <1>1
  <2>1. t \in ExtKeys BY DEF ExtKeys, Owners
  <2>2. /\ t.thumb = [k.thumb EXCEPT ![p] = "nobody"] /\ t.shellex = k.shellex
        /\ t.key = k.key /\ t.preview = k.preview /\ t.prop = k.prop /\ t.lists = k.lists
        /\ t.perceived = k.perceived /\ t.mark = k.mark /\ t.values = k.values
    BY DEF ExtKeys
  <2>3. \A q \in Places : t.thumb[q] # "nobody" => k.thumb[q] # "nobody" BY <2>2 DEF ExtKeys
  <2> QED BY <2>1, <2>2, <2>3 DEF Rooted
<1>2. CASE \E p \in Places : k.preview[p] = "another" /\ t = [k EXCEPT !.preview[p] = "nobody"]
  <2> PICK p \in Places : t = [k EXCEPT !.preview[p] = "nobody"] BY <1>2
  <2>1. t \in ExtKeys BY DEF ExtKeys, Owners
  <2>2. /\ t.preview = [k.preview EXCEPT ![p] = "nobody"] /\ t.shellex = k.shellex
        /\ t.key = k.key /\ t.thumb = k.thumb /\ t.prop = k.prop /\ t.lists = k.lists
        /\ t.perceived = k.perceived /\ t.mark = k.mark /\ t.values = k.values
    BY DEF ExtKeys
  <2>3. \A q \in Places : t.preview[q] # "nobody" => k.preview[q] # "nobody" BY <2>2 DEF ExtKeys
  <2> QED BY <2>1, <2>2, <2>3 DEF Rooted
<1>3. CASE \E p \in Places : t = [k EXCEPT !.values[p] = FALSE]
  <2> PICK p \in Places : t = [k EXCEPT !.values[p] = FALSE] BY <1>3
  <2>1. t \in ExtKeys BY DEF ExtKeys, Owners
  <2>2. /\ t.values = [k.values EXCEPT ![p] = FALSE] /\ t.shellex = k.shellex
        /\ t.key = k.key /\ t.thumb = k.thumb /\ t.prop = k.prop /\ t.lists = k.lists
        /\ t.perceived = k.perceived /\ t.mark = k.mark /\ t.preview = k.preview
    BY DEF ExtKeys
  <2>3. \A q \in Places : t.values[q] => k.values[q] BY <2>2 DEF ExtKeys
  <2> QED BY <2>1, <2>2, <2>3 DEF Rooted
<1>4. CASE k.prop = "another" /\ t = [k EXCEPT !.prop = "nobody"]
  <2>1. t \in ExtKeys BY <1>4 DEF ExtKeys, Owners
  <2>2. /\ t.values = k.values /\ t.shellex = k.shellex /\ t.prop = "nobody"
        /\ t.key = k.key /\ t.thumb = k.thumb /\ t.lists = k.lists
        /\ t.perceived = k.perceived /\ t.mark = k.mark /\ t.preview = k.preview
    BY <1>4 DEF ExtKeys
  <2> QED BY <2>1, <2>2 DEF Rooted
<1>5. CASE k.perceived = "another" /\ t = [k EXCEPT !.perceived = "nobody"]
  <2>1. t \in ExtKeys BY <1>5 DEF ExtKeys, Owners
  <2>2. /\ t.values = k.values /\ t.shellex = k.shellex /\ t.prop = k.prop
        /\ t.key = k.key /\ t.thumb = k.thumb /\ t.lists = k.lists
        /\ t.perceived = "nobody" /\ t.mark = k.mark /\ t.preview = k.preview
    BY <1>5 DEF ExtKeys
  <2> QED BY <2>1, <2>2 DEF Rooted
<1> QED BY <1>1, <1>2, <1>3, <1>4, <1>5, Zenon DEF GivesUp

LEMMA AnotherProgramKeeps ==
  ASSUME RegistrationInv, NEW e \in Exts, AnotherProgram(e)
  PROVE  RegistrationInv' /\ foreign' # foreign
<1>1. foreign' = foreign + 1 /\ foreign' \in Nat /\ foreign' # foreign BY DEF AnotherProgram, RegistrationInv
<1>2. FORMATS' = FORMATS BY DEF AnotherProgram
<1> DEFINE k == keys[e]
<1>3. k \in ExtKeys /\ Rooted(k) /\ (e \in FORMATS => NoneHeldUp(k)) BY DEF RegistrationInv
<1> HIDE DEF k
<1>4. PICK t \in ExtKeys : keys' = [keys EXCEPT ![e] = t] /\ Rooted(t) /\ (e \in FORMATS => NoneHeldUp(t))
  <2>1. CASE \E t \in Takes(k) : keys' = [keys EXCEPT ![e] = t] BY <2>1, <1>3, TakesIs
  <2>2. CASE \E t \in GivesUp(k) : keys' = [keys EXCEPT ![e] = Swept(t)]
    <3> PICK t \in GivesUp(k) : keys' = [keys EXCEPT ![e] = Swept(t)] BY <2>2
    <3>1. /\ t \in ExtKeys /\ Rooted(t) /\ t.shellex = k.shellex /\ t.mark = k.mark
          /\ (t.prop = "ours" => k.prop = "ours")
      BY <1>3, GivesUpIs
    <3>2. e \in FORMATS => \A p \in Places : ~t.shellex[p] => ~t.mark /\ t.prop # "ours"
      BY <1>3, <3>1 DEF NoneHeldUp
    <3> QED BY <3>1, <3>2, SweptIs
  <2> QED BY <2>1, <2>2, Zenon DEF AnotherProgram, k
<1>5. keys' \in [Exts -> ExtKeys] BY <1>4 DEF RegistrationInv
<1>6. \A x \in Exts : keys'[x] = IF x = e THEN t ELSE keys[x] BY <1>4 DEF RegistrationInv
<1> QED BY <1>1, <1>2, <1>4, <1>5, <1>6 DEF RegistrationInv

LEMMA OursKeepInv ==
  ASSUME RegistrationInv, OursKeep, FORMATS' = FORMATS, foreign' = foreign
  PROVE  RegistrationInv'
BY DEF RegistrationInv, OursKeep, Respects

LEMMA RegistrationStep == RegistrationInv /\ [RegistrationNext]_registrationVars => RegistrationInv'
<1> SUFFICES ASSUME RegistrationInv, [RegistrationNext]_registrationVars PROVE RegistrationInv'
  OBVIOUS
<1>1. CASE register BY <1>1, RegisterKeeps, OursKeepInv DEF register
<1>2. CASE unregister BY <1>2, UnregisterKeeps, OursKeepInv DEF unregister
<1>3. CASE \E e \in Exts : set_format_enabled(e) BY <1>3 DEF set_format_enabled, RegistrationInv
<1>4. CASE \E e \in Exts : Dropped(e) BY <1>4 DEF Dropped, RegistrationInv
<1>5. CASE \E e \in Exts : AnotherProgram(e) BY <1>5, AnotherProgramKeeps
<1>6. CASE UNCHANGED registrationVars BY <1>6 DEF registrationVars, RegistrationInv
<1> QED BY <1>1, <1>2, <1>3, <1>4, <1>5, <1>6 DEF RegistrationNext

(* UninstallLeavesNothing, for any extensions, formats and flags and any     *)
(* number of steps of other programs: unregister takes out every slot and    *)
(* value that points at the extension, and leaves no empty key behind.       *)
THEOREM UninstallAlwaysLeavesNothing == RegistrationSpec => UninstallLeavesNothing
<1> DEFINE LeavesNothing ==
      served # {} /\ unregister => served' = {} /\ \A e \in Exts :
            /\ ~PointsAtUs(keys'[e])
            /\ e \in FORMATS => ~LeftEmpty(keys'[e])
            /\ keys'[e].lists => ListsDisplaced(keys[e])
<1>1. RegistrationInv /\ [RegistrationNext]_registrationVars => LeavesNothing
  <2> SUFFICES ASSUME RegistrationInv, unregister, NEW e \in Exts
               PROVE  /\ served' = {}
                      /\ ~PointsAtUs(keys'[e])
                      /\ e \in FORMATS => ~LeftEmpty(keys'[e])
                      /\ keys'[e].lists => ListsDisplaced(keys[e])
    BY DEF unregister
  <2>1. served' = {} /\ keys'[e] = Uninstalled(keys[e]) BY DEF unregister
  <2>2. keys[e] \in ExtKeys /\ Rooted(keys[e]) /\ (e \in FORMATS => NoneHeldUp(keys[e])) BY DEF RegistrationInv
  <2> QED BY <2>1, <2>2, UninstalledIs
<1> QED BY <1>1, RegistrationStarts, RegistrationStep, PTL DEF RegistrationSpec, UninstallLeavesNothing

(* ForeignKept, for any extensions and formats: what another program put     *)
(* beside ours outlives every registration, update and uninstall of ours.    *)
THEOREM ForeignAlwaysKept == RegistrationSpec => ForeignKept
<1> DEFINE KeptNow ==
      keys' # keys /\ foreign' = foreign => \A e \in Exts :
        LET old == keys[e] new == keys'[e] IN
        /\ \A p \in Places :
            /\ old.preview[p] = "another" => new.preview[p] = "another"
            /\ old.thumb[p] = "another" => new.thumb[p] = "another" \/ e \in FORMATS \cap enabled
            /\ old.thumb[p] = "another" \/ old.preview[p] = "another" => new.shellex[p] /\ new.key[p]
            /\ old.values[p] => new.values[p] /\ new.key[p]
        /\ old.prop = "another" => new.prop = "another"
<1>1. RegistrationInv /\ [RegistrationNext]_registrationVars => KeptNow
  <2> SUFFICES ASSUME RegistrationInv, RegistrationNext, keys' # keys, foreign' = foreign, NEW e \in Exts
               PROVE  LET old == keys[e] new == keys'[e] IN
                      /\ \A p \in Places :
                          /\ old.preview[p] = "another" => new.preview[p] = "another"
                          /\ old.thumb[p] = "another" => new.thumb[p] = "another" \/ e \in FORMATS \cap enabled
                          /\ old.thumb[p] = "another" \/ old.preview[p] = "another" => new.shellex[p] /\ new.key[p]
                          /\ old.values[p] => new.values[p] /\ new.key[p]
                      /\ old.prop = "another" => new.prop = "another"
    BY Zenon DEF registrationVars
  <2>1. register \/ unregister
    <3>1. \A x \in Exts : ~AnotherProgram(x) BY AnotherProgramKeeps
    <3>2. \A x \in Exts : ~set_format_enabled(x) /\ ~Dropped(x) BY DEF set_format_enabled, Dropped
    <3> QED BY <3>1, <3>2 DEF RegistrationNext
  <2>2. OursKeep BY <2>1, RegisterKeeps, UnregisterKeeps
  <2> DEFINE old == keys[e]
             new == keys'[e]
  <2>3. Respects(e, old, new) BY <2>2 DEF OursKeep
  <2> HIDE DEF old, new
  <2>4. /\ \A p \in Places :
            /\ old.preview[p] = "another" => new.preview[p] = "another"
            /\ old.thumb[p] = "another" => new.thumb[p] = "another" \/ e \in FORMATS \cap enabled
            /\ old.thumb[p] = "another" \/ old.preview[p] = "another" => new.shellex[p] /\ new.key[p]
            /\ old.values[p] => new.values[p] /\ new.key[p]
        /\ old.prop = "another" => new.prop = "another"
    BY <2>3 DEF Respects, Spares, SparesThumb, Rooted, Served
  <2> QED BY <2>4 DEF old, new
<1> QED BY <1>1, RegistrationStarts, RegistrationStep, PTL DEF RegistrationSpec, ForeignKept

-----------------------------------------------------------------------------

(* The Settings dialog: the ticks, and what a Save stores of them.           *)

PageOf(state, shows, ticks, filter, rows, drag) ==
    [FMT_STATE |-> state, shows |-> shows, ticks |-> ticks, LAST_FILTER |-> filter,
     rows |-> rows, DRAG_SRC |-> drag]
IsPage(p) ==
    \E state, shows, ticks, filter, rows, drag :
        p = PageOf(state, shows, ticks, filter, rows, drag)

\* A page that shows, of the ticks in fmts, those of the rows that are there.
Ticks(p, fmts) ==
    IsPage(p) /\ p.FMT_STATE = fmts /\ p.shows \subseteq Formats /\ p.ticks = fmts \cap p.shows

\* Every tick is the user's, the file's or the registry's last.
TicksInv == meant \subseteq Formats /\ Ticks(page, meant)

\* While a Save waits the flags are what the dialog shows, and what it takes back are the
\* flags it changed.
FlagsInv ==
    /\ \E flags, order, shown : saved = [flags |-> flags, order |-> order, shown |-> shown]
    /\ saved.flags \subseteq Formats
    /\ \E at, for, old : dlg = [at |-> at, for |-> for, old |-> old]
    /\ dlg.for = "save" /\ dlg.at = "waits" => saved.flags = page.FMT_STATE /\ dlg.old \subseteq Formats
    /\ regsvr32 # "none" => dlg.at = "waits"

\* While regsvr32 is at work each format that is certain has either not been visited or has the
\* hook its flag asks for; and when regsvr32 succeeds it has visited them all.
HooksInv ==
    /\ left \subseteq Visits
    /\ regsvr32 = "succeeded" => left = {}
    /\ regsvr32 \in {"runs", "succeeded"} => \A f \in Formats \ unsure :
        /\ late = {} /\ <<f, "another">> \notin left
        /\ <<f, "mine">> \in left \/ (f \in hooked <=> f \in saved.flags)

DialogInv == TicksInv /\ FlagsInv /\ HooksInv

LEMMA PageMade ==
  ASSUME NEW state, NEW shows, NEW filter, NEW rows, NEW drag, NEW fmts, NEW ticks,
         state = fmts, shows \subseteq Formats, ticks = fmts \cap shows
  PROVE  Ticks(PageOf(state, shows, ticks, filter, rows, drag), fmts)
<1> DEFINE p == PageOf(state, shows, ticks, filter, rows, drag)
<1>1. IsPage(p) BY Zenon DEF IsPage
<1>2. p.FMT_STATE = state /\ p.shows = shows /\ p.ticks = ticks BY DEF PageOf
<1> HIDE DEF p
<1>3. Ticks(p, fmts) BY <1>1, <1>2 DEF Ticks
<1> QED BY <1>3 DEF p

(* What an update makes of a page. *)
LEMMA SetRows ==
  ASSUME NEW state, NEW shows, NEW ticks, NEW filter, NEW rows, NEW drag, NEW new
  PROVE  [PageOf(state, shows, ticks, filter, rows, drag) EXCEPT !.rows = new] = PageOf(state, shows, ticks, filter, new, drag)
BY DEF PageOf

LEMMA SetDrag ==
  ASSUME NEW state, NEW shows, NEW ticks, NEW filter, NEW rows, NEW drag, NEW new
  PROVE  [PageOf(state, shows, ticks, filter, rows, drag) EXCEPT !.DRAG_SRC = new] = PageOf(state, shows, ticks, filter, rows, new)
BY DEF PageOf

LEMMA SetFilter ==
  ASSUME NEW state, NEW shows, NEW ticks, NEW filter, NEW rows, NEW drag, NEW new
  PROVE  [PageOf(state, shows, ticks, filter, rows, drag) EXCEPT !.LAST_FILTER = new] = PageOf(state, shows, ticks, new, rows, drag)
BY DEF PageOf

LEMMA Populated ==
  ASSUME NEW p, IsPage(p), NEW text \in Texts
  PROVE  Ticks(populate_list(p, text), p.FMT_STATE)
<1>1. PICK state, shows, ticks, filter, rows, drag :
        p = PageOf(state, shows, ticks, filter, rows, drag)
  BY DEF IsPage
<1> PICK some : some = Matches[text] OBVIOUS
<1> PICK seen : seen = state \cap some OBVIOUS
<1>5. p.FMT_STATE = state BY <1>1 DEF PageOf
<1>6. populate_list(p, text) = [p EXCEPT !.shows = some, !.ticks = seen] BY <1>5 DEF populate_list
<1>2. populate_list(p, text) =
        PageOf(state, some, seen, filter, rows, drag)
  <2>a. [p EXCEPT !.shows = some, !.ticks = seen]
          = [[p EXCEPT !.shows = some] EXCEPT !.ticks = seen]
    OBVIOUS
  <2>b. [p EXCEPT !.shows = some] = PageOf(state, some, ticks, filter, rows, drag)
    BY <1>1 DEF PageOf
  <2>c. [PageOf(state, some, ticks, filter, rows, drag) EXCEPT !.ticks = seen]
          = PageOf(state, some, seen, filter, rows, drag)
    BY DEF PageOf
  <2> QED BY <2>a, <2>b, <2>c, <1>6
<1>3. Matches[text] \subseteq Formats BY DialogAssumption
<1> QED BY <1>2, <1>3, <1>5, PageMade

LEMMA ResetTicks ==
  ASSUME NEW p, IsPage(p), p.shows \subseteq Formats
  PROVE  Ticks(reset_formats(p), Formats)
<1>1. PICK state, shows, ticks, filter, rows, drag :
        p = PageOf(state, shows, ticks, filter, rows, drag)
  BY DEF IsPage
<1>2. reset_formats(p) =
        PageOf(Formats, shows, shows, filter, rows, drag)
  <2>1. p.shows = shows BY <1>1 DEF PageOf
  <2>2. reset_formats(p) = [p EXCEPT !.FMT_STATE = Formats, !.ticks = shows] BY <2>1 DEF reset_formats
  <2>a. [p EXCEPT !.FMT_STATE = Formats, !.ticks = shows]
          = [[p EXCEPT !.FMT_STATE = Formats] EXCEPT !.ticks = shows]
    OBVIOUS
  <2>b. [p EXCEPT !.FMT_STATE = Formats] = PageOf(Formats, shows, ticks, filter, rows, drag)
    BY <1>1 DEF PageOf
  <2>c. [PageOf(Formats, shows, ticks, filter, rows, drag) EXCEPT !.ticks = shows]
          = PageOf(Formats, shows, shows, filter, rows, drag)
    BY DEF PageOf
  <2> QED BY <2>a, <2>b, <2>c, <2>2
<1>3. shows \subseteq Formats BY <1>1 DEF PageOf
<1>4. Formats \cap shows = shows BY <1>3
<1> QED BY <1>2, <1>3, <1>4, PageMade

\* The rest of the page may change under the same ticks.
LEMMA SameTicks ==
  ASSUME NEW p, NEW fmts, Ticks(p, fmts), NEW rows, NEW drag, NEW filter
  PROVE  /\ Ticks([p EXCEPT !.rows = rows], fmts)
         /\ Ticks([p EXCEPT !.DRAG_SRC = drag], fmts)
         /\ Ticks([p EXCEPT !.LAST_FILTER = filter], fmts)
         /\ Ticks([p EXCEPT !.DRAG_SRC = drag, !.rows = rows], fmts)
<1>1. PICK state, shows, ticks, f, r, d :
        p = PageOf(state, shows, ticks, f, r, d)
  BY DEF Ticks, IsPage
<1>2. [p EXCEPT !.rows = rows] = PageOf(state, shows, ticks, f, rows, d)
  BY <1>1, SetRows
<1>4. [p EXCEPT !.DRAG_SRC = drag] = PageOf(state, shows, ticks, f, r, drag)
  BY <1>1, SetDrag
<1>5. [p EXCEPT !.LAST_FILTER = filter] = PageOf(state, shows, ticks, filter, r, d)
  BY <1>1, SetFilter
<1>6. [p EXCEPT !.DRAG_SRC = drag, !.rows = rows] = PageOf(state, shows, ticks, f, rows, drag)
  <2>a. [p EXCEPT !.DRAG_SRC = drag, !.rows = rows]
          = [[p EXCEPT !.DRAG_SRC = drag] EXCEPT !.rows = rows]
    OBVIOUS
  <2>b. [p EXCEPT !.DRAG_SRC = drag] = PageOf(state, shows, ticks, f, r, drag)
    BY <1>1 DEF PageOf
  <2>c. [PageOf(state, shows, ticks, f, r, drag) EXCEPT !.rows = rows]
          = PageOf(state, shows, ticks, f, rows, drag)
    BY DEF PageOf
  <2> QED BY <2>a, <2>b, <2>c
<1>3. state = fmts /\ shows \subseteq Formats /\ ticks = fmts \cap shows BY <1>1 DEF Ticks, PageOf
<1> QED BY <1>2, <1>3, <1>4, <1>5, <1>6, PageMade

LEMMA OpenedTicks ==
  ASSUME NEW s, s.flags \subseteq Formats
  PROVE  Ticks(Opened(s), s.flags)
<1> DEFINE blank == PageOf(s.flags, {}, {}, NoText, saved_menu_rows(s), 0)
<1>1. IsPage(blank) /\ blank.FMT_STATE = s.flags BY DEF IsPage, PageOf
<1>2. Opened(s) = populate_list(blank, Blank) BY DEF Opened, PageOf
<1> HIDE DEF blank
<1> QED BY <1>1, <1>2, Populated, DialogAssumption

LEMMA DialogStarts == DialogInit => DialogInv
<1> SUFFICES ASSUME DialogInit PROVE DialogInv
  OBVIOUS
<1>1. saved.flags = Formats BY DEF DialogInit
<1>2. Ticks(page, Formats) BY <1>1, OpenedTicks DEF DialogInit
<1>3. TicksInv BY <1>2 DEF TicksInv, DialogInit
<1>4. dlg = [at |-> "closed", for |-> "nobody", old |-> {}] BY DEF DialogInit, Idle
<1>5. FlagsInv BY <1>1, <1>4 DEF FlagsInv, DialogInit
<1>6. HooksInv BY DEF HooksInv, DialogInit
<1> QED BY <1>3, <1>5, <1>6 DEF DialogInv

\* regsvr32 is left alone: it is not at work, or the flags do not change
LEMMA HooksKept ==
  ASSUME HooksInv, UNCHANGED shell, regsvr32 = "none" \/ saved'.flags = saved.flags
  PROVE  HooksInv'
BY DEF HooksInv, shell

\* ... or it is gone
LEMMA HooksGone ==
  ASSUME NoRegsvr32
  PROVE  HooksInv'
BY DEF HooksInv, NoRegsvr32

-----------------------------------------------------------------------------

LEMMA OnPageKeeps ==
  ASSUME DialogInv, NEW p, OnPage(p), Ticks(p, meant)
  PROVE  DialogInv'
<1>1. page' = p /\ meant' = meant BY DEF OnPage
<1>2. TicksInv' BY <1>1 DEF TicksInv, DialogInv, Ticks, IsPage
<1>3. dlg.at = "idle" /\ UNCHANGED <<saved, shell, dlg>> BY DEF OnPage, AtRest, ShellVars
<1>4. FlagsInv' BY <1>3 DEF FlagsInv, DialogInv, shell
<1>5. HooksInv' BY <1>3, HooksKept DEF DialogInv
<1> QED BY <1>2, <1>4, <1>5 DEF DialogInv

LEMMA RowsKeep ==
  ASSUME DialogInv,
         \/ \E n \in DOMAIN page.rows : TickRow(n) \/ begin_menu_drag(n)
         \/ \E dest \in 0 .. Len(page.rows) : finish_menu_drag(dest)
         \/ CaptureLost \/ reset_menu_order \/ on_lang_change
  PROVE  DialogInv'
<1>0. Ticks(page, meant) BY DEF DialogInv, TicksInv
<1>1. PICK p : OnPage(p) /\ Ticks(p, meant)
  <2>1. CASE \E n \in DOMAIN page.rows : TickRow(n)
    <3> PICK n \in DOMAIN page.rows : TickRow(n) BY <2>1
    <3>1. OnPage([page EXCEPT !.rows = [page.rows EXCEPT ![n].on = ~@]]) BY Zenon DEF TickRow
    <3> QED BY <3>1, <1>0, SameTicks
  <2>2. CASE \E n \in DOMAIN page.rows : begin_menu_drag(n)
    BY <2>2, <1>0, SameTicks DEF begin_menu_drag
  <2>3. CASE \E dest \in 0 .. Len(page.rows) : finish_menu_drag(dest)
    <3> PICK dest \in 0 .. Len(page.rows) : finish_menu_drag(dest) BY <2>3
    <3>1. OnPage([page EXCEPT !.DRAG_SRC = 0,
                     !.rows = IF page.DRAG_SRC > Len(page.rows) THEN page.rows
                              ELSE Moved(page.rows, page.DRAG_SRC, dest)])
      BY Zenon DEF finish_menu_drag
    <3> QED BY <3>1, <1>0, SameTicks
  <2>4. CASE CaptureLost BY <2>4, <1>0, SameTicks DEF CaptureLost
  <2>5. CASE reset_menu_order
    <3>1. OnPage([page EXCEPT !.rows = default_menu_rows(Ticked(page.rows))]) BY <2>5, Zenon DEF reset_menu_order
    <3> QED BY <3>1, <1>0, SameTicks
  <2>6. CASE on_lang_change
    <3>1. OnPage([page EXCEPT !.LAST_FILTER = NoText]) BY <2>6 DEF on_lang_change, OnPage
    <3> QED BY <3>1, <1>0, SameTicks
  <2> QED BY <2>1, <2>2, <2>3, <2>4, <2>5, <2>6
<1> QED BY <1>1, OnPageKeeps

\* The flags are untouched while the thread is at rest and only the ticks change.
LEMMA AtRestKeeps ==
  ASSUME FlagsInv, HooksInv, dlg.at = "idle", UNCHANGED <<saved, shell, dlg>>
  PROVE  FlagsInv' /\ HooksInv'
<1>1. FlagsInv' BY DEF FlagsInv, shell
<1> QED BY <1>1, HooksKept

LEMMA FormatsKeep ==
  ASSUME DialogInv,
         \/ \E text \in Texts : Search(text)
         \/ \E some \in SUBSET page.shows, on \in BOOLEAN : Tick(some, on)
         \/ ResetFormats \/ load_defaults
  PROVE  DialogInv'
<1>0. TicksInv /\ FlagsInv /\ HooksInv /\ IsPage(page) BY DEF DialogInv, TicksInv, Ticks
<1>1. FlagsInv' /\ HooksInv'
  <2>1. dlg.at = "idle" /\ UNCHANGED <<saved, shell, dlg>>
    BY DEF Search, Tick, ResetFormats, load_defaults, AtRest, ShellVars
  <2> QED BY <2>1, <1>0, AtRestKeeps
<1>2. CASE \E text \in Texts : Search(text)
  <2> PICK text \in Texts : Search(text) BY <1>2
  <2>1. page' = [populate_list(page, text) EXCEPT !.LAST_FILTER = text] /\ meant' = meant BY DEF Search
  <2>2. Ticks(populate_list(page, text), meant) BY <1>0, Populated DEF TicksInv, Ticks
  <2>3. Ticks([populate_list(page, text) EXCEPT !.LAST_FILTER = text], meant) BY <2>2, SameTicks
  <2>4. TicksInv' BY <2>1, <2>3, <1>0 DEF TicksInv, Ticks, IsPage
  <2> QED BY <2>4, <1>1 DEF DialogInv
<1>3. CASE \E some \in SUBSET page.shows, on \in BOOLEAN : Tick(some, on)
  <2> PICK some \in SUBSET page.shows, on \in BOOLEAN : Tick(some, on) BY <1>3
  <2>1. PICK state, shows, ticks, filter, rows, drag :
          page = PageOf(state, shows, ticks, filter, rows, drag)
    BY <1>0 DEF IsPage
  <2>2. state = meant /\ shows \subseteq Formats /\ ticks = meant \cap shows /\ meant \subseteq Formats
        /\ some \subseteq shows
    BY <2>1, <1>0 DEF TicksInv, Ticks, PageOf
  <2>t. page.ticks = ticks /\ page.FMT_STATE = state BY <2>1 DEF PageOf
  <2>3. CASE on = TRUE
    <3>1. page' = [page EXCEPT !.ticks = @ \cup (some \ page.ticks), !.FMT_STATE = @ \cup (some \ page.ticks)]
          /\ meant' = meant \cup some
      BY <2>3, Zenon DEF Tick
    <3>2. page' = PageOf(state \cup (some \ ticks), shows, ticks \cup (some \ ticks), filter, rows, drag)
      <4>s. PICK shown : shown = ticks \cup (some \ ticks) OBVIOUS
      <4>m. PICK model : model = state \cup (some \ ticks) OBVIOUS
      <4>a. [page EXCEPT !.ticks = shown, !.FMT_STATE = model]
              = [[page EXCEPT !.ticks = shown] EXCEPT !.FMT_STATE = model]
        OBVIOUS
      <4>b. [page EXCEPT !.ticks = shown] = PageOf(state, shows, shown, filter, rows, drag)
        BY <2>1 DEF PageOf
      <4>c. [PageOf(state, shows, shown, filter, rows, drag) EXCEPT !.FMT_STATE = model]
              = PageOf(model, shows, shown, filter, rows, drag)
        BY DEF PageOf
      <4> QED BY <4>a, <4>b, <4>c, <4>s, <4>m, <3>1, <2>t
    <3>3. /\ state \cup (some \ ticks) = meant'
          /\ ticks \cup (some \ ticks) = meant' \cap shows /\ meant' \subseteq Formats
      BY <2>2, <3>1
    <3>4. Ticks(page', meant') BY <3>2, <3>3, <2>2, PageMade
    <3>5. TicksInv' BY <3>3, <3>4 DEF TicksInv, Ticks, IsPage
    <3> QED BY <3>5, <1>1 DEF DialogInv
  <2>4. CASE on = FALSE
    <3>1. page' = [page EXCEPT !.ticks = @ \ (some \cap page.ticks), !.FMT_STATE = @ \ (some \cap page.ticks)]
          /\ meant' = meant \ some
      BY <2>4, Zenon DEF Tick
    <3>2. page' = PageOf(state \ (some \cap ticks), shows, ticks \ (some \cap ticks), filter, rows, drag)
      <4>s. PICK shown : shown = ticks \ (some \cap ticks) OBVIOUS
      <4>m. PICK model : model = state \ (some \cap ticks) OBVIOUS
      <4>a. [page EXCEPT !.ticks = shown, !.FMT_STATE = model]
              = [[page EXCEPT !.ticks = shown] EXCEPT !.FMT_STATE = model]
        OBVIOUS
      <4>b. [page EXCEPT !.ticks = shown] = PageOf(state, shows, shown, filter, rows, drag)
        BY <2>1 DEF PageOf
      <4>c. [PageOf(state, shows, shown, filter, rows, drag) EXCEPT !.FMT_STATE = model]
              = PageOf(model, shows, shown, filter, rows, drag)
        BY DEF PageOf
      <4> QED BY <4>a, <4>b, <4>c, <4>s, <4>m, <3>1, <2>t
    <3>3. /\ state \ (some \cap ticks) = meant'
          /\ ticks \ (some \cap ticks) = meant' \cap shows /\ meant' \subseteq Formats
      BY <2>2, <3>1
    <3>4. Ticks(page', meant') BY <3>2, <3>3, <2>2, PageMade
    <3>5. TicksInv' BY <3>3, <3>4 DEF TicksInv, Ticks, IsPage
    <3> QED BY <3>5, <1>1 DEF DialogInv
  <2> QED BY <2>3, <2>4
<1>4. CASE ResetFormats \/ load_defaults
  <2>1. PICK p : IsPage(p) /\ p.shows \subseteq Formats /\ page' = reset_formats(p) /\ meant' = Formats
    <3>1. CASE ResetFormats BY <3>1, <1>0 DEF ResetFormats, TicksInv, Ticks
    <3>2. CASE load_defaults
      <4>1. Ticks([page EXCEPT !.rows = default_menu_rows(Items)], meant) BY <1>0, SameTicks DEF TicksInv
      <4> QED BY <4>1, <3>2 DEF load_defaults, Ticks
    <3> QED BY <3>1, <3>2, <1>4
  <2>2. Ticks(reset_formats(p), Formats) BY <2>1, ResetTicks
  <2>3. TicksInv' BY <2>1, <2>2 DEF TicksInv, Ticks, IsPage
  <2> QED BY <2>3, <1>1 DEF DialogInv
<1> QED BY <1>2, <1>3, <1>4

\* While the thread works on a Save, an Import or a Repair the page is as it was.
LEMMA PageKept ==
  ASSUME TicksInv, UNCHANGED <<page, meant>>
  PROVE  TicksInv'
BY DEF TicksInv, Ticks, IsPage

LEMMA SaveKeeps ==
  ASSUME DialogInv, StoreMenu \/ StoreFlags
  PROVE  DialogInv'
<1>0. TicksInv /\ FlagsInv /\ HooksInv BY DEF DialogInv
<1>1. TicksInv' BY <1>0, PageKept DEF StoreMenu, StoreFlags
<1>2. HooksInv'
  <2>1. UNCHANGED shell BY DEF StoreMenu, StoreFlags
  <2>2. regsvr32 = "none" BY <1>0 DEF FlagsInv, StoreMenu, StoreFlags, AtRest
  <2> QED BY <1>0, <2>1, <2>2, HooksKept
<1>3. PICK flags, order, shown : saved = [flags |-> flags, order |-> order, shown |-> shown]
  BY <1>0 DEF FlagsInv
<1>4. flags = saved.flags BY <1>3
<1>5. CASE StoreMenu
  <2>1. saved' = [flags |-> flags, order |-> TokensOf(page.rows), shown |-> Ticked(page.rows)]
    BY <1>5, <1>3 DEF StoreMenu
  <2>2. dlg' = [at |-> "stored", for |-> "save", old |-> {}] BY <1>5 DEF StoreMenu, Doing
  <2>3. regsvr32 = "none" /\ regsvr32' = "none" BY <1>5, <1>0 DEF StoreMenu, AtRest, FlagsInv, shell
  <2>4. saved'.flags = saved.flags BY <2>1, <1>4
  <2>5. \E f, o, s : saved' = [flags |-> f, order |-> o, shown |-> s] BY <2>1
  <2>6. FlagsInv' BY <2>2, <2>3, <2>4, <2>5, <1>0 DEF FlagsInv
  <2> QED BY <1>1, <1>2, <2>6 DEF DialogInv
<1>6. CASE StoreFlags
  <2> DEFINE changes == {f \in Formats : (f \in page.FMT_STATE) # (f \in saved.flags)}
  <2>1. saved' = [saved EXCEPT !.flags = page.FMT_STATE]
        /\ dlg' = IF changes = {} THEN Idle ELSE Doing("waits", "save", changes)
    BY <1>6, Zenon DEF StoreFlags
  <2>2. changes \subseteq Formats OBVIOUS
  <2> HIDE DEF changes
  <2>3. saved' = [flags |-> page.FMT_STATE, order |-> order, shown |-> shown] BY <2>1, <1>3
  <2>4. regsvr32 = "none" /\ regsvr32' = "none" /\ page' = page BY <1>6, <1>0 DEF StoreFlags, FlagsInv, shell
  <2>5. saved'.flags = page.FMT_STATE /\ saved'.flags \subseteq Formats
    BY <2>3, <1>0 DEF TicksInv, Ticks
  <2>6. \E at, for, old : dlg' = [at |-> at, for |-> for, old |-> old] BY <2>1 DEF Idle, Doing
  <2>7. dlg'.for = "save" => dlg'.old \subseteq Formats BY <2>1, <2>2 DEF Idle, Doing
  <2>8. \E f, o, s : saved' = [flags |-> f, order |-> o, shown |-> s] BY <2>3
  <2>9. FlagsInv' BY <2>4, <2>5, <2>6, <2>7, <2>8 DEF FlagsInv
  <2> QED BY <1>1, <1>2, <2>9 DEF DialogInv
<1> QED BY <1>5, <1>6

LEMMA ImportKeeps ==
  ASSUME DialogInv, import_settings_from_file \/ repair_associations
  PROVE  DialogInv'
<1>0. TicksInv /\ FlagsInv /\ HooksInv /\ IsPage(page) BY DEF DialogInv, TicksInv, Ticks
<1>1. CASE import_settings_from_file
  <2> PICK flags \in SUBSET Formats, order \in Orders, shown \in SUBSET Items :
        LET s == [flags |-> flags, order |-> order, shown |-> shown] IN
        /\ saved' = s /\ page' = refresh_from_settings(page, s) /\ meant' = flags
        /\ dlg' = IF flags = saved.flags THEN Idle ELSE Doing("waits", "import", {})
    BY <1>1 DEF import_settings_from_file
  <2> DEFINE s == [flags |-> flags, order |-> order, shown |-> shown]
  <2>1. saved' = s /\ s.flags = flags OBVIOUS
  <2>2. PICK p : IsPage(p) /\ p.FMT_STATE = flags /\ page' = populate_list(p, Blank)
    <3>1. PICK state, shows, ticks, filter, rows, drag :
            page = PageOf(state, shows, ticks, filter, rows, drag)
      BY <1>0 DEF IsPage
    <3>2. page' = populate_list([page EXCEPT !.rows = load_rows(page.rows, s), !.FMT_STATE = flags], Blank)
      BY <2>1, Zenon DEF refresh_from_settings
    <3> PICK read : read = load_rows(page.rows, s) OBVIOUS
    <3>3. [page EXCEPT !.rows = read, !.FMT_STATE = flags] =
            PageOf(flags, shows, ticks, filter, read, drag)
      <4>a. [page EXCEPT !.rows = read, !.FMT_STATE = flags]
              = [[page EXCEPT !.rows = read] EXCEPT !.FMT_STATE = flags]
        OBVIOUS
      <4>b. [page EXCEPT !.rows = read] = PageOf(state, shows, ticks, filter, read, drag)
        BY <3>1 DEF PageOf
      <4>c. [PageOf(state, shows, ticks, filter, read, drag) EXCEPT !.FMT_STATE = flags]
              = PageOf(flags, shows, ticks, filter, read, drag)
        BY DEF PageOf
      <4> QED BY <4>a, <4>b, <4>c
    <3>4. PageOf(flags, shows, ticks, filter, read, drag).FMT_STATE = flags BY DEF PageOf
    <3> QED BY <3>2, <3>3, <3>4 DEF IsPage
  <2>3. Ticks(populate_list(p, Blank), flags) BY <2>2, Populated, DialogAssumption
  <2>4. TicksInv' BY <2>2, <2>3 DEF TicksInv, Ticks, IsPage
  <2>5. regsvr32 = "none" /\ regsvr32' = "none"
    BY <1>1, <1>0 DEF import_settings_from_file, FlagsInv, AtRest, shell
  <2>6. \E at, for, old : dlg' = [at |-> at, for |-> for, old |-> old] BY DEF Idle, Doing
  <2>7. dlg'.for # "save" BY DEF Idle, Doing
  <2>8. \E f, o, sh : saved' = [flags |-> f, order |-> o, shown |-> sh] BY <2>1
  <2>9. FlagsInv' BY <2>1, <2>5, <2>6, <2>7, <2>8 DEF FlagsInv
  <2>10. HooksInv' BY <1>1, <1>0, <2>5, HooksKept DEF import_settings_from_file
  <2> QED BY <2>4, <2>9, <2>10 DEF DialogInv
<1>2. CASE repair_associations
  <2>1. TicksInv' BY <1>2, <1>0, PageKept DEF repair_associations
  <2>2. dlg' = [at |-> "waits", for |-> "repair", old |-> {}] /\ UNCHANGED <<saved, shell>>
    BY <1>2 DEF repair_associations, Doing, ShellVars
  <2>3. UNCHANGED regsvr32 BY <2>2 DEF shell
  <2>4. FlagsInv' BY <2>2, <2>3, <1>0 DEF FlagsInv
  <2>5. HooksInv' BY <2>2, <1>0, HooksKept
  <2> QED BY <2>1, <2>4, <2>5 DEF DialogInv
<1> QED BY <1>1, <1>2

\* a visit to one format leaves the others, and does what the flag asks
LEMMA VisitIs ==
  ASSUME FlagsInv, NEW f, NEW whose, Visit(<<f, whose>>)
  PROVE  /\ \A g \in Formats \ {f} : g \in hooked' <=> g \in hooked
         /\ whose = "mine" => (f \in hooked' <=> f \in saved.flags)
<1> DEFINE v == <<f, whose>>
<1>1. v[1] = f /\ v[2] = whose OBVIOUS
<1>2. hooked' \in IF whose = "another" THEN {hooked \cup {f}, hooked \ {f}}
                  ELSE IF f \in saved.flags THEN {hooked \cup {f}} ELSE {hooked \ {f}}
  BY <1>1 DEF Visit
<1> QED BY <1>2

LEMMA LaunchHooks ==
  ASSUME HooksInv, Launch
  PROVE  HooksInv'
<1>1. PICK whose \in {"mine", "another"} :
        left' = Formats \X {whose} /\ unsure' = IF whose = "mine" /\ late = {} THEN {} ELSE Formats
  BY DEF Launch
<1>2. left' \subseteq Visits BY <1>1 DEF Visits
<1>3. regsvr32' = "runs" /\ late' = late BY DEF Launch
<1>4. ASSUME NEW f \in Formats, f \notin unsure'
      PROVE  late' = {} /\ <<f, "another">> \notin left' /\ <<f, "mine">> \in left'
  <2>1. whose = "mine" /\ late = {} BY <1>1, <1>4
  <2> QED BY <1>1, <1>3, <1>4, <2>1
<1> QED BY <1>2, <1>3, <1>4 DEF HooksInv

LEMMA RegistersHooks ==
  ASSUME FlagsInv, HooksInv, Registers
  PROVE  HooksInv'
<1>1. PICK v \in left :
        /\ left' = left \ {v}
        /\ \/ Visit(v) /\ unsure' = unsure
           \/ hooked' = hooked /\ unsure' = unsure \cup {v[1]}
  BY DEF Registers
<1>2. regsvr32 = "runs" /\ regsvr32' = "runs" /\ late' = late /\ saved' = saved BY DEF Registers
<1>3. PICK f \in Formats, whose \in {"mine", "another"} : v = <<f, whose>> BY DEF HooksInv, Visits
<1>4. left' \subseteq Visits BY <1>1 DEF HooksInv
<1>5. ASSUME NEW g \in Formats, g \notin unsure'
      PROVE  /\ late' = {} /\ <<g, "another">> \notin left'
             /\ <<g, "mine">> \in left' \/ (g \in hooked' <=> g \in saved'.flags)
  <2>1. g \notin unsure BY <1>1, <1>5
  <2>2. /\ late = {} /\ <<g, "another">> \notin left
        /\ <<g, "mine">> \in left \/ (g \in hooked <=> g \in saved.flags)
    BY <1>2, <2>1 DEF HooksInv
  <2>3. CASE Visit(v)
    <3>1. Visit(<<f, whose>>) BY <1>3, <2>3
    <3>2. CASE g = f
      <4>1. whose = "mine" BY <1>1, <1>3, <2>2, <3>2
      <4> QED BY <1>1, <1>2, <2>2, <3>1, <3>2, <4>1, VisitIs
    <3>3. CASE g # f
      <4>1. g \in hooked' <=> g \in hooked BY <3>1, <3>3, VisitIs
      <4>2. <<g, "mine">> # v BY <1>3, <3>3
      <4> QED BY <1>1, <1>2, <2>2, <4>1, <4>2
    <3> QED BY <3>2, <3>3
  <2>4. CASE hooked' = hooked /\ unsure' = unsure \cup {v[1]}
    <3>1. v[1] = f BY <1>3
    <3>2. <<g, "mine">> # v BY <1>3, <1>5, <2>4, <3>1
    <3> QED BY <1>1, <1>2, <2>2, <2>4, <3>2
  <2> QED BY <1>1, <2>3, <2>4
<1> QED BY <1>2, <1>4, <1>5 DEF HooksInv

\* the rest of what becomes of the hooks while the thread waits
LEMMA HooksKeep ==
  ASSUME FlagsInv, HooksInv,
         Launch \/ Registers \/ Exits \/ LateRegisters \/ \E f \in Formats : TakenOver(f)
  PROVE  HooksInv'
<1>1. CASE Exits
  <2>1. left' = {} /\ UNCHANGED <<saved, hooked, late, unsure>> BY <1>1 DEF Exits
  <2>2. regsvr32 = "runs" /\ (regsvr32' = "failed" \/ (left = {} /\ regsvr32' = "succeeded"))
    BY <1>1 DEF Exits
  <2> QED BY <2>1, <2>2 DEF HooksInv
<1>2. CASE LateRegisters
  <2>1. late # {} /\ UNCHANGED <<saved, regsvr32, left, unsure>> BY <1>2 DEF LateRegisters
  <2>2. regsvr32 \in {"runs", "succeeded"} => Formats \ unsure = {} BY <2>1 DEF HooksInv
  <2> QED BY <2>1, <2>2 DEF HooksInv
<1>3. ASSUME NEW f \in Formats, TakenOver(f) PROVE HooksInv'
  <2>1. hooked' = hooked \ {f} /\ UNCHANGED <<saved, regsvr32, left, late>> BY <1>3 DEF TakenOver
  <2>2. regsvr32 # "none" => unsure' = unsure \cup {f} BY <1>3 DEF TakenOver
  <2> QED BY <2>1, <2>2 DEF HooksInv
<1> QED BY <1>1, <1>2, <1>3, LaunchHooks, RegistersHooks

\* regsvr32 and the wait for it
LEMMA ElevatedKeeps ==
  ASSUME DialogInv,
         \/ Launch \/ Registers \/ Exits \/ LateRegisters \/ \E f \in Formats : TakenOver(f)
         \/ ReturnsOk \/ ReturnsOtherwise
  PROVE  DialogInv'
<1>0. TicksInv /\ FlagsInv /\ HooksInv BY DEF DialogInv
<1>1. TicksInv'
  BY <1>0, PageKept DEF Launch, Registers, Exits, LateRegisters, TakenOver, ReturnsOk, ReturnsOtherwise
<1>2. CASE Launch \/ Registers \/ Exits
  <2>1. dlg' = dlg /\ saved' = saved /\ page' = page BY <1>2 DEF Launch, Registers, Exits
  <2>2. dlg.at = "waits" BY <1>2, <1>0 DEF Launch, Registers, Exits, FlagsInv
  <2>3. FlagsInv' BY <2>1, <2>2, <1>0 DEF FlagsInv
  <2> QED BY <2>3, <1>0, <1>1, <1>2, HooksKeep DEF DialogInv
<1>3. CASE LateRegisters \/ \E f \in Formats : TakenOver(f)
  <2>1. UNCHANGED <<saved, page, dlg, regsvr32>> BY <1>3 DEF LateRegisters, TakenOver
  <2>2. FlagsInv' BY <2>1, <1>0 DEF FlagsInv
  <2> QED BY <2>2, <1>0, <1>1, <1>3, HooksKeep DEF DialogInv
<1>4. CASE ReturnsOk
  <2>1. dlg' = [at |-> "idle", for |-> "nobody", old |-> {}] /\ regsvr32' = "none" /\ saved' = saved
    BY <1>4 DEF ReturnsOk, Idle, NoRegsvr32
  <2>2. FlagsInv' BY <2>1, <1>0 DEF FlagsInv
  <2>3. HooksInv' BY <1>4, HooksGone DEF ReturnsOk
  <2> QED BY <2>2, <2>3, <1>1 DEF DialogInv
<1>5. CASE ReturnsOtherwise
  <2>1. dlg' = [at |-> "idle", for |-> "nobody", old |-> {}] /\ regsvr32' = "none"
    BY <1>5 DEF ReturnsOtherwise, Idle, NoRegsvr32
  <2>2. saved' = IF dlg.for = "save" THEN RolledBack(saved, dlg.old) ELSE saved BY <1>5 DEF ReturnsOtherwise
  <2>3. (\E f, o, s : saved' = [flags |-> f, order |-> o, shown |-> s]) /\ saved'.flags \subseteq Formats
    <3>1. CASE dlg.for = "save"
      <4>1. PICK flags, order, shown : saved = [flags |-> flags, order |-> order, shown |-> shown]
        BY <1>0 DEF FlagsInv
      <4>2. saved' = [flags |-> (flags \ dlg.old) \cup (dlg.old \ flags), order |-> order, shown |-> shown]
        BY <3>1, <4>1, <2>2 DEF RolledBack
      <4>3. flags \subseteq Formats /\ dlg.old \subseteq Formats
        BY <3>1, <4>1, <1>5, <1>0 DEF FlagsInv, ReturnsOtherwise
      <4> QED BY <4>2, <4>3
    <3>2. CASE dlg.for # "save" BY <3>2, <2>2, <1>0 DEF FlagsInv
    <3> QED BY <3>1, <3>2
  <2>4. FlagsInv' BY <2>1, <2>3 DEF FlagsInv
  <2>5. HooksInv' BY <1>5, HooksGone DEF ReturnsOtherwise
  <2> QED BY <2>4, <2>5, <1>1 DEF DialogInv
<1> QED BY <1>2, <1>3, <1>4, <1>5

LEMMA OpensAndEnds ==
  ASSUME DialogInv, WM_CREATE \/ DialogEnds \/ Pull
  PROVE  DialogInv'
<1>0. TicksInv /\ FlagsInv /\ HooksInv BY DEF DialogInv
<1>1. CASE WM_CREATE \/ DialogEnds
  <2>1. page' = Opened(saved) /\ meant' = saved.flags /\ saved' = saved BY <1>1 DEF WM_CREATE, DialogEnds, ShellVars
  <2>2. Ticks(Opened(saved), saved.flags) /\ saved.flags \subseteq Formats BY <1>0, OpenedTicks DEF FlagsInv
  <2>3. TicksInv' BY <2>1, <2>2 DEF TicksInv, Ticks, IsPage
  <2>4. \E at \in {"idle", "closed"} : dlg' = [at |-> at, for |-> "nobody", old |-> {}]
    BY <1>1 DEF WM_CREATE, DialogEnds, Idle
  <2>5. regsvr32' = "none"
    <3>1. CASE WM_CREATE BY <3>1, <1>0 DEF WM_CREATE, ShellVars, shell, FlagsInv
    <3>2. CASE DialogEnds BY <3>2 DEF DialogEnds, NoRegsvr32
    <3> QED BY <1>1, <3>1, <3>2
  <2>6. dlg'.for = "nobody" /\ \E at, for, old : dlg' = [at |-> at, for |-> for, old |-> old]
    <3> PICK at \in {"idle", "closed"} : dlg' = [at |-> at, for |-> "nobody", old |-> {}] BY <2>4
    <3> QED OBVIOUS
  <2>7. FlagsInv' BY <2>1, <2>5, <2>6, <1>0 DEF FlagsInv
  <2>8. HooksInv'
    <3>1. CASE WM_CREATE BY <3>1, <1>0, HooksKept DEF WM_CREATE, ShellVars
    <3>2. CASE DialogEnds BY <3>2, HooksGone DEF DialogEnds
    <3> QED BY <1>1, <3>1, <3>2
  <2> QED BY <2>3, <2>7, <2>8 DEF DialogInv
<1>2. CASE Pull
  <2>1. TicksInv' BY <1>2, <1>0, PageKept DEF Pull
  <2>2. PICK o : saved' = [saved EXCEPT !.order = o] BY <1>2 DEF Pull
  <2>3. PICK flags, order, shown : saved = [flags |-> flags, order |-> order, shown |-> shown]
    BY <1>0 DEF FlagsInv
  <2>4. saved' = [flags |-> flags, order |-> o, shown |-> shown] BY <2>2, <2>3
  <2>5. saved'.flags = saved.flags BY <2>3, <2>4
  <2>6. UNCHANGED <<shell, page, dlg>> BY <1>2 DEF Pull
  <2>7. \E f, oo, s : saved' = [flags |-> f, order |-> oo, shown |-> s] BY <2>4
  <2>8. FlagsInv' BY <2>5, <2>6, <2>7, <1>0 DEF FlagsInv, shell
  <2>9. HooksInv' BY <2>5, <2>6, <1>0, HooksKept
  <2> QED BY <2>1, <2>8, <2>9 DEF DialogInv
<1> QED BY <1>1, <1>2

LEMMA DialogNextKeeps == DialogInv /\ [DialogNext]_dialogState => DialogInv'
<1> SUFFICES ASSUME DialogInv, [DialogNext]_dialogState PROVE DialogInv'
  OBVIOUS
<1>1. CASE UNCHANGED dialogState
  BY <1>1 DEF dialogState, DialogInv, TicksInv, FlagsInv, HooksInv, Ticks, IsPage
<1>2. CASE DialogNext
  BY <1>2, RowsKeep, FormatsKeep, SaveKeeps, ImportKeeps, ElevatedKeeps, OpensAndEnds DEF DialogNext
<1> QED BY <1>1, <1>2

(* TicksAreTrue, for any formats and searches: a tick is neither lost nor    *)
(* changed by searching, resetting or what happens to hidden rows.           *)
THEOREM TicksAreAlwaysTrue == DialogSpec => []TicksAreTrue
<1>1. DialogInv => TicksAreTrue BY DEF DialogInv, TicksInv, Ticks, TicksAreTrue
<1> QED BY <1>1, DialogStarts, DialogNextKeeps, PTL DEF DialogSpec

(* SaveStoresWhatIsShown, for any formats and whatever regsvr32 does: a Save *)
(* that ends well stored the ticks of all formats, and one that does not     *)
(* took back what it had stored; and where Reg::Ok comes back the hooks are  *)
(* those of the flags, but for the formats whose keys refused or were taken  *)
(* over, and unless another account answered or an earlier regsvr32 that was *)
(* given up went on beside this one.                                         *)
THEOREM SaveAlwaysStoresWhatIsShown == DialogSpec => SaveStoresWhatIsShown
<1> DEFINE Stores ==
      /\ dlg.for = "save" /\ ReturnsOk => saved'.flags = meant
      /\ dlg.for = "save" /\ ReturnsOtherwise => dlg.old = {f \in Formats : (f \in saved'.flags) # (f \in meant)}
      /\ ReturnsOk => \A f \in Formats \ unsure : f \in hooked <=> f \in saved.flags
<1>1. DialogInv => Stores
  <2> SUFFICES ASSUME DialogInv PROVE Stores
    OBVIOUS
  <2>0. TicksInv /\ FlagsInv /\ HooksInv BY DEF DialogInv
  <2>1. dlg.for = "save" /\ ReturnsOk => saved'.flags = meant
    BY <2>0 DEF ReturnsOk, FlagsInv, TicksInv, Ticks
  <2>2. ReturnsOk => \A f \in Formats \ unsure : f \in hooked <=> f \in saved.flags
    BY <2>0 DEF ReturnsOk, HooksInv
  <2>3. ASSUME dlg.for = "save", ReturnsOtherwise
        PROVE  dlg.old = {f \in Formats : (f \in saved'.flags) # (f \in meant)}
    <3>1. PICK flags, order, shown : saved = [flags |-> flags, order |-> order, shown |-> shown]
      BY <2>0 DEF FlagsInv
    <3>2. saved' = [flags |-> (flags \ dlg.old) \cup (dlg.old \ flags), order |-> order, shown |-> shown]
      BY <2>3, <3>1 DEF RolledBack, ReturnsOtherwise
    <3>3. flags = meant /\ dlg.old \subseteq Formats
      BY <2>3, <3>1, <2>0 DEF FlagsInv, ReturnsOtherwise, TicksInv, Ticks
    <3>4. saved'.flags = (meant \ dlg.old) \cup (dlg.old \ meant) BY <3>2, <3>3
    <3> QED BY <3>3, <3>4
  <2> QED BY <2>1, <2>2, <2>3
<1> QED BY <1>1, DialogStarts, DialogNextKeeps, PTL DEF DialogSpec, SaveStoresWhatIsShown

-----------------------------------------------------------------------------
(* The menu list of the Settings dialog: every item once, dividers between   *)
(* items, and what is stored reads back.                                     *)

RowState == [is : Items \cup {Sep}, on : BOOLEAN]

\* Rows that have every item once; a divider has no tick.
RowsOnce(rows) ==
    /\ rows \in Seq(RowState)
    /\ \A n \in 1..Len(rows) : IsDivider(rows[n]) => rows[n].on = FALSE
    /\ \A i \in Items : \E n \in 1..Len(rows) :
        rows[n].is = i /\ \A m \in 1..Len(rows) : rows[m].is = i => m = n

\* A divider follows a row that is none ...
Parted(rows) == \A n \in 1..Len(rows) : IsDivider(rows[n]) => n > 1 /\ ~IsDivider(rows[n - 1])

\* ... and is followed by one.
Neat(rows) == \A n \in 1..Len(rows) : IsDivider(rows[n]) => n \notin {1, Len(rows)} /\ ~IsDivider(rows[n + 1])

WholeRows(rows) == RowsOnce(rows) /\ Neat(rows)

LEMMA RowIs ==
    ASSUME NEW r \in RowState PROVE r.is \in Items \cup {Sep} /\ r.on \in BOOLEAN /\ r = Row(r.is, r.on)
BY DEF RowState, Row

LEMMA RowMade ==
    ASSUME NEW i \in Items \cup {Sep}, NEW on \in BOOLEAN
    PROVE  Row(i, on) \in RowState /\ Row(i, on).is = i /\ Row(i, on).on = on
BY DEF RowState, Row

LEMMA WholeIsNeat ==
    ASSUME NEW rows, WholeRows(rows), NEW n \in 1..Len(rows), IsDivider(rows[n])
    PROVE  n > 1 /\ n < Len(rows) /\ ~IsDivider(rows[n - 1]) /\ ~IsDivider(rows[n + 1])
<1>1. PICK N \in Nat : N = Len(rows) BY DEF WholeRows, RowsOnce
<1>2. n \in 1..N /\ n # 1 /\ n # N /\ ~IsDivider(rows[n + 1]) BY <1>1 DEF WholeRows, Neat
<1>3. n - 1 \in 1..N /\ (n - 1) + 1 = n BY <1>2
<1>4. IsDivider(rows[n - 1]) => ~IsDivider(rows[(n - 1) + 1]) BY <1>1, <1>3 DEF WholeRows, Neat
<1> QED BY <1>1, <1>2, <1>3, <1>4

\* What normalize_rows takes from rows that have every item once: dividers only.
LEMMA DividedOnce ==
    ASSUME NEW rows, RowsOnce(rows)
    PROVE  RowsOnce(Divided(rows)) /\ Parted(Divided(rows))
<1>1. PICK N \in Nat : N = Len(rows) /\ DOMAIN rows = 1..N BY DEF RowsOnce
<1>2. PICK K : K = {n \in DOMAIN rows : ~IsDivider(rows[n]) \/ (n > 1 /\ ~IsDivider(rows[n - 1]))} OBVIOUS
<1>3. PICK kept : kept = Sift(rows, K) /\ kept = Divided(rows) BY <1>2 DEF Divided
<1>4. rows \in Seq(RowState) /\ K \in SUBSET (DOMAIN rows) BY <1>2 DEF RowsOnce
<1>5. PICK p : Picks(p, kept, rows, K, RowState) BY <1>3, <1>4, SiftIs
<1>6. PICK L \in Nat : L = Len(kept) /\ kept \in Seq(RowState) BY <1>5 DEF Picks
<1>7. /\ p \in [1..L -> K] /\ \A i \in 1..L : kept[i] = rows[p[i]]
      /\ \A k \in K : \E i \in 1..L : p[i] = k
  BY <1>5, <1>6 DEF Picks
<1>8. \A i \in 1..L : p[i] \in 1..N /\ p[i] \in K BY <1>1, <1>4, <1>7
<1>9. \A i \in 1..L : IsDivider(kept[i]) => kept[i].on = FALSE BY <1>1, <1>7, <1>8 DEF RowsOnce
<1>10. ASSUME NEW i \in Items
       PROVE  \E n \in 1..L : kept[n].is = i /\ \A m \in 1..L : kept[m].is = i => m = n
  <2>1. PICK n \in 1..N : rows[n].is = i /\ \A m \in 1..N : rows[m].is = i => m = n BY <1>1 DEF RowsOnce
  <2>2. n \in K BY <1>1, <1>2, <2>1, DialogAssumption DEF IsDivider
  <2>3. PICK j \in 1..L : p[j] = n BY <1>7, <2>2
  <2>4. kept[j].is = i BY <1>7, <2>1, <2>3
  <2>5. ASSUME NEW m \in 1..L, kept[m].is = i PROVE m = j
    <3>1. rows[p[m]].is = i /\ p[m] \in 1..N BY <1>7, <1>8, <2>5
    <3>2. p[m] = n BY <2>1, <3>1
    <3> QED BY <1>5, <1>6, <2>3, <3>2, PicksEachOnce
  <2> QED BY <2>4, <2>5
<1>11. ASSUME NEW i \in 1..L, IsDivider(kept[i])
       PROVE  i > 1 /\ ~IsDivider(kept[i - 1])
  <2>1. PICK a : a = p[i] OBVIOUS
  <2>2. a \in K /\ a \in 1..N /\ IsDivider(rows[a]) BY <1>7, <1>8, <1>11, <2>1
  <2>3. a > 1 /\ ~IsDivider(rows[a - 1]) BY <1>2, <2>2
  <2>4. a - 1 \in K BY <1>1, <1>2, <2>2, <2>3
  <2>5. i > 1 /\ i - 1 \in 1..L /\ a - 1 <= p[i - 1]
    <3>1. a - 1 < p[i] BY <2>1, <2>2
    <3> QED BY <1>5, <1>6, <2>4, <3>1, PicksNext
  <2>6. p[i - 1] < p[i] BY <1>5, <1>6, <2>5 DEF Picks
  <2>7. p[i - 1] \in 1..N BY <1>8, <2>5
  <2>8. p[i - 1] = a - 1 BY <2>1, <2>2, <2>5, <2>6, <2>7
  <2>9. kept[i - 1] = rows[a - 1] BY <1>7, <2>5, <2>8
  <2> QED BY <2>3, <2>5, <2>9
<1>12. RowsOnce(kept) BY <1>6, <1>9, <1>10 DEF RowsOnce
<1>13. Parted(kept) BY <1>6, <1>11 DEF Parted
<1> QED BY <1>3, <1>12, <1>13

\* normalize_rows makes such rows whole ...
LEMMA NormalizeWhole ==
    ASSUME NEW rows, RowsOnce(rows) PROVE WholeRows(normalize_rows(rows))
<1>1. PICK kept : kept = Divided(rows) OBVIOUS
<1>2. RowsOnce(kept) /\ Parted(kept) BY <1>1, DividedOnce
<1>3. PICK L \in Nat : L = Len(kept) BY <1>2 DEF RowsOnce
<1>4. kept \in Seq(RowState) BY <1>2 DEF RowsOnce
<1>5. CASE kept # <<>> /\ IsDivider(Last(kept))
  <2>1. L > 0 /\ IsDivider(kept[L]) BY <1>3, <1>4, <1>5 DEF Last
  <2>2. PICK new : new = Front(kept) /\ new = normalize_rows(rows) BY <1>1, <1>5 DEF normalize_rows
  <2>3. /\ new \in Seq(RowState) /\ Len(new) = L - 1
        /\ \A n \in 1..L - 1 : new[n] = kept[n]
    BY <1>3, <1>4, <2>1, <2>2 DEF Front
  <2>4. ASSUME NEW n \in 1..L - 1, IsDivider(new[n])
        PROVE  n \notin {1, L - 1} /\ ~IsDivider(new[n + 1]) /\ new[n].on = FALSE
    <3>1. n \in 1..L /\ IsDivider(kept[n]) /\ L \in 1..L /\ n + 1 \in 1..L BY <2>1, <2>3, <2>4
    <3>2. n > 1 BY <1>2, <1>3, <3>1 DEF Parted
    <3>3. ~IsDivider(kept[L - 1]) BY <1>2, <1>3, <2>1, <3>1 DEF Parted
    <3>4. n # L - 1 BY <3>1, <3>3
    <3>5. ~IsDivider(kept[n + 1])
      <4>1. (n + 1) - 1 = n BY <3>1
      <4> QED BY <1>2, <1>3, <3>1, <4>1 DEF Parted
    <3>6. n + 1 \in 1..L - 1 BY <3>1, <3>4
    <3>7. kept[n].on = FALSE BY <1>2, <1>3, <3>1 DEF RowsOnce
    <3> QED BY <2>3, <3>2, <3>4, <3>5, <3>6, <3>7
  <2>5. ASSUME NEW i \in Items
        PROVE  \E n \in 1..L - 1 : new[n].is = i /\ \A m \in 1..L - 1 : new[m].is = i => m = n
    <3>1. PICK n \in 1..L : kept[n].is = i /\ \A m \in 1..L : kept[m].is = i => m = n
      BY <1>2, <1>3 DEF RowsOnce
    <3>2. n # L BY <2>1, <3>1, DialogAssumption DEF IsDivider
    <3>3. n \in 1..L - 1 BY <3>1, <3>2
    <3>4. \A m \in 1..L - 1 : m \in 1..L BY <2>1
    <3> QED BY <2>3, <3>1, <3>3, <3>4
  <2>6. PICK N \in Nat : N = L - 1 BY <2>1
  <2>a. \A n \in 1..N : IsDivider(new[n]) => new[n].on = FALSE BY <2>4, <2>6
  <2>b. \A i \in Items : \E n \in 1..N : new[n].is = i /\ \A m \in 1..N : new[m].is = i => m = n
    BY <2>5, <2>6
  <2>c. new \in Seq(RowState) /\ Len(new) = N BY <2>3, <2>6
  <2>7. RowsOnce(new) BY <2>a, <2>b, <2>c, Zenon DEF RowsOnce
  <2>8. Neat(new) BY <2>3, <2>4, <2>6 DEF Neat
  <2> QED BY <2>2, <2>7, <2>8 DEF WholeRows
<1>6. CASE ~(kept # <<>> /\ IsDivider(Last(kept)))
  <2>1. normalize_rows(rows) = kept BY <1>1, <1>6 DEF normalize_rows
  <2>2. ASSUME NEW n \in 1..L, IsDivider(kept[n])
        PROVE  n \notin {1, L} /\ ~IsDivider(kept[n + 1])
    <3>1. n > 1 BY <1>2, <1>3, <2>2 DEF Parted
    <3>2. L > 0 /\ kept # <<>> BY <1>3, <2>2
    <3>3. ~IsDivider(kept[L]) BY <1>3, <1>6, <3>2 DEF Last
    <3>4. n # L BY <2>2, <3>3
    <3>5. n + 1 \in 1..L /\ (n + 1) - 1 = n BY <2>2, <3>4
    <3>6. ~IsDivider(kept[n + 1]) BY <1>2, <1>3, <2>2, <3>5 DEF Parted
    <3> QED BY <3>1, <3>4, <3>6
  <2>3. Neat(kept) BY <1>3, <2>2 DEF Neat
  <2> QED BY <1>2, <2>1, <2>3 DEF WholeRows
<1> QED BY <1>5, <1>6

\* ... and leaves rows that are.
LEMMA NormalizeLeaves ==
    ASSUME NEW rows, WholeRows(rows) PROVE normalize_rows(rows) = rows
<1>1. PICK N \in Nat : N = Len(rows) /\ DOMAIN rows = 1..N /\ rows \in Seq(RowState)
  BY DEF WholeRows, RowsOnce
<1>2. PICK K : K = {n \in DOMAIN rows : ~IsDivider(rows[n]) \/ (n > 1 /\ ~IsDivider(rows[n - 1]))} OBVIOUS
<1>3. \A n \in 1..N : ~IsDivider(rows[n]) \/ (n > 1 /\ ~IsDivider(rows[n - 1])) BY <1>1, WholeIsNeat
<1>4. K = 1..N BY <1>1, <1>2, <1>3
<1>5. PICK kept : kept = Sift(rows, 1..N) /\ kept = Divided(rows) BY <1>2, <1>4 DEF Divided
<1>6. kept \in Seq(RowState) /\ Len(kept) = N /\ \A n \in 1..N : kept[n] = rows[n]
  <2>1. N <= Len(rows) BY <1>1
  <2>2. rows \in Seq(RowState) BY <1>1
  <2>3. /\ Sift(rows, 1..N) \in Seq(RowState) /\ Len(Sift(rows, 1..N)) = N
        /\ \A n \in 1..N : Sift(rows, 1..N)[n] = rows[n]
    BY <2>1, <2>2, SiftFirst, Zenon
  <2> QED BY <1>5, <2>3, Zenon
<1>7. kept = rows BY <1>1, <1>6
<1>8. ASSUME rows # <<>> PROVE ~IsDivider(Last(rows))
  <2>1. N \in 1..N BY <1>1, <1>8
  <2>2. IsDivider(rows[N]) => N < N BY <1>1, <2>1, WholeIsNeat
  <2> QED BY <1>1, <2>2 DEF Last
<1> QED BY <1>5, <1>7, <1>8 DEF normalize_rows

\* The items that the menu's own order has, whatever order is stored.
LEMMA RestIs ==
    \E rest : /\ rest = Sift(DefaultTokens, {n \in DOMAIN DefaultTokens : DefaultTokens[n] # Sep})
              /\ rest \in Seq(Items)
              /\ \A i \in Items : \E n \in 1..Len(rest) : rest[n] = i
<1>1. PICK rest, K : /\ K = {n \in DOMAIN DefaultTokens : DefaultTokens[n] # Sep}
                     /\ rest = Sift(DefaultTokens, K)
  OBVIOUS
<1>2. PICK T : T = Items \cup {Sep} /\ DefaultTokens \in Seq(T) BY DialogAssumption
<1>3. K \in SUBSET (DOMAIN DefaultTokens) BY <1>1
<1>4. PICK p : Picks(p, rest, DefaultTokens, K, T) BY <1>1, <1>2, <1>3, SiftIs
<1>5. PICK L \in Nat : L = Len(rest) /\ rest \in Seq(T) BY <1>4 DEF Picks
<1>6. /\ p \in [1..L -> K] /\ \A i \in 1..L : rest[i] = DefaultTokens[p[i]]
      /\ \A k \in K : \E i \in 1..L : p[i] = k
  BY <1>4, <1>5 DEF Picks
<1>7. \A i \in 1..L : rest[i] \in Items
  <2> SUFFICES ASSUME NEW i \in 1..L PROVE rest[i] \in Items OBVIOUS
  <2>1. p[i] \in K BY <1>6
  <2>2. rest[i] # Sep BY <1>1, <1>6, <2>1
  <2>3. rest[i] \in T BY <1>5
  <2> QED BY <1>2, <2>2, <2>3
<1>8. rest \in Seq(Items) BY <1>5, <1>7
<1>9. ASSUME NEW i \in Items PROVE \E n \in 1..L : rest[n] = i
  <2>1. PICK k \in DOMAIN DefaultTokens : DefaultTokens[k] = i BY DialogAssumption DEF Range
  <2>2. k \in K BY <1>1, <2>1, DialogAssumption
  <2>3. PICK n \in 1..L : p[n] = k BY <1>6, <2>2
  <2> QED BY <1>6, <2>1, <2>3
<1> QED BY <1>1, <1>5, <1>8, <1>9

\* Of a token that is repeated the first stays.
Firsts(all) == {n \in DOMAIN all : all[n] = Sep \/ (all[n] \in Items /\ \A m \in 1..n - 1 : all[m] # all[n])}

\* What menu_rows_from_tokens makes of the tokens that stay.
RowsOf(kept, shown) == [n \in DOMAIN kept |-> Row(kept[n], kept[n] # Sep /\ kept[n] \in shown)]

LEMMA TokensRead ==
    ASSUME NEW tokens, NEW shown, NEW rest,
           rest = Sift(DefaultTokens, {n \in DOMAIN DefaultTokens : DefaultTokens[n] # Sep})
    PROVE  menu_rows_from_tokens(tokens, shown) =
             normalize_rows(RowsOf(Sift(tokens \o rest, Firsts(tokens \o rest)), shown))
BY Zenon DEF menu_rows_from_tokens, RowsOf, Firsts

\* Whatever tokens are stored, the rows they give are whole.
LEMMA TokensWhole ==
    ASSUME NEW T, NEW tokens \in Seq(T), NEW shown
    PROVE  WholeRows(menu_rows_from_tokens(tokens, shown))
<1>1. PICK rest : /\ rest = Sift(DefaultTokens, {n \in DOMAIN DefaultTokens : DefaultTokens[n] # Sep})
                  /\ rest \in Seq(Items)
                  /\ \A i \in Items : \E n \in 1..Len(rest) : rest[n] = i
  BY RestIs
<1>2. PICK all, K, kept : all = tokens \o rest /\ K = Firsts(all) /\ kept = Sift(all, K) OBVIOUS
<1>3. PICK U : U = T \cup Items OBVIOUS
<1>r. rest \in Seq(Items) /\ \A i \in Items : \E n \in 1..Len(rest) : rest[n] = i BY <1>1, Zenon
<1>4. PICK a, b \in Nat : a = Len(tokens) /\ b = Len(rest)
  <2>1. Len(tokens) \in Nat /\ Len(rest) \in Nat BY <1>r
  <2> QED BY <2>1
<1>5. /\ all \in Seq(U) /\ Len(all) = a + b /\ DOMAIN all = 1..a + b
      /\ \A n \in 1..b : all[a + n] = rest[n]
  BY <1>r, <1>2, <1>3, <1>4
<1>6. K \in SUBSET (DOMAIN all) BY <1>2 DEF Firsts
<1>7. PICK p : Picks(p, kept, all, K, U) BY <1>2, <1>5, <1>6, SiftIs
<1>8. PICK L \in Nat : L = Len(kept) /\ kept \in Seq(U) /\ DOMAIN kept = 1..L BY <1>7 DEF Picks
<1>9. /\ p \in [1..L -> K] /\ \A i \in 1..L : kept[i] = all[p[i]]
      /\ \A k \in K : \E i \in 1..L : p[i] = k
  BY <1>7, <1>8 DEF Picks
<1>10. \A i \in 1..L : p[i] \in K /\ p[i] \in 1..a + b BY <1>5, <1>6, <1>9
<1>11. \A i \in 1..L : kept[i] \in Items \cup {Sep} BY <1>2, <1>9, <1>10 DEF Firsts
<1>12. ASSUME NEW i \in Items
       PROVE  \E n \in 1..L : kept[n] = i /\ \A m \in 1..L : kept[m] = i => m = n
  <2>1. PICK Where : Where = {n \in 1..a + b : all[n] = i} OBVIOUS
  <2>2. Where # {}
    <3>1. PICK n \in 1..b : rest[n] = i BY <1>r, <1>4
    <3>2. a + n \in 1..a + b BY <1>4
    <3> QED BY <1>5, <2>1, <3>1, <3>2
  <2>3. Where \subseteq Nat BY <2>1
  <2>4. PICK k \in Where : \A y \in Where : k <= y BY <2>2, <2>3, LeastOf
  <2>5. k \in 1..a + b /\ all[k] = i BY <2>1, <2>4
  <2>6. \A m \in 1..k - 1 : all[m] # all[k]
    <3> SUFFICES ASSUME NEW m \in 1..k - 1, all[m] = i PROVE FALSE BY <2>5
    <3>1. m \in 1..a + b /\ m < k /\ m \in Nat /\ k \in Nat BY <2>5
    <3>2. m \in Where BY <2>1, <3>1
    <3>3. k <= m BY <2>4, <3>2
    <3> QED BY <3>1, <3>3
  <2>7. k \in K BY <1>2, <1>5, <2>5, <2>6 DEF Firsts
  <2>8. PICK n \in 1..L : p[n] = k BY <1>9, <2>7
  <2>9. kept[n] = i BY <1>9, <2>5, <2>8
  <2>10. ASSUME NEW m \in 1..L, kept[m] = i PROVE m = n
    <3>1. PICK c : c = p[m] OBVIOUS
    <3>2. c \in K /\ c \in 1..a + b /\ all[c] = i BY <1>9, <1>10, <2>10, <3>1
    <3>3. \A x \in 1..c - 1 : all[x] # all[c] BY <1>2, <3>2, DialogAssumption DEF Firsts
    <3>4. c \in Where BY <2>1, <3>2
    <3>5. k <= c BY <2>4, <3>4
    <3>6. ~(k < c)
      <4>1. k < c => k \in 1..c - 1 BY <2>5, <3>2
      <4> QED BY <2>5, <3>2, <3>3, <4>1
    <3>7. c = k BY <2>5, <3>2, <3>5, <3>6
    <3>8. p[m] = p[n] BY <2>8, <3>1, <3>7
    <3> QED BY <1>7, <1>8, <3>8, PicksEachOnce
  <2> QED BY <2>9, <2>10
<1>13. PICK rows : rows = RowsOf(kept, shown) OBVIOUS
<1>14. \A n \in 1..L : rows[n] = Row(kept[n], kept[n] # Sep /\ kept[n] \in shown) BY <1>8, <1>13 DEF RowsOf
<1>15. DOMAIN rows = 1..L BY <1>8, <1>13 DEF RowsOf
<1>16. \A n \in 1..L : rows[n] \in RowState /\ rows[n].is = kept[n] /\ (IsDivider(rows[n]) => rows[n].on = FALSE)
  <2> SUFFICES ASSUME NEW n \in 1..L
               PROVE  rows[n] \in RowState /\ rows[n].is = kept[n] /\ (IsDivider(rows[n]) => rows[n].on = FALSE)
    OBVIOUS
  <2>1. PICK on : on = (kept[n] # Sep /\ kept[n] \in shown) /\ on \in BOOLEAN OBVIOUS
  <2>2. rows[n] = Row(kept[n], on) BY <1>14, <2>1
  <2>3. kept[n] \in Items \cup {Sep} BY <1>11
  <2>4. rows[n] \in RowState /\ rows[n].is = kept[n] /\ rows[n].on = on BY <2>1, <2>2, <2>3, RowMade
  <2> QED BY <2>1, <2>4 DEF IsDivider
<1>17. rows \in Seq(RowState) /\ Len(rows) = L
  <2>1. rows = [n \in 1..L |-> rows[n]] BY <1>8, <1>13 DEF RowsOf
  <2>2. rows \in [1..L -> RowState] BY <1>16, <2>1
  <2> QED BY <1>8, <2>2
<1>18. RowsOnce(rows)
  <2>1. \A i \in Items : \E n \in 1..L : rows[n].is = i /\ \A m \in 1..L : rows[m].is = i => m = n
    BY <1>12, <1>16
  <2>2. \A n \in 1..L : IsDivider(rows[n]) => rows[n].on = FALSE BY <1>16
  <2> QED BY <1>17, <2>1, <2>2, Zenon DEF RowsOnce
<1>19. menu_rows_from_tokens(tokens, shown) = normalize_rows(rows) BY <1>1, <1>2, <1>13, TokensRead
<1> QED BY <1>18, <1>19, NormalizeWhole

\* What is stored of whole rows reads back as those rows.
LEMMA ReadsBack ==
    ASSUME NEW rows, WholeRows(rows)
    PROVE  menu_rows_from_tokens(TokensOf(rows), Ticked(rows)) = rows
<1>1. PICK rest : /\ rest = Sift(DefaultTokens, {n \in DOMAIN DefaultTokens : DefaultTokens[n] # Sep})
                  /\ rest \in Seq(Items)
                  /\ \A i \in Items : \E n \in 1..Len(rest) : rest[n] = i
  BY RestIs
<1>2. PICK N \in Nat : N = Len(rows) /\ DOMAIN rows = 1..N /\ rows \in Seq(RowState)
  BY DEF WholeRows, RowsOnce
<1>3. PICK tokens, shown : tokens = TokensOf(rows) /\ shown = Ticked(rows) OBVIOUS
<1>4. \A n \in 1..N : rows[n] \in RowState BY <1>2
<1>5. PICK U : U = Items \cup {Sep} OBVIOUS
<1>6. tokens \in Seq(U) /\ Len(tokens) = N /\ \A n \in 1..N : tokens[n] = rows[n].is /\ rows[n].is \in U
  <2>1. \A n \in 1..N : rows[n].is \in U BY <1>4, <1>5, RowIs
  <2>2. tokens = [n \in 1..N |-> rows[n].is] BY <1>2, <1>3 DEF TokensOf
  <2>3. tokens \in [1..N -> U] BY <2>1, <2>2
  <2> QED BY <2>1, <2>2, <2>3
<1>7. PICK all, K, kept : all = tokens \o rest /\ K = Firsts(all) /\ kept = Sift(all, K) OBVIOUS
<1>r. rest \in Seq(Items) BY <1>1, Zenon
<1>8. PICK b \in Nat : b = Len(rest) BY <1>r
<1>9. /\ all \in Seq(U) /\ Len(all) = N + b /\ DOMAIN all = 1..N + b
      /\ \A n \in 1..N : all[n] = tokens[n]
      /\ \A n \in N + 1..N + b : all[n] = rest[n - N]
  <2>1. rest \in Seq(U) BY <1>r, <1>5
  <2>2. N \in Nat BY <1>2
  <2>3. all = tokens \o rest BY <1>7
  <2>4. tokens \in Seq(U) /\ Len(tokens) = N BY <1>6
  <2>5. /\ tokens \o rest \in Seq(U) /\ Len(tokens \o rest) = Len(tokens) + Len(rest)
        /\ \A n \in 1..Len(tokens) + Len(rest) :
             (tokens \o rest)[n] = IF n <= Len(tokens) THEN tokens[n] ELSE rest[n - Len(tokens)]
    BY <2>1, <2>4, ConcatProperties
  <2>6. /\ all \in Seq(U) /\ Len(all) = N + b
        /\ \A n \in 1..N + b : all[n] = IF n <= N THEN tokens[n] ELSE rest[n - N]
    BY <1>8, <2>3, <2>4, <2>5
  <2>7. DOMAIN all = 1..N + b BY <1>8, <2>2, <2>6
  <2>8. \A n \in 1..N : n \in 1..N + b /\ n <= N BY <1>8, <2>2
  <2>9. \A n \in N + 1..N + b : n \in 1..N + b /\ ~(n <= N) BY <1>8, <2>2
  <2> QED BY <2>6, <2>7, <2>8, <2>9
<1>10. K = 1..N
  <2>1. ASSUME NEW n \in 1..N PROVE n \in K
    <3>1. n \in DOMAIN all /\ all[n] = rows[n].is BY <1>6, <1>8, <1>9
    <3>2. CASE rows[n].is = Sep BY <1>7, <3>1, <3>2 DEF Firsts
    <3>3. CASE rows[n].is \in Items
      <4>1. ASSUME NEW m \in 1..n - 1 PROVE all[m] # all[n]
        <5>1. m \in 1..N /\ m # n OBVIOUS
        <5>2. all[m] = rows[m].is BY <1>6, <1>9, <5>1
        <5>3. PICK o \in 1..N : \A x \in 1..N : rows[x].is = rows[n].is => x = o
          BY <1>2, <3>3 DEF WholeRows, RowsOnce
        <5> QED BY <3>1, <5>1, <5>2, <5>3
      <4> QED BY <1>7, <3>1, <3>3, <4>1 DEF Firsts
    <3> QED BY <1>5, <1>6, <3>2, <3>3
  <2>2. ASSUME NEW n \in K, n \notin 1..N PROVE FALSE
    <3>1. n \in 1..N + b BY <1>7, <1>9 DEF Firsts
    <3>2. n \in N + 1..N + b BY <2>2, <3>1
    <3>3. n - N \in 1..b BY <3>2
    <3>4. all[n] \in Items
      <4>1. rest[n - N] \in Items BY <1>r, <1>8, <3>3
      <4> QED BY <1>9, <3>2, <4>1
    <3>5. \A m \in 1..n - 1 : all[m] # all[n] BY <1>7, <3>4, DialogAssumption DEF Firsts
    <3>6. PICK m \in 1..N : rows[m].is = all[n] BY <1>2, <3>4 DEF WholeRows, RowsOnce
    <3>7. m \in 1..n - 1 BY <3>2
    <3>8. all[m] = all[n] BY <1>6, <1>9, <3>6
    <3> QED BY <3>5, <3>7, <3>8
  <2> QED BY <2>1, <2>2
<1>11. kept = tokens
  <2>1. N <= Len(all) BY <1>8, <1>9
  <2>2. all \in Seq(U) BY <1>9
  <2>3. /\ Sift(all, 1..N) \in Seq(U) /\ Len(Sift(all, 1..N)) = N
        /\ \A n \in 1..N : Sift(all, 1..N)[n] = all[n]
    BY <2>1, <2>2, SiftFirst, Zenon
  <2>4. kept \in Seq(U) /\ Len(kept) = N /\ \A n \in 1..N : kept[n] = tokens[n]
    BY <1>7, <1>9, <1>10, <2>3, Zenon
  <2> QED BY <1>6, <2>4
<1>12. RowsOf(tokens, shown) = rows
  <2>1. ASSUME NEW n \in 1..N PROVE Row(tokens[n], tokens[n] # Sep /\ tokens[n] \in shown) = rows[n]
    <3>1. PICK r : r = rows[n] /\ r \in RowState /\ tokens[n] = r.is BY <1>4, <1>6
    <3>2. r.on \in BOOLEAN /\ r.is \in Items \cup {Sep} /\ r = Row(r.is, r.on) BY <3>1, RowIs
    <3>3. (r.is # Sep /\ r.is \in shown) = r.on
      <4>1. CASE r.is = Sep
        <5>1. r.on = FALSE BY <1>2, <3>1, <4>1 DEF WholeRows, RowsOnce, IsDivider
        <5> QED BY <4>1, <5>1
      <4>2. CASE r.is # Sep
        <5>1. r.is \in Items BY <3>2, <4>2
        <5>2. PICK o \in 1..N : \A x \in 1..N : rows[x].is = r.is => x = o
          <6>1. PICK item \in Items : item = r.is BY <5>1
          <6>2. PICK o \in 1..N : \A x \in 1..N : rows[x].is = item => x = o
            BY <1>2 DEF WholeRows, RowsOnce
          <6> QED BY <6>1, <6>2
        <5>3. r.is \in shown <=> \E m \in 1..N : rows[m].on /\ rows[m].is = r.is
          <6>1. shown = {rows[m].is : m \in {x \in 1..N : rows[x].on}} BY <1>2, <1>3 DEF Ticked
          <6> QED BY <6>1
        <5>4. \A m \in 1..N : rows[m].is = r.is => m = n BY <3>1, <5>2
        <5>5. r.is \in shown <=> r.on BY <3>1, <5>3, <5>4
        <5> QED BY <3>2, <4>2, <5>5
      <4> QED BY <4>1, <4>2
    <3> QED BY <3>1, <3>2, <3>3
  <2>2. DOMAIN tokens = 1..N BY <1>2, <1>6
  <2>3. RowsOf(tokens, shown) = [n \in 1..N |-> Row(tokens[n], tokens[n] # Sep /\ tokens[n] \in shown)]
    BY <2>2 DEF RowsOf
  <2>4. rows = [n \in 1..N |-> rows[n]] BY <1>2
  <2> QED BY <2>1, <2>3, <2>4
<1>13. menu_rows_from_tokens(tokens, shown) = normalize_rows(rows)
  <2>1. menu_rows_from_tokens(tokens, shown) = normalize_rows(RowsOf(kept, shown))
    BY <1>1, <1>7, TokensRead, Zenon
  <2> QED BY <1>11, <1>12, <2>1
<1> QED BY <1>3, <1>13, NormalizeLeaves

\* q says which row comes where, and r where a row goes.
Reorders(q, r, new, rows, N) ==
    /\ N \in Nat /\ Len(rows) = N /\ new \in Seq(RowState) /\ Len(new) = N
    /\ q \in [1..N -> 1..N] /\ r \in [1..N -> 1..N]
    /\ \A n \in 1..N : new[n] = rows[q[n]]
    /\ \A n \in 1..N : q[r[n]] = n
    /\ \A n \in 1..N : r[q[n]] = n

\* Rows may be re-ordered, ...
LEMMA PermutedOnce ==
    ASSUME NEW rows, RowsOnce(rows), NEW new, NEW q, NEW r, NEW N, Reorders(q, r, new, rows, N)
    PROVE  RowsOnce(new)
<1>1. /\ N \in Nat /\ Len(rows) = N /\ new \in Seq(RowState) /\ Len(new) = N
      /\ q \in [1..N -> 1..N] /\ r \in [1..N -> 1..N]
      /\ \A n \in 1..N : new[n] = rows[q[n]]
      /\ \A n \in 1..N : q[r[n]] = n
      /\ \A n \in 1..N : r[q[n]] = n
  BY DEF Reorders
<1>2. \A n \in 1..N : IsDivider(new[n]) => new[n].on = FALSE
  <2>1. \A n \in 1..N : q[n] \in 1..N BY <1>1
  <2>2. \A k \in 1..N : IsDivider(rows[k]) => rows[k].on = FALSE BY <1>1 DEF RowsOnce
  <2>3. \A n \in 1..N : new[n] = rows[q[n]] BY <1>1
  <2> QED BY <2>1, <2>2, <2>3
<1>3. ASSUME NEW i \in Items
      PROVE  \E n \in 1..N : new[n].is = i /\ \A m \in 1..N : new[m].is = i => m = n
  <2>1. PICK k \in 1..N : rows[k].is = i /\ \A m \in 1..N : rows[m].is = i => m = k BY <1>1 DEF RowsOnce
  <2>2. r[k] \in 1..N /\ new[r[k]].is = i
    <3>1. r[k] \in 1..N /\ q[r[k]] = k BY <1>1, <2>1
    <3> QED BY <1>1, <2>1, <3>1
  <2>3. ASSUME NEW m \in 1..N, new[m].is = i PROVE m = r[k]
    <3>1. q[m] \in 1..N /\ rows[q[m]].is = i BY <1>1, <2>3
    <3>2. q[m] = k BY <2>1, <3>1
    <3> QED BY <1>1, <3>2
  <2> QED BY <2>2, <2>3
<1>4. new \in Seq(RowState) BY <1>1
<1>5. \A n \in 1..Len(new) : IsDivider(new[n]) => new[n].on = FALSE BY <1>1, <1>2
<1>6. \A i \in Items : \E n \in 1..Len(new) :
        new[n].is = i /\ \A m \in 1..Len(new) : new[m].is = i => m = n
  BY <1>1, <1>3
<1> QED BY <1>4, <1>5, <1>6, Zenon DEF RowsOnce

\* ... and their ticks may change.
LEMMA TickedWhole ==
    ASSUME NEW rows, WholeRows(rows), NEW new,
           new \in Seq(RowState), Len(new) = Len(rows),
           \A n \in 1..Len(rows) : new[n].is = rows[n].is /\ (IsDivider(new[n]) => new[n].on = FALSE)
    PROVE  WholeRows(new)
<1>1. PICK N \in Nat : N = Len(rows) BY DEF WholeRows, RowsOnce
<1>2. ASSUME NEW i \in Items
      PROVE  \E n \in 1..N : new[n].is = i /\ \A m \in 1..N : new[m].is = i => m = n
  <2>1. PICK k \in 1..N : rows[k].is = i /\ \A m \in 1..N : rows[m].is = i => m = k
    BY <1>1 DEF WholeRows, RowsOnce
  <2> QED BY <1>1, <2>1
<1>3. RowsOnce(new) BY <1>1, <1>2, Zenon DEF RowsOnce
<1>4. ASSUME NEW n \in 1..N, IsDivider(new[n])
      PROVE  n \notin {1, N} /\ ~IsDivider(new[n + 1])
  <2>1. IsDivider(rows[n]) BY <1>1, <1>4 DEF IsDivider
  <2>2. n > 1 /\ n < N /\ ~IsDivider(rows[n + 1]) BY <1>1, <2>1, WholeIsNeat
  <2>3. n + 1 \in 1..N BY <2>2
  <2> QED BY <1>1, <2>2, <2>3 DEF IsDivider
<1>5. Neat(new) BY <1>1, <1>4 DEF Neat
<1> QED BY <1>3, <1>5 DEF WholeRows

\* The two parts of a list that is cut before place a.
LEMMA CutIs ==
    ASSUME NEW S, NEW s \in Seq(S), NEW N \in Nat, N = Len(s), NEW a \in 1..N + 1, NEW A, NEW B,
           A = SubSeq(s, 1, a - 1), B = SubSeq(s, a, N)
    PROVE  /\ A \in Seq(S) /\ Len(A) = a - 1 /\ \A n \in 1..a - 1 : A[n] = s[n]
           /\ B \in Seq(S) /\ Len(B) = N + 1 - a /\ \A n \in 1..N + 1 - a : B[n] = s[a - 1 + n]
<1>1. \A n \in 1..N : s[n] \in S OBVIOUS
<1>2. a \in Int /\ a - 1 \in Int /\ N \in Int /\ 1 \in Int OBVIOUS
<1>3. (\A n \in 1 .. a - 1 : s[n] \in S) /\ \A n \in a .. N : s[n] \in S BY <1>1
<1>4. /\ A \in Seq(S) /\ Len(A) = IF 1 <= a - 1 THEN a - 1 - 1 + 1 ELSE 0
      /\ \A n \in 1 .. a - 1 - 1 + 1 : A[n] = s[1 + n - 1]
  BY <1>2, <1>3, SubSeqProperties
<1>5. /\ B \in Seq(S) /\ Len(B) = IF a <= N THEN N - a + 1 ELSE 0
      /\ \A n \in 1 .. N - a + 1 : B[n] = s[a + n - 1]
  BY <1>2, <1>3, SubSeqProperties
<1>6. a - 1 - 1 + 1 = a - 1 /\ \A n \in 1..a - 1 : 1 + n - 1 = n OBVIOUS
<1>7. N - a + 1 = N + 1 - a /\ \A n \in 1..N + 1 - a : a + n - 1 = a - 1 + n OBVIOUS
<1>8. Len(A) = a - 1 /\ Len(B) = N + 1 - a BY <1>4, <1>5
<1> QED BY <1>4, <1>5, <1>6, <1>7, <1>8

\* A dragged row lands at its place and the rows between move by one.
LEMMA MovedWhole ==
    ASSUME NEW rows, WholeRows(rows), NEW src \in 1..Len(rows), NEW dest \in 0..Len(rows)
    PROVE  WholeRows(Moved(rows, src, dest))
<1>1. PICK N \in Nat : N = Len(rows) /\ rows \in Seq(RowState) BY DEF WholeRows, RowsOnce
<1>2. PICK at : at = IF src <= dest THEN dest ELSE dest + 1 OBVIOUS
<1>3. at \in 1..N /\ src \in 1..N BY <1>1, <1>2
<1>4. PICK removed : removed = RemoveAt(rows, src) OBVIOUS
<1>5. /\ removed \in Seq(RowState) /\ Len(removed) = N - 1
      /\ \A n \in 1..N - 1 : removed[n] = IF n < src THEN rows[n] ELSE rows[n + 1]
  <2>1. PICK A, B : A = SubSeq(rows, 1, src - 1) /\ B = SubSeq(rows, src + 1, N) OBVIOUS
  <2>2. A \in Seq(RowState) /\ Len(A) = src - 1 /\ \A n \in 1..src - 1 : A[n] = rows[n]
    <3>1. src \in 1..N + 1 BY <1>3
    <3>2. PICK rest : rest = SubSeq(rows, src, N) OBVIOUS
    <3> QED BY <1>1, <2>1, <3>1, <3>2, CutIs
  <2>3. B \in Seq(RowState) /\ Len(B) = N - src /\ \A n \in 1..N - src : B[n] = rows[src + n]
    <3>1. PICK c : c = src + 1 /\ c \in 1..N + 1 BY <1>3
    <3>2. PICK first : first = SubSeq(rows, 1, c - 1) OBVIOUS
    <3>3. B \in Seq(RowState) /\ Len(B) = N + 1 - c /\ \A n \in 1..N + 1 - c : B[n] = rows[c - 1 + n]
      BY <1>1, <2>1, <3>1, <3>2, CutIs
    <3>4. N + 1 - c = N - src /\ c - 1 = src BY <1>3, <3>1
    <3> QED BY <3>3, <3>4
  <2>4. removed = A \o B BY <1>1, <1>4, <2>1 DEF RemoveAt
  <2>5. /\ A \o B \in Seq(RowState) /\ Len(A \o B) = Len(A) + Len(B)
        /\ \A n \in 1..Len(A) + Len(B) : (A \o B)[n] = IF n <= Len(A) THEN A[n] ELSE B[n - Len(A)]
    BY <2>2, <2>3, ConcatProperties
  <2>6. Len(A) + Len(B) = N - 1 BY <1>3, <2>2, <2>3
  <2>7. ASSUME NEW n \in 1..N - 1 PROVE removed[n] = IF n < src THEN rows[n] ELSE rows[n + 1]
    <3>1. CASE n < src
      <4>1. n \in 1..src - 1 /\ n <= Len(A) BY <1>3, <2>2, <3>1
      <4> QED BY <2>2, <2>4, <2>5, <2>6, <3>1, <4>1
    <3>2. CASE ~(n < src)
      <4>1. n - (src - 1) \in 1..N - src /\ ~(n <= Len(A)) /\ src + (n - (src - 1)) = n + 1 BY <1>3, <2>2, <3>2
      <4>2. removed[n] = B[n - (src - 1)] BY <2>2, <2>4, <2>5, <2>6, <4>1
      <4> QED BY <2>3, <3>2, <4>1, <4>2
    <3> QED BY <3>1, <3>2
  <2> QED BY <2>4, <2>5, <2>6, <2>7
<1>6. PICK new : new = InsertAt(removed, at, rows[src]) OBVIOUS
<1>7. /\ new \in Seq(RowState) /\ Len(new) = N
      /\ \A n \in 1..N : new[n] = IF n < at THEN removed[n] ELSE IF n = at THEN rows[src] ELSE removed[n - 1]
  <2>1. PICK A, B, C : A = SubSeq(removed, 1, at - 1) /\ B = SubSeq(removed, at, N - 1) /\ C = <<rows[src]>> OBVIOUS
  <2>a. PICK M \in Nat : M = N - 1 /\ M = Len(removed) /\ at \in 1..M + 1 BY <1>3, <1>5
  <2>b. removed \in Seq(RowState) /\ B = SubSeq(removed, at, M) BY <1>5, <2>1, <2>a
  <2>d. /\ A \in Seq(RowState) /\ Len(A) = at - 1 /\ \A n \in 1..at - 1 : A[n] = removed[n]
        /\ B \in Seq(RowState) /\ Len(B) = M + 1 - at /\ \A n \in 1..M + 1 - at : B[n] = removed[at - 1 + n]
    BY <2>1, <2>a, <2>b, CutIs
  <2>e. M + 1 - at = N - at BY <1>3, <2>a
  <2>2. A \in Seq(RowState) /\ Len(A) = at - 1 /\ \A n \in 1..at - 1 : A[n] = removed[n] BY <2>d
  <2>3. B \in Seq(RowState) /\ Len(B) = N - at /\ \A n \in 1..N - at : B[n] = removed[at - 1 + n] BY <2>d, <2>e
  <2>c. C \in Seq(RowState) /\ Len(C) = 1 /\ C[1] = rows[src] BY <1>1, <2>1
  <2>4. new = (A \o C) \o B BY <1>5, <1>6, <2>1 DEF InsertAt
  <2>5. PICK AC : AC = A \o C OBVIOUS
  <2>6. /\ A \o C \in Seq(RowState) /\ Len(A \o C) = Len(A) + Len(C)
        /\ \A n \in 1..Len(A) + Len(C) : (A \o C)[n] = IF n <= Len(A) THEN A[n] ELSE C[n - Len(A)]
    BY <2>2, <2>c, ConcatProperties
  <2>7. AC \in Seq(RowState) /\ Len(AC) = at
    BY <1>3, <2>2, <2>c, <2>5, <2>6
  <2>8. AC[at] = rows[src] /\ \A n \in 1..at - 1 : AC[n] = removed[n]
    <3>1. at \in 1..Len(A) + Len(C) /\ ~(at <= Len(A)) /\ at - Len(A) = 1 BY <1>3, <2>2, <2>c
    <3>2. \A n \in 1..at - 1 : n \in 1..Len(A) + Len(C) /\ n <= Len(A) BY <1>3, <2>2, <2>c
    <3> QED BY <2>2, <2>c, <2>5, <2>6, <3>1, <3>2
  <2>9. /\ AC \o B \in Seq(RowState) /\ Len(AC \o B) = Len(AC) + Len(B)
        /\ \A n \in 1..Len(AC) + Len(B) : (AC \o B)[n] = IF n <= Len(AC) THEN AC[n] ELSE B[n - Len(AC)]
    BY <2>3, <2>7, ConcatProperties
  <2>10. Len(AC) + Len(B) = N BY <1>3, <2>3, <2>7
  <2>11. ASSUME NEW n \in 1..N
         PROVE  new[n] = IF n < at THEN removed[n] ELSE IF n = at THEN rows[src] ELSE removed[n - 1]
    <3>1. CASE n <= at
      <4>1. new[n] = AC[n] BY <2>4, <2>5, <2>7, <2>9, <2>10, <3>1
      <4>2. n = at \/ n \in 1..at - 1 BY <1>3, <3>1
      <4> QED BY <1>3, <2>8, <4>1, <4>2
    <3>2. CASE ~(n <= at)
      <4>1. n - at \in 1..N - at /\ at - 1 + (n - at) = n - 1 BY <1>3, <3>2
      <4>2. new[n] = B[n - at] BY <2>4, <2>5, <2>7, <2>9, <2>10, <3>2
      <4>3. B[n - at] = removed[n - 1] BY <2>3, <4>1
      <4> QED BY <1>3, <3>2, <4>2, <4>3
    <3> QED BY <3>1, <3>2
  <2> QED BY <2>4, <2>5, <2>9, <2>10, <2>11
<1> DEFINE From(n) == IF n < at THEN IF n < src THEN n ELSE n + 1
                      ELSE IF n = at THEN src
                      ELSE IF n - 1 < src THEN n - 1 ELSE n
           Short(m) == IF m < src THEN m ELSE m - 1
           To(m) == IF m = src THEN at ELSE IF Short(m) < at THEN Short(m) ELSE Short(m) + 1
<1>8. ASSUME NEW n \in 1..N PROVE From(n) \in 1..N /\ new[n] = rows[From(n)]
  <2>1. From(n) \in 1..N BY <1>3
  <2>2. CASE n < at
    <3>1. n \in 1..N - 1 BY <1>3, <2>2
    <3> QED BY <1>5, <1>7, <2>1, <2>2, <3>1
  <2>3. CASE n = at BY <1>3, <1>7, <2>1, <2>3
  <2>4. CASE n > at
    <3>1. n - 1 \in 1..N - 1 /\ (n - 1) + 1 = n BY <1>3, <2>4
    <3>2. new[n] = removed[n - 1] BY <1>3, <1>7, <2>4
    <3>3. removed[n - 1] = IF n - 1 < src THEN rows[n - 1] ELSE rows[n] BY <1>5, <3>1
    <3> QED BY <1>3, <2>1, <2>4, <3>2, <3>3
  <2> QED BY <1>3, <2>2, <2>3, <2>4
<1>9. \A m \in 1..N : To(m) \in 1..N /\ From(To(m)) = m BY <1>3
<1>10. \A n \in 1..N : To(From(n)) = n BY <1>3
<1>11. PICK q, r : q = [n \in 1..N |-> From(n)] /\ r = [m \in 1..N |-> To(m)] OBVIOUS
<1>12. q \in [1..N -> 1..N] /\ r \in [1..N -> 1..N] BY <1>8, <1>9, <1>11
<1> HIDE DEF From, To
<1>13. \A n \in 1..N : new[n] = rows[q[n]] BY <1>8, <1>11
<1>14. (\A m \in 1..N : q[r[m]] = m) /\ (\A n \in 1..N : r[q[n]] = n) BY <1>8, <1>9, <1>10, <1>11
<1>15. RowsOnce(rows) BY DEF WholeRows
<1>16. RowsOnce(new)
  <2>1. Reorders(q, r, new, rows, N) BY <1>1, <1>7, <1>12, <1>13, <1>14 DEF Reorders
  <2> QED BY <2>1, <1>15, PermutedOnce
<1>17. Moved(rows, src, dest) = normalize_rows(new) BY <1>2, <1>4, <1>6 DEF Moved
<1> QED BY <1>16, <1>17, NormalizeWhole

\* A tick taken or given, and ticks read anew.
LEMMA ToggledWhole ==
    ASSUME NEW rows, WholeRows(rows), NEW n \in DOMAIN rows, ~IsDivider(rows[n])
    PROVE  WholeRows([rows EXCEPT ![n].on = ~@])
<1>1. PICK N \in Nat : N = Len(rows) /\ DOMAIN rows = 1..N /\ rows \in Seq(RowState)
  BY DEF WholeRows, RowsOnce
<1>2. PICK r : r = rows[n] /\ r \in RowState BY <1>1
<1>3. r.is \in Items \cup {Sep} /\ r.on \in BOOLEAN /\ r = Row(r.is, r.on) BY <1>2, RowIs
<1>4. PICK on \in BOOLEAN : on = ~r.on BY <1>3
<1>5. PICK new : new = [rows EXCEPT ![n] = Row(r.is, on)] OBVIOUS
<1>6. [rows EXCEPT ![n].on = ~@] = new
  <2>1. [rows EXCEPT ![n].on = ~@] = [rows EXCEPT ![n] = [rows[n] EXCEPT !.on = ~@]] OBVIOUS
  <2>2. [r EXCEPT !.on = on] = Row(r.is, on) BY <1>3 DEF Row
  <2> QED BY <1>2, <1>4, <1>5, <2>1, <2>2
<1>7. Row(r.is, on) \in RowState /\ Row(r.is, on).is = r.is /\ ~IsDivider(Row(r.is, on))
  <2>1. Row(r.is, on) \in RowState /\ Row(r.is, on).is = r.is BY <1>3, <1>4, RowMade
  <2> QED BY <1>2, <2>1 DEF IsDivider
<1>8. new \in Seq(RowState) /\ Len(new) = N /\ \A m \in 1..N : m # n => new[m] = rows[m] BY <1>1, <1>5, <1>7
<1>9. new[n] = Row(r.is, on) BY <1>1, <1>5
<1>10. \A m \in 1..N : new[m].is = rows[m].is /\ (IsDivider(new[m]) => new[m].on = FALSE)
  <2> SUFFICES ASSUME NEW m \in 1..N PROVE new[m].is = rows[m].is /\ (IsDivider(new[m]) => new[m].on = FALSE)
    OBVIOUS
  <2>1. CASE m = n BY <1>2, <1>7, <1>9, <2>1
  <2>2. CASE m # n BY <1>1, <1>8, <2>2 DEF WholeRows, RowsOnce
  <2> QED BY <2>1, <2>2
<1>11. WholeRows(new) BY <1>1, <1>8, <1>10, TickedWhole
<1> QED BY <1>6, <1>11

LEMMA LoadedWhole ==
    ASSUME NEW rows, WholeRows(rows), NEW s
    PROVE  WholeRows(load_rows(rows, s))
<1>1. PICK N \in Nat : N = Len(rows) /\ DOMAIN rows = 1..N /\ rows \in Seq(RowState)
  BY DEF WholeRows, RowsOnce
<1>2. PICK new : new = load_rows(rows, s) OBVIOUS
<1>3. new = [n \in 1..N |-> IF IsDivider(rows[n]) THEN rows[n] ELSE [rows[n] EXCEPT !.on = rows[n].is \in s.shown]]
  BY <1>1, <1>2 DEF load_rows
<1>4. ASSUME NEW n \in 1..N
      PROVE  new[n] \in RowState /\ new[n].is = rows[n].is /\ (IsDivider(new[n]) => new[n].on = FALSE)
  <2>1. PICK r : r = rows[n] /\ r \in RowState BY <1>1
  <2>2. r.is \in Items \cup {Sep} /\ r.on \in BOOLEAN /\ r = Row(r.is, r.on) BY <2>1, RowIs
  <2>3. CASE IsDivider(r)
    <3>1. new[n] = r BY <1>3, <2>1, <2>3
    <3>2. r.on = FALSE BY <1>1, <2>1, <2>3 DEF WholeRows, RowsOnce
    <3> QED BY <2>1, <3>1, <3>2
  <2>4. CASE ~IsDivider(r)
    <3>1. PICK on : on = (r.is \in s.shown) /\ on \in BOOLEAN
      <4>1. (r.is \in s.shown) \in BOOLEAN OBVIOUS
      <4> QED BY <4>1
    <3>2. new[n] = [r EXCEPT !.on = on] BY <1>3, <2>1, <2>4, <3>1
    <3>3. [r EXCEPT !.on = on] = Row(r.is, on) BY <2>2 DEF Row
    <3>4. Row(r.is, on) \in RowState /\ Row(r.is, on).is = r.is BY <2>2, <3>1, RowMade
    <3>5. ~IsDivider(Row(r.is, on)) BY <2>4, <3>4 DEF IsDivider
    <3> QED BY <2>1, <3>2, <3>3, <3>4, <3>5
  <2> QED BY <2>3, <2>4
<1>5. new \in Seq(RowState) /\ Len(new) = N
  <2>1. new = [n \in 1..N |-> new[n]] BY <1>3
  <2>2. new \in [1..N -> RowState] BY <1>4, <2>1
  <2> QED BY <1>1, <2>2
<1>6. WholeRows(new) BY <1>1, <1>4, <1>5, TickedWhole
<1> QED BY <1>2, <1>6

-----------------------------------------------------------------------------
(* What the dialog does keeps its rows whole.                                *)

RowsHeld(p) == IsPage(p) /\ WholeRows(p.rows) /\ p.DRAG_SRC \in Nat
Orderly(s) == \E T : s.order \in Seq(T)

RowsInv == RowsHeld(page) /\ Orderly(saved)

LEMMA PageFields ==
    ASSUME NEW state, NEW shows, NEW ticks, NEW filter, NEW rows, NEW drag
    PROVE  LET p == PageOf(state, shows, ticks, filter, rows, drag)
           IN  IsPage(p) /\ p.rows = rows /\ p.DRAG_SRC = drag
<1>1. IsPage(PageOf(state, shows, ticks, filter, rows, drag)) BY Zenon DEF IsPage
<1>2. /\ PageOf(state, shows, ticks, filter, rows, drag).rows = rows
      /\ PageOf(state, shows, ticks, filter, rows, drag).DRAG_SRC = drag
  BY DEF PageOf
<1> QED BY <1>1, <1>2

LEMMA HeldBy ==
    ASSUME NEW state, NEW shows, NEW ticks, NEW filter, NEW rows, NEW drag, WholeRows(rows), drag \in Nat
    PROVE  RowsHeld(PageOf(state, shows, ticks, filter, rows, drag))
<1> PICK p : p = PageOf(state, shows, ticks, filter, rows, drag) OBVIOUS
<1>1. IsPage(p) /\ p.rows = rows /\ p.DRAG_SRC = drag BY PageFields
<1> QED BY <1>1 DEF RowsHeld

\* The ticks and the search leave the rows ...
LEMMA FilterLeavesRows ==
    ASSUME NEW p, RowsHeld(p), NEW x PROVE RowsHeld([p EXCEPT !.LAST_FILTER = x])
<1>1. PICK state, shows, ticks, filter, rows, drag : p = PageOf(state, shows, ticks, filter, rows, drag)
  BY DEF RowsHeld, IsPage
<1>2. p.rows = rows /\ p.DRAG_SRC = drag BY <1>1, PageFields
<1>3. WholeRows(rows) /\ drag \in Nat BY <1>2 DEF RowsHeld
<1>4. [p EXCEPT !.LAST_FILTER = x] = PageOf(state, shows, ticks, x, rows, drag) BY <1>1 DEF PageOf
<1> QED BY <1>3, <1>4, HeldBy

LEMMA TicksLeaveRows ==
    ASSUME NEW p, RowsHeld(p), NEW x, NEW y
    PROVE  RowsHeld([p EXCEPT !.FMT_STATE = x, !.ticks = y]) /\ RowsHeld([p EXCEPT !.ticks = y, !.FMT_STATE = x])
<1>1. PICK state, shows, ticks, filter, rows, drag : p = PageOf(state, shows, ticks, filter, rows, drag)
  BY DEF RowsHeld, IsPage
<1>2. p.rows = rows /\ p.DRAG_SRC = drag BY <1>1, PageFields
<1>3. WholeRows(rows) /\ drag \in Nat BY <1>2 DEF RowsHeld
<1>4. [p EXCEPT !.FMT_STATE = x, !.ticks = y] = PageOf(x, shows, y, filter, rows, drag)
  <2>1. [p EXCEPT !.FMT_STATE = x, !.ticks = y] = [[p EXCEPT !.FMT_STATE = x] EXCEPT !.ticks = y] OBVIOUS
  <2>2. [p EXCEPT !.FMT_STATE = x] = PageOf(x, shows, ticks, filter, rows, drag) BY <1>1 DEF PageOf
  <2>3. [PageOf(x, shows, ticks, filter, rows, drag) EXCEPT !.ticks = y] = PageOf(x, shows, y, filter, rows, drag)
    BY DEF PageOf
  <2> QED BY <2>1, <2>2, <2>3
<1>5. [p EXCEPT !.ticks = y, !.FMT_STATE = x] = PageOf(x, shows, y, filter, rows, drag)
  <2>1. [p EXCEPT !.ticks = y, !.FMT_STATE = x] = [[p EXCEPT !.ticks = y] EXCEPT !.FMT_STATE = x] OBVIOUS
  <2>2. [p EXCEPT !.ticks = y] = PageOf(state, shows, y, filter, rows, drag) BY <1>1 DEF PageOf
  <2>3. [PageOf(state, shows, y, filter, rows, drag) EXCEPT !.FMT_STATE = x] = PageOf(x, shows, y, filter, rows, drag)
    BY DEF PageOf
  <2> QED BY <2>1, <2>2, <2>3
<1> QED BY <1>3, <1>4, <1>5, HeldBy

LEMMA PopulateLeavesRows ==
    ASSUME NEW p, RowsHeld(p), NEW text PROVE RowsHeld(populate_list(p, text))
<1>1. PICK state, shows, ticks, filter, rows, drag : p = PageOf(state, shows, ticks, filter, rows, drag)
  BY DEF RowsHeld, IsPage
<1>2. p.rows = rows /\ p.DRAG_SRC = drag BY <1>1, PageFields
<1>3. WholeRows(rows) /\ drag \in Nat BY <1>2 DEF RowsHeld
<1>4. PICK z, y : z = Matches[text] /\ y = p.FMT_STATE \cap Matches[text] OBVIOUS
<1>5. populate_list(p, text) = [p EXCEPT !.shows = z, !.ticks = y] BY <1>4, Zenon DEF populate_list
<1>6. [p EXCEPT !.shows = z, !.ticks = y] = PageOf(state, z, y, filter, rows, drag)
  <2>1. [p EXCEPT !.shows = z, !.ticks = y] = [[p EXCEPT !.shows = z] EXCEPT !.ticks = y] OBVIOUS
  <2>2. [p EXCEPT !.shows = z] = PageOf(state, z, ticks, filter, rows, drag) BY <1>1 DEF PageOf
  <2>3. [PageOf(state, z, ticks, filter, rows, drag) EXCEPT !.ticks = y] = PageOf(state, z, y, filter, rows, drag)
    BY DEF PageOf
  <2> QED BY <2>1, <2>2, <2>3
<1> QED BY <1>3, <1>5, <1>6, HeldBy

LEMMA ResetLeavesRows ==
    ASSUME NEW p, RowsHeld(p) PROVE RowsHeld(reset_formats(p))
<1>1. PICK c : c = p.shows OBVIOUS
<1>2. reset_formats(p) = [p EXCEPT !.FMT_STATE = Formats, !.ticks = c] BY <1>1, Zenon DEF reset_formats
<1>3. RowsHeld([p EXCEPT !.FMT_STATE = Formats, !.ticks = c]) BY TicksLeaveRows, Zenon
<1> QED BY <1>2, <1>3

\* ... and whole rows may be put in their place.
LEMMA RowsPut ==
    ASSUME NEW p, RowsHeld(p), NEW rows, WholeRows(rows) PROVE RowsHeld([p EXCEPT !.rows = rows])
<1>1. PICK state, shows, ticks, filter, old, d : p = PageOf(state, shows, ticks, filter, old, d)
  BY DEF RowsHeld, IsPage
<1>2. p.DRAG_SRC = d BY <1>1, PageFields
<1>3. d \in Nat BY <1>2 DEF RowsHeld
<1>4. [p EXCEPT !.rows = rows] = PageOf(state, shows, ticks, filter, rows, d) BY <1>1, SetRows
<1> QED BY <1>3, <1>4, HeldBy

LEMMA DragPut ==
    ASSUME NEW p, RowsHeld(p), NEW drag \in Nat PROVE RowsHeld([p EXCEPT !.DRAG_SRC = drag])
<1>1. PICK state, shows, ticks, filter, old, d : p = PageOf(state, shows, ticks, filter, old, d)
  BY DEF RowsHeld, IsPage
<1>2. p.rows = old BY <1>1, PageFields
<1>3. WholeRows(old) BY <1>2 DEF RowsHeld
<1>4. [p EXCEPT !.DRAG_SRC = drag] = PageOf(state, shows, ticks, filter, old, drag) BY <1>1, SetDrag
<1> QED BY <1>3, <1>4, HeldBy

LEMMA DragRowsPut ==
    ASSUME NEW p, RowsHeld(p), NEW rows, WholeRows(rows) PROVE RowsHeld([p EXCEPT !.DRAG_SRC = 0, !.rows = rows])
<1>1. PICK q : q = [p EXCEPT !.DRAG_SRC = 0] OBVIOUS
<1>2. RowsHeld(q) BY <1>1, DragPut
<1>3. [p EXCEPT !.DRAG_SRC = 0, !.rows = rows] = [q EXCEPT !.rows = rows] BY <1>1
<1> QED BY <1>2, <1>3, RowsPut

LEMMA RowsTicksPut ==
    ASSUME NEW p, RowsHeld(p), NEW rows, WholeRows(rows), NEW x
    PROVE  RowsHeld([p EXCEPT !.rows = rows, !.FMT_STATE = x])
<1>1. PICK q : q = [p EXCEPT !.rows = rows] OBVIOUS
<1>2. RowsHeld(q) BY <1>1, RowsPut
<1>3. PICK state, shows, ticks, filter, new, d : q = PageOf(state, shows, ticks, filter, new, d)
  BY <1>2 DEF RowsHeld, IsPage
<1>4. q.rows = new /\ q.DRAG_SRC = d BY <1>3, PageFields
<1>5. WholeRows(new) /\ d \in Nat BY <1>2, <1>4 DEF RowsHeld
<1>6. [p EXCEPT !.rows = rows, !.FMT_STATE = x] = [q EXCEPT !.FMT_STATE = x] BY <1>1
<1>7. [q EXCEPT !.FMT_STATE = x] = PageOf(x, shows, ticks, filter, new, d) BY <1>3 DEF PageOf
<1> QED BY <1>5, <1>6, <1>7, HeldBy

LEMMA DefaultWhole == ASSUME NEW shown PROVE WholeRows(default_menu_rows(shown))
BY TokensWhole, DialogAssumption DEF default_menu_rows

LEMMA SavedWhole == ASSUME NEW s, Orderly(s) PROVE WholeRows(saved_menu_rows(s))
<1>1. CASE s.order = <<>>
  <2>1. saved_menu_rows(s) = menu_rows_from_tokens(DefaultTokens, s.shown) BY <1>1 DEF saved_menu_rows
  <2> QED BY <2>1, TokensWhole, DialogAssumption
<1>2. CASE s.order # <<>>
  <2>1. saved_menu_rows(s) = menu_rows_from_tokens(s.order, s.shown) BY <1>2 DEF saved_menu_rows
  <2>2. PICK T : s.order \in Seq(T) BY DEF Orderly
  <2> QED BY <2>1, <2>2, TokensWhole
<1> QED BY <1>1, <1>2

LEMMA OpenedHolds == ASSUME NEW s, Orderly(s) PROVE RowsHeld(Opened(s))
<1>1. PICK rows, p : rows = saved_menu_rows(s) /\ p = PageOf(s.flags, {}, {}, NoText, rows, 0) OBVIOUS
<1>2. RowsHeld(p)
  <2>1. WholeRows(rows) /\ 0 \in Nat BY <1>1, SavedWhole
  <2> QED BY <1>1, <2>1, HeldBy
<1>3. Opened(s) = populate_list(p, Blank) BY <1>1 DEF Opened, PageOf
<1> QED BY <1>2, <1>3, PopulateLeavesRows

LEMMA RowsStart == DialogInit => RowsInv
<1> SUFFICES ASSUME DialogInit PROVE RowsInv OBVIOUS
<1>1. saved.order = <<>> /\ page = Opened(saved) BY DEF DialogInit
<1>2. Orderly(saved) BY <1>1 DEF Orderly
<1> QED BY <1>1, <1>2, OpenedHolds DEF RowsInv

\* The page changes, what is saved does not.
LEMMA PageMoves ==
    ASSUME RowsInv, saved' = saved, RowsHeld(page)'
    PROVE  RowsInv'
BY DEF RowsInv, Orderly

LEMMA HeldNext == ASSUME NEW p, RowsHeld(p), page' = p PROVE RowsHeld(page)'
BY DEF RowsHeld, IsPage, WholeRows, RowsOnce, Neat

\* What is saved changes, the page does not.
LEMMA StoreMoves ==
    ASSUME RowsInv, page' = page, Orderly(saved)'
    PROVE  RowsInv'
BY DEF RowsInv, RowsHeld, IsPage, WholeRows, RowsOnce, Neat

LEMMA ListStep ==
    ASSUME RowsInv,
           \/ \E n \in DOMAIN page.rows : TickRow(n) \/ begin_menu_drag(n)
           \/ \E dest \in 0 .. Len(page.rows) : finish_menu_drag(dest)
           \/ CaptureLost \/ reset_menu_order \/ on_lang_change
    PROVE  RowsInv'
<1>0. RowsHeld(page) /\ WholeRows(page.rows) /\ page.DRAG_SRC \in Nat BY DEF RowsInv, RowsHeld
<1>1. PICK p : OnPage(p) /\ RowsHeld(p)
  <2>1. CASE \E n \in DOMAIN page.rows : TickRow(n)
    <3> PICK n \in DOMAIN page.rows : TickRow(n) BY <2>1
    <3>1. PICK rows : rows = [page.rows EXCEPT ![n].on = ~@] OBVIOUS
    <3>2. OnPage([page EXCEPT !.rows = rows]) BY <3>1, Zenon DEF TickRow
    <3>3. ~IsDivider(page.rows[n]) BY DEF TickRow
    <3>4. WholeRows(rows) BY <1>0, <3>1, <3>3, ToggledWhole
    <3> QED BY <1>0, <3>2, <3>4, RowsPut
  <2>2. CASE \E n \in DOMAIN page.rows : begin_menu_drag(n)
    <3> PICK n \in DOMAIN page.rows : begin_menu_drag(n) BY <2>2
    <3>1. n \in Nat BY <1>0 DEF WholeRows, RowsOnce
    <3> QED BY <1>0, <3>1, DragPut DEF begin_menu_drag
  <2>3. CASE \E dest \in 0 .. Len(page.rows) : finish_menu_drag(dest)
    <3> PICK dest \in 0 .. Len(page.rows) : finish_menu_drag(dest) BY <2>3
    <3>1. PICK rows : rows = IF page.DRAG_SRC > Len(page.rows) THEN page.rows ELSE Moved(page.rows, page.DRAG_SRC, dest)
      OBVIOUS
    <3>2. OnPage([page EXCEPT !.DRAG_SRC = 0, !.rows = rows]) BY <3>1, Zenon DEF finish_menu_drag
    <3>3. WholeRows(rows)
      <4>1. CASE page.DRAG_SRC > Len(page.rows) BY <1>0, <3>1, <4>1
      <4>2. CASE ~(page.DRAG_SRC > Len(page.rows))
        <5>1. page.DRAG_SRC # 0 BY Zenon DEF finish_menu_drag
        <5>2. Len(page.rows) \in Nat BY <1>0 DEF WholeRows, RowsOnce
        <5>3. page.DRAG_SRC \in 1..Len(page.rows) BY <1>0, <4>2, <5>1, <5>2
        <5>4. WholeRows(Moved(page.rows, page.DRAG_SRC, dest)) BY <1>0, <5>3, MovedWhole
        <5> QED BY <3>1, <4>2, <5>4
      <4> QED BY <4>1, <4>2
    <3> QED BY <1>0, <3>2, <3>3, DragRowsPut, Zenon
  <2>4. CASE CaptureLost
    <3>1. OnPage([page EXCEPT !.DRAG_SRC = 0]) BY <2>4 DEF CaptureLost
    <3> QED BY <1>0, <3>1, DragPut
  <2>5. CASE reset_menu_order
    <3>1. PICK rows : rows = default_menu_rows(Ticked(page.rows)) OBVIOUS
    <3>2. OnPage([page EXCEPT !.rows = rows]) BY <2>5, <3>1, Zenon DEF reset_menu_order
    <3> QED BY <1>0, <3>1, <3>2, DefaultWhole, RowsPut
  <2>6. CASE on_lang_change
    <3>1. OnPage([page EXCEPT !.LAST_FILTER = NoText]) BY <2>6 DEF on_lang_change, OnPage
    <3> QED BY <1>0, <3>1, FilterLeavesRows
  <2> QED BY <2>1, <2>2, <2>3, <2>4, <2>5, <2>6
<1>2. page' = p /\ saved' = saved BY <1>1 DEF OnPage, ShellVars
<1>3. RowsHeld(page)' BY <1>1, <1>2, HeldNext
<1> QED BY <1>2, <1>3, PageMoves

LEMMA TicksStep ==
    ASSUME RowsInv,
           \/ \E text \in Texts : Search(text)
           \/ \E some \in SUBSET page.shows, on \in BOOLEAN : Tick(some, on)
           \/ ResetFormats \/ load_defaults
    PROVE  RowsInv'
<1>0. RowsHeld(page) BY DEF RowsInv
<1>1. saved' = saved
  <2>1. CASE \E text \in Texts : Search(text) BY <2>1 DEF Search, ShellVars
  <2>2. CASE \E some \in SUBSET page.shows, on \in BOOLEAN : Tick(some, on) BY <2>2, Zenon DEF Tick, ShellVars
  <2>3. CASE ResetFormats \/ load_defaults BY <2>3 DEF ResetFormats, load_defaults, ShellVars
  <2> QED BY <2>1, <2>2, <2>3
<1>2. PICK p : page' = p /\ RowsHeld(p)
  <2>1. CASE \E text \in Texts : Search(text)
    <3> PICK text \in Texts : Search(text) BY <2>1
    <3>1. page' = [populate_list(page, text) EXCEPT !.LAST_FILTER = text] BY DEF Search
    <3> QED BY <1>0, <3>1, PopulateLeavesRows, FilterLeavesRows
  <2>2. CASE \E some \in SUBSET page.shows, on \in BOOLEAN : Tick(some, on)
    <3> PICK some \in SUBSET page.shows, on \in BOOLEAN : Tick(some, on) BY <2>2
    <3>1. \E x, y : page' = [page EXCEPT !.ticks = y, !.FMT_STATE = x] BY Zenon DEF Tick
    <3> QED BY <1>0, <3>1, TicksLeaveRows, Zenon
  <2>3. CASE ResetFormats BY <1>0, <2>3, ResetLeavesRows DEF ResetFormats
  <2>4. CASE load_defaults
    <3>1. PICK rows : rows = default_menu_rows(Items) OBVIOUS
    <3>2. page' = reset_formats([page EXCEPT !.rows = rows]) BY <2>4, <3>1 DEF load_defaults
    <3>3. RowsHeld([page EXCEPT !.rows = rows]) BY <1>0, <3>1, DefaultWhole, RowsPut
    <3> QED BY <3>2, <3>3, ResetLeavesRows
  <2> QED BY <2>1, <2>2, <2>3, <2>4
<1>3. RowsHeld(page)' BY <1>2, HeldNext
<1> QED BY <1>1, <1>3, PageMoves

LEMMA StoreStep ==
    ASSUME RowsInv, FlagsInv,
           StoreMenu \/ StoreFlags \/ Launch \/ Registers \/ Exits \/ LateRegisters \/ ReturnsOk
             \/ ReturnsOtherwise \/ repair_associations \/ Pull \/ \E f \in Formats : TakenOver(f)
    PROVE  RowsInv'
<1>0. PICK flags, order, shown : saved = [flags |-> flags, order |-> order, shown |-> shown] BY DEF FlagsInv
<1>1. page' = page
  BY DEF StoreMenu, StoreFlags, Launch, Registers, Exits, LateRegisters, ReturnsOk, ReturnsOtherwise,
         repair_associations, Pull, TakenOver
<1>2. PICK o : saved'.order = o /\ \E T : o \in Seq(T)
  <2>1. CASE StoreMenu
    <3>1. PICK rows : rows = page.rows OBVIOUS
    <3>2. PICK tokens, ticks : tokens = TokensOf(rows) /\ ticks = Ticked(rows) OBVIOUS
    <3>3. saved' = [saved EXCEPT !.order = tokens, !.shown = ticks] BY <2>1, <3>1, <3>2 DEF StoreMenu
    <3>4. saved'.order = tokens BY <1>0, <3>3
    <3>5. rows \in Seq(RowState) BY <3>1 DEF RowsInv, RowsHeld, WholeRows, RowsOnce
    <3>6. tokens \in Seq(Items \cup {Sep})
      <4>1. PICK N \in Nat : N = Len(rows) /\ DOMAIN rows = 1..N BY <3>5
      <4>2. \A n \in 1..N : rows[n].is \in Items \cup {Sep} BY <3>5, <4>1, RowIs
      <4>3. tokens = [n \in 1..N |-> rows[n].is] BY <3>2, <4>1 DEF TokensOf
      <4>4. tokens \in [1..N -> Items \cup {Sep}] BY <4>2, <4>3
      <4> QED BY <4>1, <4>4
    <3> QED BY <3>4, <3>6
  <2>2. CASE Pull
    <3>1. PICK o \in Orders : saved' = [saved EXCEPT !.order = o] BY <2>2 DEF Pull
    <3>2. saved'.order = o BY <1>0, <3>1
    <3>3. o \in Seq(Range(o)) BY <3>1, DialogAssumption
    <3> QED BY <3>2, <3>3
  <2>3. CASE ~StoreMenu /\ ~Pull
    <3>1. saved'.order = saved.order
      <4>1. CASE StoreFlags BY <1>0, <4>1 DEF StoreFlags
      <4>2. CASE ReturnsOtherwise BY <1>0, <4>2 DEF ReturnsOtherwise, RolledBack
      <4>3. CASE \/ Launch \/ Registers \/ Exits \/ LateRegisters \/ ReturnsOk \/ repair_associations
                 \/ \E f \in Formats : TakenOver(f)
        BY <4>3 DEF Launch, Registers, Exits, LateRegisters, ReturnsOk, repair_associations, TakenOver, ShellVars
      <4> QED BY <2>3, <4>1, <4>2, <4>3
    <3> QED BY <3>1 DEF RowsInv, Orderly
  <2> QED BY <2>1, <2>2, <2>3
<1>3. Orderly(saved)' BY <1>2 DEF Orderly
<1> QED BY <1>1, <1>3, StoreMoves

LEMMA ReadAnewStep ==
    ASSUME RowsInv, import_settings_from_file \/ WM_CREATE \/ DialogEnds
    PROVE  RowsInv'
<1>0. RowsHeld(page) /\ WholeRows(page.rows) /\ Orderly(saved) BY DEF RowsInv, RowsHeld
<1>1. CASE import_settings_from_file
  <2>1. PICK flags \in SUBSET Formats, order \in Orders, shown \in SUBSET Items :
          /\ saved' = [flags |-> flags, order |-> order, shown |-> shown]
          /\ page' = refresh_from_settings(page, [flags |-> flags, order |-> order, shown |-> shown])
    BY <1>1 DEF import_settings_from_file
  <2>2. PICK s : s = [flags |-> flags, order |-> order, shown |-> shown] OBVIOUS
  <2>3. saved' = s /\ page' = refresh_from_settings(page, s) BY <2>1, <2>2
  <2>4. PICK rows, fmts : rows = load_rows(page.rows, s) /\ fmts = s.flags OBVIOUS
  <2>5. page' = populate_list([page EXCEPT !.rows = rows, !.FMT_STATE = fmts], Blank)
    BY <2>3, <2>4, Zenon DEF refresh_from_settings
  <2>6. RowsHeld([page EXCEPT !.rows = rows, !.FMT_STATE = fmts])
    <3>1. WholeRows(rows) BY <1>0, <2>4, LoadedWhole
    <3> QED BY <1>0, <3>1, RowsTicksPut, Zenon
  <2>7. PICK p : page' = p /\ RowsHeld(p) BY <2>5, <2>6, PopulateLeavesRows
  <2>8. RowsHeld(page)' BY <2>7, HeldNext
  <2>9. Orderly(saved)'
    <3>1. s.order = order BY <2>2
    <3>2. order \in Seq(Range(order)) BY <2>1, DialogAssumption
    <3> QED BY <2>3, <3>1, <3>2 DEF Orderly
  <2> QED BY <2>8, <2>9 DEF RowsInv
<1>2. CASE WM_CREATE \/ DialogEnds
  <2>1. page' = Opened(saved) /\ saved' = saved BY <1>2 DEF WM_CREATE, DialogEnds, ShellVars
  <2>2. PICK p : page' = p /\ RowsHeld(p) BY <1>0, <2>1, OpenedHolds
  <2>3. RowsHeld(page)' BY <2>2, HeldNext
  <2> QED BY <2>1, <2>3, PageMoves
<1> QED BY <1>1, <1>2

LEMMA RowsStep == RowsInv /\ FlagsInv /\ [DialogNext]_dialogState => RowsInv'
<1> SUFFICES ASSUME RowsInv, FlagsInv, [DialogNext]_dialogState PROVE RowsInv'
  OBVIOUS
<1>1. CASE UNCHANGED dialogState
  <2>1. page' = page /\ saved' = saved BY <1>1 DEF dialogState
  <2>2. Orderly(saved)' BY <2>1 DEF RowsInv, Orderly
  <2> QED BY <2>1, <2>2, StoreMoves
<1>2. CASE DialogNext BY <1>2, ListStep, TicksStep, StoreStep, ReadAnewStep DEF DialogNext
<1> QED BY <1>1, <1>2

(* MenuListReadsBack, for any menu items, any order a file or another device *)
(* brings and any sequence of drags: the list always has every item once and *)
(* dividers only between items, and what a Save stores reads back as it was. *)
THEOREM MenuListAlwaysReadsBack == DialogSpec => MenuListReadsBack
<1> DEFINE ReadsNow == RowsAreWhole /\ (StoreMenu => saved_menu_rows(saved') = page.rows)
<1>1. RowsInv /\ FlagsInv => ReadsNow
  <2> SUFFICES ASSUME RowsInv, FlagsInv PROVE ReadsNow OBVIOUS
  <2>1. PICK rows : rows = page.rows /\ WholeRows(rows) BY DEF RowsInv, RowsHeld
  <2>2. PICK N \in Nat : N = Len(rows) /\ DOMAIN rows = 1..N /\ rows \in Seq(RowState)
    BY <2>1 DEF WholeRows, RowsOnce
  <2>3. RowsAreWhole
    <3>1. \A i \in Items : \E n \in 1..N : rows[n].is = i /\ \A m \in 1..N : rows[m].is = i => m = n
      BY <2>1, <2>2 DEF WholeRows, RowsOnce
    <3>2. \A n \in 1..N : IsDivider(rows[n]) => n \notin {1, N} /\ ~IsDivider(rows[n + 1])
      BY <2>1, <2>2 DEF WholeRows, Neat
    <3> QED BY <2>1, <2>2, <3>1, <3>2 DEF RowsAreWhole
  <2>4. ASSUME StoreMenu PROVE saved_menu_rows(saved') = rows
    <3>1. PICK tokens, ticks : tokens = TokensOf(rows) /\ ticks = Ticked(rows) OBVIOUS
    <3>2. PICK flags, order, shown : saved = [flags |-> flags, order |-> order, shown |-> shown] BY DEF FlagsInv
    <3>3. saved' = [saved EXCEPT !.order = tokens, !.shown = ticks] BY <2>1, <2>4, <3>1 DEF StoreMenu
    <3>d. saved' = [flags |-> flags, order |-> tokens, shown |-> ticks] BY <3>2, <3>3
    <3>4. PICK s : s = saved' /\ s.order = tokens /\ s.shown = ticks BY <3>d
    <3>5. menu_rows_from_tokens(tokens, ticks) = rows BY <2>1, <3>1, ReadsBack
    <3>6. CASE tokens # <<>>
      <4>1. saved_menu_rows(s) = menu_rows_from_tokens(tokens, ticks) BY <3>4, <3>6 DEF saved_menu_rows
      <4> QED BY <3>4, <3>5, <4>1
    <3>7. CASE tokens = <<>>
      <4>1. N = 0
        <5>1. tokens = [n \in 1..N |-> rows[n].is] BY <2>2, <3>1 DEF TokensOf
        <5> QED BY <2>2, <3>7, <5>1
      <4>2. Items = {} BY <2>1, <2>2, <4>1 DEF WholeRows, RowsOnce
      <4>3. PICK new : new = saved_menu_rows(s) OBVIOUS
      <4>4. Orderly(s) BY <3>4, <3>7 DEF Orderly
      <4>5. WholeRows(new) BY <4>3, <4>4, SavedWhole
      <4>6. PICK M \in Nat : M = Len(new) /\ new \in Seq(RowState) BY <4>5 DEF WholeRows, RowsOnce
      <4>7. ASSUME M # 0 PROVE FALSE
        <5>1. 1 \in 1..M /\ new[1] \in RowState BY <4>6, <4>7
        <5>2. IsDivider(new[1]) BY <4>2, <5>1, RowIs DEF IsDivider
        <5> QED BY <4>5, <4>6, <5>1, <5>2, WholeIsNeat
      <4>8. new = <<>> /\ rows = <<>> BY <2>2, <4>1, <4>6, <4>7
      <4> QED BY <3>4, <4>3, <4>8
    <3> QED BY <3>6, <3>7
  <2> QED BY <2>1, <2>3, <2>4
<1>2. DialogInv => FlagsInv BY DEF DialogInv
<1> QED BY <1>1, <1>2, DialogStarts, DialogNextKeeps, RowsStart, RowsStep, PTL DEF DialogSpec, MenuListReadsBack
=============================================================================
