--------------------------- MODULE Desktop_proofs ---------------------------
(***************************************************************************)
(* Proofs about Quick Look: the Space bar and the viewer processes, for    *)
(* any number of processes and of messages in the daemon's queue, and the  *)
(* window of a viewer process, for any files, loads and page turns, and    *)
(* about the screen capture, for any number of annotations and places.     *)
(*                                                                         *)
(* OneViewer is inductive with the shape of procs: the mutex exists while  *)
(* any process has a handle of it, so a second one never gets to resolve,  *)
(* and a window comes and goes with the step that starts or ends its       *)
(* process.  OnePressOneToggle needs to know that the latch is set as soon *)
(* as a press has asked for a toggle: a hook that is dropped and installed *)
(* again keeps the latch, and a release clears the count in any case.      *)
(*                                                                         *)
(* WindowInv, for ShowsItsFile: of the threads whose answers the window    *)
(* waits for there is one at most, it is about the window's file and page, *)
(* and there is none while a web view is being made.  A decode that is due *)
(* finds no picture yet, so only a page turn can leave an old one behind,  *)
(* and then its own page is due.                                           *)
(*                                                                         *)
(* CaptureInv, for KeepsItsMarks and HandsOver: the numbers rise among the *)
(* annotations, fall among the undone ones, and every undone one is newer  *)
(* than every one on the screen, so that Undo and Redo keep the order; a   *)
(* step makes one annotation at most, with the next number.  Text is typed *)
(* only on a region, and none while the region is dragged, so what OCR     *)
(* hands out at the end of the drag is the whole of the screen.            *)
(*                                                                         *)
(* DaemonInv, for OneDaemon: from the mutex to the end of the process      *)
(* there is one daemon at most, also while one that was killed is followed *)
(* by the next.                                                            *)
(***************************************************************************)
EXTENDS QuickLook, Viewer, CaptureEditor, HotkeyDaemon, SequenceTheorems, WellFoundedInduction, TLAPS

Places == {"off", "starts", "forwards", "resolves", "runs"}
Viewing == {"resolves", "runs"}

OneLooks == \A p, q \in Procs : {procs[p], procs[q]} \subseteq Viewing => p = q
WindowHasProcess == win # "none" <=> \E p \in Procs : procs[p] = "runs"
ProcsTyped == procs \in [Procs -> Places]
ViewerInv == ProcsTyped /\ OneLooks /\ WindowHasProcess

LatchInv ==
  /\ latched \in BOOLEAN /\ toggles \in Nat
  /\ toggles <= 1
  /\ toggles = 0 \/ latched = TRUE

\* the steps of a window that is there leave it there
Lives == Reloads \/ GraceEnds \/ Closes \/ ClosesAtOnce \/ ClosesOnCommand \/ PumpEnds

-----------------------------------------------------------------------------
(* The viewer processes                                                      *)

LEMMA WindowStays ==
  ASSUME Lives
  PROVE  win # "none" <=> win' # "none"
<1>1. CASE Reloads BY <1>1 DEF Reloads
<1>2. CASE GraceEnds BY <1>2 DEF GraceEnds
<1>3. CASE Closes BY <1>3 DEF Closes
<1>4. CASE ClosesAtOnce BY <1>4 DEF ClosesAtOnce
<1>5. CASE ClosesOnCommand BY <1>5, <1>3 DEF ClosesOnCommand, Closes, life
<1>6. CASE PumpEnds BY <1>6 DEF PumpEnds
<1> QED BY <1>1, <1>2, <1>3, <1>4, <1>5, <1>6 DEF Lives

\* a step that leaves the processes alone
LEMMA ProcsStay ==
  ASSUME ViewerInv, UNCHANGED procs, win # "none" <=> win' # "none"
  PROVE  ViewerInv'
  BY DEF ViewerInv, ProcsTyped, OneLooks, WindowHasProcess

\* a process moves, and neither looks for a file nor shows one before or after
LEMMA OutsideMoves ==
  ASSUME ViewerInv, NEW p \in Procs, NEW to \in Places \ Viewing,
         procs[p] \notin Viewing, procs' = [procs EXCEPT ![p] = to], UNCHANGED win
  PROVE  ViewerInv'
<1>1. \A q \in Procs : procs'[q] = IF q = p THEN to ELSE procs[q] BY DEF ViewerInv, ProcsTyped
<1>2. ProcsTyped' BY DEF ViewerInv, ProcsTyped
<1>3. OneLooks' BY <1>1 DEF ViewerInv, OneLooks, Viewing
<1>4. WindowHasProcess' BY <1>1 DEF ViewerInv, WindowHasProcess, Viewing
<1> QED BY <1>2, <1>3, <1>4 DEF ViewerInv

\* the one that looks for a file, or shows one, goes, with its window if it had one
LEMMA LookerLeaves ==
  ASSUME ViewerInv, NEW p \in Procs, procs[p] \in Viewing, procs' = [procs EXCEPT ![p] = "off"],
         win' = IF procs[p] = "runs" THEN "none" ELSE win
  PROVE  ViewerInv'
<1>1. \A q \in Procs : procs'[q] = IF q = p THEN "off" ELSE procs[q] BY DEF ViewerInv, ProcsTyped
<1>2. ProcsTyped' BY DEF ViewerInv, ProcsTyped, Places
<1>3. OneLooks' BY <1>1 DEF ViewerInv, OneLooks, Viewing
<1>4. \A q \in Procs \ {p} : procs[q] \notin Viewing BY DEF ViewerInv, OneLooks
<1>5. WindowHasProcess' BY <1>1, <1>4 DEF ViewerInv, WindowHasProcess, Viewing
<1> QED BY <1>2, <1>3, <1>5 DEF ViewerInv

LEMMA StartKeeps ==
  ASSUME ViewerInv, NEW p \in Procs, NEW e \in BOOLEAN, Start(p, e), UNCHANGED win
  PROVE  ViewerInv'
<1>1. procs[p] \notin Viewing /\ procs' = [procs EXCEPT ![p] = "starts"]
  BY DEF Start, Viewing
<1> QED BY <1>1, OutsideMoves DEF Places, Viewing

LEMMA DaemonKeeps == ASSUME ViewerInv, DaemonTakes PROVE ViewerInv'
<1>1. UNCHANGED win BY DEF DaemonTakes, life
<1>2. CASE UNCHANGED procs BY <1>1, <1>2, ProcsStay
<1>3. CASE \E p \in Procs : Start(p, FALSE) BY <1>1, <1>3, StartKeeps
<1> QED BY <1>2, <1>3 DEF DaemonTakes, request_toggle, request_close, procVars

(* The first process to want the mutex finds nobody with a handle of it.     *)
LEMMA TakesMutexKeeps == ASSUME ViewerInv, NEW p \in Procs, TakesMutex(p) PROVE ViewerInv'
<1>1. UNCHANGED win /\ procs[p] = "starts" BY DEF TakesMutex, life
<1>2. CASE MutexExists(p)
  <2>1. procs' = [procs EXCEPT ![p] = "forwards"] BY <1>2 DEF TakesMutex, Goes
  <2> QED BY <1>1, <2>1, OutsideMoves DEF Places, Viewing
<1>3. CASE ~MutexExists(p)
  <2>1. procs' = [procs EXCEPT ![p] = "resolves"] BY <1>3 DEF TakesMutex, Goes
  <2>2. \A q \in Procs : procs'[q] = IF q = p THEN "resolves" ELSE procs[q]
    BY <2>1 DEF ViewerInv, ProcsTyped
  <2>3. \A q \in Procs \ {p} : procs[q] \notin Viewing BY <1>3 DEF MutexExists, Viewing
  <2>4. ProcsTyped' BY <2>1 DEF ViewerInv, ProcsTyped, Places
  <2>5. OneLooks' BY <2>2, <2>3 DEF OneLooks, Viewing
  <2>6. WindowHasProcess' BY <1>1, <2>2, <2>3 DEF ViewerInv, WindowHasProcess, Viewing
  <2> QED BY <2>4, <2>5, <2>6 DEF ViewerInv
<1> QED BY <1>2, <1>3

LEMMA OpenedKeeps == ASSUME ViewerInv, NEW p \in Procs, Opened(p) PROVE ViewerInv'
<1>1. procs[p] = "resolves" /\ procs' = [procs EXCEPT ![p] = "runs"] /\ win' = "open"
  BY DEF Opened, Goes, Opens
<1>2. \A q \in Procs : procs'[q] = IF q = p THEN "runs" ELSE procs[q]
  BY <1>1 DEF ViewerInv, ProcsTyped
<1>3. ProcsTyped' BY <1>1 DEF ViewerInv, ProcsTyped, Places
<1>4. OneLooks' BY <1>1, <1>2 DEF ViewerInv, OneLooks, Viewing
<1>5. WindowHasProcess' BY <1>1, <1>2 DEF WindowHasProcess
<1> QED BY <1>3, <1>4, <1>5 DEF ViewerInv

LEMMA SettlesKeeps == ASSUME ViewerInv, NEW p \in Procs, Settles(p) PROVE ViewerInv'
<1>1. CASE TakesMutex(p) BY <1>1, TakesMutexKeeps
<1>2. CASE Forwards(p)
  <2>1. UNCHANGED win BY <1>2 DEF Forwards, Reloads, life
  <2>2. procs[p] = "forwards" /\ procs' = [procs EXCEPT ![p] = "off"] BY <1>2 DEF Forwards, Goes
  <2> QED BY <2>1, <2>2, OutsideMoves DEF Places, Viewing
<1>3. CASE GivesUp(p)
  <2>1. UNCHANGED win /\ procs[p] = "forwards" /\ procs' = [procs EXCEPT ![p] = "off"]
    BY <1>3 DEF GivesUp, Goes, life
  <2> QED BY <2>1, OutsideMoves DEF Places, Viewing
<1>4. CASE Opened(p) BY <1>4, OpenedKeeps
<1>5. CASE NothingToShow(p)
  <2>1. UNCHANGED win /\ procs[p] = "resolves" /\ procs' = [procs EXCEPT ![p] = "off"]
    BY <1>5 DEF NothingToShow, Goes, life
  <2> QED BY <2>1, LookerLeaves DEF Viewing
<1>6. CASE Ends(p)
  <2>1. win' = "none" /\ procs[p] = "runs" /\ procs' = [procs EXCEPT ![p] = "off"]
    BY <1>6 DEF Ends, ProcessEnds, Goes
  <2> QED BY <2>1, LookerLeaves DEF Viewing
<1> QED BY <1>1, <1>2, <1>3, <1>4, <1>5, <1>6 DEF Settles

LEMMA DiesKeeps == ASSUME ViewerInv, NEW p \in Procs, Dies(p) PROVE ViewerInv'
<1>1. procs[p] # "off" /\ procs' = [procs EXCEPT ![p] = "off"] BY DEF Dies, Goes
<1>2. win' = IF procs[p] = "runs" THEN "none" ELSE win BY DEF Dies, life
<1>3. CASE procs[p] \in Viewing BY <1>1, <1>2, <1>3, LookerLeaves
<1>4. CASE procs[p] \notin Viewing
  <2>1. UNCHANGED win BY <1>2, <1>4 DEF Viewing
  <2> QED BY <1>1, <1>4, <2>1, OutsideMoves DEF Places, Viewing
<1> QED BY <1>3, <1>4

LEMMA ViewerInvKept == ViewerInv /\ [QuickNext]_quickVars => ViewerInv'
<1> SUFFICES ASSUME ViewerInv, [QuickNext]_quickVars PROVE ViewerInv' OBVIOUS
<1>1. CASE KeyDown \/ KeyRepeat \/ KeyUp \/ KeyCloses \/ LatchAges \/ HookDropped \/ Rearm \/ TickAges
  <2>1. UNCHANGED <<procs, win>>
    BY <1>1 DEF KeyDown, KeyRepeat, KeyUp, KeyCloses, LatchAges, HookDropped, Rearm, TickAges,
                procVars, life
  <2> QED BY <2>1, ProcsStay
<1>2. CASE DaemonTakes BY <1>2, DaemonKeeps
<1>3. CASE DaemonReturns \/ WindowSteps \/ PumpReturns
  <2>1. UNCHANGED procs BY <1>3 DEF DaemonReturns, WindowSteps, PumpReturns, procVars
  <2>2. Lives \/ UNCHANGED life BY <1>3 DEF DaemonReturns, WindowSteps, PumpReturns, Lives
  <2>3. win # "none" <=> win' # "none" BY <2>2, WindowStays DEF life
  <2> QED BY <2>1, <2>3, ProcsStay
<1>4. ASSUME NEW p \in Procs, StartedByHand(p) PROVE ViewerInv'
  BY <1>4, StartKeeps DEF StartedByHand, life
<1>5. ASSUME NEW p \in Procs, Settles(p) PROVE ViewerInv' BY <1>5, SettlesKeeps
<1>6. ASSUME NEW p \in Procs, Dies(p) PROVE ViewerInv' BY <1>6, DiesKeeps
<1>7. CASE UNCHANGED quickVars BY <1>7, ProcsStay DEF quickVars, procVars, life
<1> QED BY <1>1, <1>2, <1>3, <1>4, <1>5, <1>6, <1>7 DEF QuickNext

(* One process at a time looks for a file to show, or shows it, and there is *)
(* a window exactly while a process shows one, for any processes started by  *)
(* Space or by hand, any deaths and any order of their steps: run_preview's  *)
(* mutex is named by every process that forwards as well.                    *)
THEOREM OneViewerAlways == QuickSpec => []OneViewer
<1>1. QuickInit => ViewerInv
  BY DEF QuickInit, LifeInit, ViewerInv, ProcsTyped, OneLooks, WindowHasProcess, Places, Viewing
<1>2. ViewerInv => OneViewer BY DEF ViewerInv, OneLooks, WindowHasProcess, OneViewer, Viewing
<1> QED BY <1>1, <1>2, ViewerInvKept, PTL DEF QuickSpec

-----------------------------------------------------------------------------
(* The hook                                                                  *)

LEMMA SeesDownKeeps == ASSUME LatchInv, SeesDown PROVE LatchInv'
<1>1. CASE ~latched /\ latched' = TRUE /\ toggles' = toggles + 1 BY <1>1 DEF LatchInv
<1>2. CASE UNCHANGED <<latched, toggles>> BY <1>2 DEF LatchInv
<1> QED BY <1>1, <1>2 DEF SeesDown

LEMMA LatchInvKept == LatchInv /\ [QuickNext]_quickVars => LatchInv'
<1> SUFFICES ASSUME LatchInv, [QuickNext]_quickVars PROVE LatchInv' OBVIOUS
<1>1. CASE KeyDown \/ KeyRepeat BY <1>1, SeesDownKeeps DEF KeyDown, KeyRepeat
<1>2. CASE KeyUp
  <2>1. latched' \in BOOLEAN /\ toggles' = 0 BY <1>2 DEF KeyUp
  <2> QED BY <2>1 DEF LatchInv
<1>3. CASE UNCHANGED <<latched, toggles>> BY <1>3 DEF LatchInv
<1>4. CASE KeyCloses \/ LatchAges \/ HookDropped \/ Rearm
  BY <1>3, <1>4 DEF KeyCloses, LatchAges, HookDropped, Rearm, keyVars
<1>5. CASE DaemonTakes \/ DaemonReturns \/ TickAges \/ WindowSteps \/ PumpReturns
  BY <1>3, <1>5 DEF DaemonTakes, DaemonReturns, TickAges, WindowSteps, PumpReturns, keyVars
<1>6. ASSUME NEW p \in Procs, StartedByHand(p) \/ Settles(p) \/ Dies(p) PROVE LatchInv'
  BY <1>3, <1>6 DEF StartedByHand, Settles, TakesMutex, Forwards, GivesUp, Opened, NothingToShow, Ends,
                    Dies, keyVars
<1>7. CASE UNCHANGED quickVars BY <1>3, <1>7 DEF quickVars, keyVars
<1> QED BY <1>1, <1>2, <1>4, <1>5, <1>6, <1>7 DEF QuickNext

(* A press of Space asks for one toggle at most, with every repeat of the    *)
(* key, and whenever handle_key's hook is dropped by Windows and installed   *)
(* again by rearm while the key is down.                                     *)
THEOREM OnePressOneToggleAlways == QuickSpec => []OnePressOneToggle
<1>1. QuickInit => LatchInv
  <2> SUFFICES ASSUME QuickInit PROVE LatchInv OBVIOUS
  <2>1. latched = FALSE /\ toggles = 0 BY DEF QuickInit
  <2>2. latched \in BOOLEAN BY <2>1
  <2>3. toggles \in Nat /\ toggles <= 1 BY <2>1
  <2> QED BY <2>1, <2>2, <2>3 DEF LatchInv
<1>2. LatchInv => OnePressOneToggle BY DEF LatchInv, OnePressOneToggle
<1> QED BY <1>1, <1>2, LatchInvKept, PTL DEF QuickSpec

-----------------------------------------------------------------------------
(* The window: what the outcomes of load are                                 *)

HeldRec == [slot : Slots, of : Files, page : 0 .. 1]
JobRec == [what : {"decode", "count", "page", "remote"}, of : Files, gen : Nat, page : 0 .. 1]
ViewRec ==
  [path : Files \cup {NoFile}, kind : Kinds, held : SUBSET HeldRec, gen : Nat, page : 0 .. 1,
   pages : {0, 2}, grace : BOOLEAN, shown : BOOLEAN, source : BOOLEAN, busy : BOOLEAN,
   pendingPath : Files \cup {NoFile}, pendingClose : BOOLEAN]

\* the fields that showing something leaves alone
Same(s, u) ==
  /\ s.path = u.path /\ s.gen = u.gen /\ s.page = u.page /\ s.pages = u.pages /\ s.grace = u.grace
  /\ s.source = u.source /\ s.busy = u.busy
  /\ s.pendingPath = u.pendingPath /\ s.pendingClose = u.pendingClose

\* what load has cleared
Blank(b, u, f) ==
  /\ b \in ViewRec /\ b.held = {}
  /\ b.path = f /\ b.gen = u.gen + 1 /\ b.page = 0 /\ b.grace = TRUE
  /\ b.busy = u.busy /\ b.pendingPath = u.pendingPath /\ b.pendingClose = u.pendingClose

\* what each outcome of load owes the file it is about
Fresh(u, f, s, js) ==
  /\ s \in ViewRec /\ js \subseteq JobRec
  /\ s.path = f /\ s.gen = u.gen + 1 /\ s.page = 0 /\ s.grace = TRUE
  /\ s.pendingPath = u.pendingPath /\ s.pendingClose = u.pendingClose
  /\ \A h \in s.held : h.of = f /\ h.slot # "render"
  /\ s.kind = "loading" \/ s.busy = TRUE \/ \E h \in s.held : h.slot \in Pane(s.kind)
  /\ s.kind # "image"
  /\ \A j \in js : j.of = f /\ j.gen = u.gen + 1 /\ j.page = 0
  /\ \A i, j \in js : i = j
  /\ \A j \in js : j.what = "remote" => s.kind = "markdown"
  /\ s.busy = TRUE => js = {} /\ s.kind = "html"

LEMMA ViewHas ==
  ASSUME NEW u \in ViewRec
  PROVE  /\ u.path \in Files \cup {NoFile} /\ u.kind \in Kinds /\ u.held \in SUBSET HeldRec /\ u.gen \in Nat
         /\ u.page \in 0 .. 1 /\ u.pages \in {0, 2} /\ u.grace \in BOOLEAN /\ u.shown \in BOOLEAN
         /\ u.source \in BOOLEAN /\ u.busy \in BOOLEAN /\ u.pendingPath \in Files \cup {NoFile}
         /\ u.pendingClose \in BOOLEAN
  BY Zenon DEF ViewRec

LEMMA ClearedIs ==
  ASSUME NEW u \in ViewRec, NEW f \in Files
  PROVE  Blank(Cleared(u, f), u, f)
<1>1. PICK v : v = Cleared(u, f) OBVIOUS
<1>2. v = [u EXCEPT !.path = f, !.gen = u.gen + 1, !.held = {}, !.page = 0, !.pages = 0, !.grace = TRUE]
  BY <1>1 DEF Cleared, ViewRec
<1>3. /\ v.path = f /\ v.gen = u.gen + 1 /\ v.page = 0 /\ v.pages = 0 /\ v.grace = TRUE
      /\ v.source = u.source /\ v.busy = u.busy /\ v.shown = u.shown
      /\ v.pendingPath = u.pendingPath /\ v.pendingClose = u.pendingClose
      /\ v.held = {} /\ v.kind = u.kind
  BY <1>2 DEF ViewRec
<1>4. v = [path |-> f, kind |-> u.kind, held |-> {}, gen |-> u.gen + 1, page |-> 0, pages |-> 0,
           grace |-> TRUE, shown |-> u.shown, source |-> u.source, busy |-> u.busy,
           pendingPath |-> u.pendingPath, pendingClose |-> u.pendingClose]
  BY <1>2 DEF ViewRec
<1>5. u.gen + 1 \in Nat /\ 0 \in 0 .. 1 BY DEF ViewRec
<1>6. /\ f \in Files \cup {NoFile} /\ {} \in SUBSET HeldRec /\ 0 \in {0, 2} /\ TRUE \in BOOLEAN OBVIOUS
<1>7. v \in ViewRec BY <1>4, <1>5, <1>6, ViewHas DEF ViewRec
<1> QED BY <1>1, <1>3, <1>7 DEF Blank

LEMMA HeldIs ==
  ASSUME NEW s \in Slots, NEW f \in Files, NEW p \in 0 .. 1
  PROVE  Held(s, f, p) \in HeldRec /\ Held(s, f, p).slot = s /\ Held(s, f, p).of = f /\ Held(s, f, p).page = p
  BY DEF Held, HeldRec

LEMMA ShowsIs ==
  ASSUME NEW u \in ViewRec, u.path \in Files, NEW slot \in Slots, NEW k \in Kinds
  PROVE  /\ Shows(u, slot, k) \in ViewRec
         /\ Same(Shows(u, slot, k), u)
         /\ Shows(u, slot, k).held = u.held \cup {Held(slot, u.path, u.page)}
         /\ Shows(u, slot, k).kind = k
<1>1. u.page \in 0 .. 1 /\ u.held \in SUBSET HeldRec BY DEF ViewRec
<1>2. Held(slot, u.path, u.page) \in HeldRec BY <1>1, HeldIs
<1>3. PICK h : h = Held(slot, u.path, u.page) OBVIOUS
<1>4. Shows(u, slot, k) = [u EXCEPT !.held = @ \cup {h}, !.kind = k, !.shown = TRUE] BY <1>3 DEF Shows
<1>5. PICK v : v = Shows(u, slot, k) OBVIOUS
<1>6. v.held = u.held \cup {h} /\ v.kind = k BY <1>4, <1>5 DEF ViewRec
<1>7. Same(v, u) BY <1>4, <1>5, Zenon DEF ViewRec, Same
<1>8. v = [path |-> u.path, kind |-> k, held |-> u.held \cup {h}, gen |-> u.gen, page |-> u.page,
           pages |-> u.pages, grace |-> u.grace, shown |-> TRUE, source |-> u.source, busy |-> u.busy,
           pendingPath |-> u.pendingPath, pendingClose |-> u.pendingClose]
  BY <1>4, <1>5 DEF ViewRec
<1>9. u.held \cup {h} \in SUBSET HeldRec BY <1>1, <1>2, <1>3
<1>10. v \in ViewRec BY <1>8, <1>9, ViewHas DEF ViewRec
<1> QED BY <1>3, <1>5, <1>6, <1>7, <1>10

LEMMA JobIs ==
  ASSUME NEW w \in {"decode", "count", "page", "remote"}, NEW f \in Files, NEW g \in Nat, NEW p \in 0 .. 1
  PROVE  /\ Job(w, f, g, p) \in JobRec
         /\ Job(w, f, g, p).what = w /\ Job(w, f, g, p).of = f
         /\ Job(w, f, g, p).gen = g /\ Job(w, f, g, p).page = p
  BY DEF Job, JobRec

LEMMA ShownIs ==
  ASSUME NEW u \in ViewRec, NEW x \in ViewRec, NEW f \in Files, Blank(u, x, f)
  PROVE  Blank([u EXCEPT !.shown = TRUE], x, f)
<1>1. PICK v : v = [u EXCEPT !.shown = TRUE] OBVIOUS
<1>2. v \in ViewRec BY <1>1 DEF ViewRec
<1>3. Same(v, u) /\ v.held = u.held BY <1>1, Zenon DEF ViewRec, Same
<1> QED BY <1>1, <1>2, <1>3 DEF Blank, Same

LEMMA LoadingIs ==
  ASSUME NEW u \in ViewRec
  PROVE  /\ Loading(u) \in ViewRec /\ Same(Loading(u), u)
         /\ Loading(u).held = u.held /\ Loading(u).kind = "loading"
<1>1. PICK v : v = Loading(u) OBVIOUS
<1>2. v = [u EXCEPT !.kind = "loading"] BY <1>1 DEF Loading
<1>3. v \in ViewRec BY <1>2 DEF ViewRec, Kinds
<1>4. Same(v, u) /\ v.held = u.held BY <1>2, Zenon DEF ViewRec, Same
<1>5. v.kind = "loading" BY <1>2 DEF ViewRec
<1> QED BY <1>1, <1>3, <1>4, <1>5

\* a thread that will answer for the file, and nothing shown yet
LEMMA FreshLoading ==
  ASSUME NEW u \in ViewRec, NEW f \in Files, u.busy = FALSE, NEW b, Blank(b, u, f),
         NEW w \in {"decode", "count"}
  PROVE  Fresh(u, f, Loading(b), {Job(w, f, b.gen, 0)})
<1>1. b \in ViewRec /\ b.gen \in Nat BY DEF Blank, ViewRec
<1>2. PICK j : j = Job(w, f, b.gen, 0) OBVIOUS
<1>3. j \in JobRec /\ j.of = f /\ j.gen = b.gen /\ j.page = 0 /\ j.what = w BY <1>1, <1>2, JobIs
<1>4. PICK v : v = Loading(b) OBVIOUS
<1>5. v \in ViewRec /\ Same(v, b) /\ v.held = {} /\ v.kind = "loading"
  BY <1>1, <1>4, LoadingIs DEF Blank
<1>6. Fresh(u, f, v, {j}) BY <1>3, <1>5 DEF Fresh, Blank, Same
<1> QED BY <1>2, <1>4, <1>6

\* something shown, and perhaps a thread that will add to it
LEMMA FreshShows ==
  ASSUME NEW u \in ViewRec, NEW f \in Files, u.busy = FALSE, NEW b, Blank(b, u, f),
         NEW slot \in Slots \ {"render"}, NEW k \in Kinds \ {"image"}, slot \in Pane(k),
         NEW w \in {"decode", "remote"}, NEW js, js \in {{}, {Job(w, f, b.gen, 0)}},
         w = "remote" => k = "markdown"
  PROVE  Fresh(u, f, Shows(b, slot, k), js)
<1>1. b \in ViewRec /\ b.gen \in Nat /\ b.path = f /\ b.page = 0 /\ b.held = {} BY DEF Blank, ViewRec
<1>2. PICK j : j = Job(w, f, b.gen, 0) OBVIOUS
<1>3. j \in JobRec /\ j.of = f /\ j.gen = b.gen /\ j.page = 0 /\ j.what = w BY <1>1, <1>2, JobIs
<1>4. PICK h : h = Held(slot, f, 0) OBVIOUS
<1>5. h.slot = slot /\ h.of = f BY <1>4, HeldIs
<1>6. PICK v : v = Shows(b, slot, k) OBVIOUS
<1>7. v \in ViewRec /\ Same(v, b) /\ v.held = {h} /\ v.kind = k
  BY <1>1, <1>4, <1>6, ShowsIs
<1>8. CASE js = {} BY <1>5, <1>6, <1>7, <1>8 DEF Fresh, Blank, Same
<1>9. CASE js = {j} BY <1>3, <1>5, <1>6, <1>7, <1>9 DEF Fresh, Blank, Same
<1> QED BY <1>2, <1>8, <1>9

LEMMA WebIs ==
  ASSUME NEW u \in ViewRec, NEW f \in Files, NEW b, Blank(b, u, f)
  PROVE  Fresh(u, f, [b EXCEPT !.kind = "html", !.busy = TRUE, !.shown = TRUE], {})
<1>1. b \in ViewRec /\ b.held = {} BY DEF Blank
<1>2. PICK v : v = [b EXCEPT !.kind = "html", !.busy = TRUE, !.shown = TRUE] OBVIOUS
<1>3. v.kind = "html" /\ v.busy = TRUE /\ v.held = b.held BY <1>1, <1>2 DEF ViewRec
<1>4. /\ v.path = b.path /\ v.gen = b.gen /\ v.page = b.page /\ v.grace = b.grace
      /\ v.pendingPath = b.pendingPath /\ v.pendingClose = b.pendingClose
  BY <1>1, <1>2 DEF ViewRec
<1>5. v \in ViewRec BY <1>1, <1>2 DEF ViewRec, Kinds
<1>6. Fresh(u, f, v, {}) BY <1>1, <1>3, <1>4, <1>5 DEF Fresh, Blank
<1> QED BY <1>2, <1>6

LEMMA OutcomesFresh ==
  ASSUME NEW u \in ViewRec, NEW f \in Files, u.busy = FALSE, NEW o \in Outcomes(u, f)
  PROVE  Fresh(u, f, o.view, o.jobs)
<1>1. PICK b : b = Cleared(u, f) OBVIOUS
<1>2. Blank(b, u, f) BY <1>1, ClearedIs
<1>3. PICK c : c = [b EXCEPT !.shown = TRUE] OBVIOUS
<1>4. Blank(c, u, f) /\ c.gen = b.gen BY <1>2, <1>3, ShownIs, ZenonT(60) DEF Blank
<1> DEFINE Good(s, js) == o = Loaded(s, js) /\ Fresh(u, f, s, js)
<1>5. \A s, js : Good(s, js) => Fresh(u, f, o.view, o.jobs) BY DEF Loaded
<1>6. Fresh(u, f, Shows(b, "text", "text"), {}) BY <1>2, FreshShows DEF Slots, Kinds, Pane
<1>7. \A w \in {"decode", "count"} : Fresh(u, f, Loading(b), {Job(w, f, b.gen, 0)})
  BY <1>2, FreshLoading
<1>8. Fresh(u, f, Loading(c), {Job("decode", f, b.gen, 0)}) BY <1>4, FreshLoading
<1>9. Fresh(u, f, Card(b), {}) BY <1>2, FreshShows DEF Slots, Kinds, Pane, Card
<1>10. /\ Fresh(u, f, Shows(b, "video", "video"), {})
       /\ Fresh(u, f, Shows(b, "video", "video"), {Job("decode", f, b.gen, 0)})
  BY <1>2, FreshShows DEF Slots, Kinds, Pane
<1>11. Fresh(u, f, Shows(b, "text", "markdown"), {Job("remote", f, b.gen, 0)})
  BY <1>2, FreshShows DEF Slots, Kinds, Pane
<1>12. Fresh(u, f, [b EXCEPT !.kind = "html", !.busy = TRUE, !.shown = TRUE], {}) BY <1>2, WebIs
<1>13. \/ o = Loaded(Shows(b, "text", "text"), {}) \/ o = Loaded(Card(b), {})
       \/ o = Loaded(Loading(b), {Job("decode", f, b.gen, 0)})
       \/ o = Loaded(Loading(b), {Job("count", f, b.gen, 0)})
       \/ o = Loaded(Loading(c), {Job("decode", f, b.gen, 0)})
       \/ o = Loaded(Shows(b, "video", "video"), {})
       \/ o = Loaded(Shows(b, "video", "video"), {Job("decode", f, b.gen, 0)})
       \/ o = Loaded(Shows(b, "text", "markdown"), {Job("remote", f, b.gen, 0)})
       \/ o = Loaded([b EXCEPT !.kind = "html", !.busy = TRUE, !.shown = TRUE], {})
  BY <1>1, <1>3 DEF Outcomes
<1> QED BY <1>5, <1>6, <1>7, <1>8, <1>9, <1>10, <1>11, <1>12, <1>13

-----------------------------------------------------------------------------
(* The invariant *)

WindowTyped ==
  /\ window \in {"none", "open", "gone"} /\ view \in ViewRec /\ jobs \in SUBSET JobRec
  /\ switches \in Seq(Files) /\ selected \in Files
  /\ window = "none" => view = NewState /\ jobs = {}
  /\ window # "none" => view.path \in Files
AnswersOfNow == \A j \in jobs : j.gen <= view.gen
AnswersForIt == \A j \in jobs : Stale(j) \/ (j.of = view.path /\ j.page = view.page)
OneDue == \A i, j \in jobs : Stale(i) \/ Stale(j) \/ i = j
NoneDue == \A j \in jobs : Stale(j)
HeldOf == \A h \in view.held : h.of = view.path
PaneThere ==
  window = "open" =>
    view.kind = "loading" \/ view.busy = TRUE \/ \E h \in view.held : h.slot \in Pane(view.kind)
FirstRender ==
  \A j \in jobs : Stale(j) \/ j.what # "decode" \/ \A h \in view.held : h.slot # "render"
RemoteAdds == \A j \in jobs : Stale(j) \/ j.what # "remote" \/ view.kind = "markdown"
BusyAlone == view.busy = TRUE => NoneDue
BusyHtml == view.busy = TRUE => view.kind = "html"
PageNamed ==
  window = "open" /\ view.kind = "image" /\ NoneDue =>
    \A h \in view.held : h.slot = "render" => h.page = view.page
WindowInv ==
  /\ WindowTyped /\ AnswersOfNow /\ AnswersForIt /\ OneDue /\ HeldOf /\ PaneThere
  /\ FirstRender /\ RemoteAdds /\ BusyAlone /\ BusyHtml /\ PageNamed

TypedStays == switches' \in Seq(Files) /\ selected' \in Files
Core(s, u) ==
  s.path = u.path /\ s.gen = u.gen /\ s.page = u.page /\ s.kind = u.kind /\ s.held = u.held

LEMMA NewStateIs == NewState \in ViewRec /\ NewState.gen = 0 /\ NewState.busy = FALSE
                    /\ NewState.held = {} /\ NewState.kind = "loading"
  BY DEF NewState, ViewRec, Kinds

LEMMA LoadKeeps ==
  ASSUME WindowInv, TypedStays, NEW u \in ViewRec, u.gen = view.gen, u.busy = FALSE, NEW f \in Files,
         NEW o \in Outcomes(u, f), view' = o.view, jobs' = jobs \cup o.jobs, window' = "open"
  PROVE  WindowInv'
<1>1. PICK s, js : s = o.view /\ js = o.jobs OBVIOUS
<1>2. Fresh(u, f, s, js) BY <1>1, OutcomesFresh
<1>3. view' = s /\ jobs' = jobs \cup js /\ js \subseteq JobRec BY <1>1, <1>2 DEF Fresh
<1>4. s.gen = view.gen + 1 /\ view.gen \in Nat BY <1>2 DEF Fresh, WindowInv, WindowTyped, ViewRec
<1>5. \A j \in jobs : j.gen \in Nat /\ j.gen <= view.gen
  BY DEF WindowInv, WindowTyped, AnswersOfNow, JobRec
<1>6. \A j \in jobs : j.gen # s.gen /\ j.gen <= s.gen BY <1>4, <1>5
<1>7. \A j \in js : j.of = f /\ j.gen = s.gen /\ j.page = 0 BY <1>2, <1>4 DEF Fresh
<1>8. \A j \in jobs' : Stale(j)' \/ j \in js BY <1>3, <1>6 DEF Stale
<1>9. WindowTyped' BY <1>2, <1>3 DEF WindowInv, WindowTyped, TypedStays, Fresh
<1>10. AnswersOfNow'
  <2>1. \A j \in js : j.gen <= s.gen BY <1>4, <1>7
  <2> QED BY <1>3, <1>6, <2>1 DEF AnswersOfNow
<1>11. AnswersForIt' BY <1>2, <1>3, <1>7, <1>8 DEF AnswersForIt, Fresh
<1>12. OneDue' BY <1>2, <1>8 DEF OneDue, Fresh
<1>13. HeldOf' BY <1>2, <1>3 DEF HeldOf, Fresh
<1>14. PaneThere' BY <1>2, <1>3 DEF PaneThere, Fresh
<1>15. FirstRender' BY <1>2, <1>3 DEF FirstRender, Fresh
<1>16. RemoteAdds' BY <1>2, <1>3, <1>8 DEF RemoteAdds, Fresh
<1>17. BusyAlone' BY <1>2, <1>3, <1>8 DEF BusyAlone, NoneDue, Fresh
<1>18. PageNamed' BY <1>2, <1>3 DEF PageNamed, Fresh
<1>19. BusyHtml' BY <1>2, <1>3 DEF BusyHtml, Fresh
<1> QED BY <1>9, <1>10, <1>11, <1>12, <1>13, <1>14, <1>15, <1>16, <1>17, <1>18, <1>19 DEF WindowInv

\* a step that leaves alone what the window is about and the threads
LEMMA CoreKeeps ==
  ASSUME WindowInv, TypedStays, view' \in ViewRec, Core(view', view), jobs' = jobs, window # "none",
         \/ window' = window /\ view'.busy = view.busy
         \/ window' = "gone" /\ (view'.busy = TRUE => view.busy = TRUE)
  PROVE  WindowInv'
<1>1. WindowTyped' BY DEF WindowInv, WindowTyped, TypedStays, Core
<1>2. \A j : Stale(j)' <=> Stale(j) BY DEF Stale, Core
<1>3. AnswersOfNow' /\ HeldOf' BY DEF WindowInv, AnswersOfNow, HeldOf, Core
<1>4. AnswersForIt' /\ OneDue' /\ FirstRender' /\ RemoteAdds'
  BY <1>2 DEF WindowInv, AnswersForIt, OneDue, FirstRender, RemoteAdds, Core
<1>5. NoneDue' <=> NoneDue BY <1>2 DEF NoneDue
<1>6. PaneThere' BY DEF WindowInv, PaneThere, Core
<1>7. BusyAlone' /\ BusyHtml' BY <1>5 DEF WindowInv, BusyAlone, BusyHtml, Core
<1>8. PageNamed' BY <1>5 DEF WindowInv, PageNamed, Core
<1> QED BY <1>1, <1>3, <1>4, <1>6, <1>7, <1>8 DEF WindowInv

LEMMA NothingMoves ==
  ASSUME WindowInv, TypedStays, UNCHANGED <<window, view, jobs>>
  PROVE  WindowInv'
<1>1. WindowTyped' BY DEF WindowInv, WindowTyped, TypedStays
<1>2. AnswersOfNow' /\ HeldOf' /\ AnswersForIt' /\ OneDue' /\ FirstRender' /\ RemoteAdds'
  BY DEF WindowInv, AnswersOfNow, HeldOf, AnswersForIt, OneDue, FirstRender, RemoteAdds, Stale
<1>3. PaneThere' /\ BusyAlone' /\ BusyHtml' /\ PageNamed'
  BY DEF WindowInv, PaneThere, BusyAlone, BusyHtml, PageNamed, NoneDue, Stale
<1> QED BY <1>1, <1>2, <1>3 DEF WindowInv

\* the last answer due has come, or none was
LEMMA AnswerTaken ==
  ASSUME WindowInv, TypedStays, window = "open", window' = window,
         jobs' \subseteq jobs, \A i \in jobs' : Stale(i),
         view' \in ViewRec, view'.path = view.path, view'.gen = view.gen, view'.page = view.page,
         HeldOf', PaneThere', view'.busy = FALSE,
         view'.kind = "image" => \A h \in view'.held : h.slot = "render" => h.page = view.page
  PROVE  WindowInv'
<1>1. WindowTyped' BY DEF WindowInv, WindowTyped, TypedStays
<1>2. \A j \in jobs' : Stale(j)' BY DEF Stale
<1>3. AnswersOfNow' BY DEF WindowInv, AnswersOfNow
<1>4. AnswersForIt' /\ OneDue' /\ FirstRender' /\ RemoteAdds'
  BY <1>2 DEF AnswersForIt, OneDue, FirstRender, RemoteAdds
<1>5. BusyAlone' /\ BusyHtml' BY DEF BusyAlone, BusyHtml
<1>6. PageNamed' BY DEF PageNamed
<1> QED BY <1>1, <1>3, <1>4, <1>5, <1>6 DEF WindowInv

\* an answer that nobody waits for
LEMMA StaleDropped ==
  ASSUME WindowInv, TypedStays, NEW j \in jobs, window # "open" \/ Stale(j),
         jobs' = jobs \ {j}, UNCHANGED <<window, view>>
  PROVE  WindowInv'
<1>1. WindowTyped' BY DEF WindowInv, WindowTyped, TypedStays
<1>2. AnswersOfNow' /\ HeldOf' /\ AnswersForIt' /\ OneDue' /\ FirstRender' /\ RemoteAdds'
  BY DEF WindowInv, AnswersOfNow, HeldOf, AnswersForIt, OneDue, FirstRender, RemoteAdds, Stale
<1>3. PaneThere' /\ BusyAlone' /\ BusyHtml'
  BY DEF WindowInv, PaneThere, BusyAlone, BusyHtml, NoneDue, Stale
<1>4. PageNamed' BY DEF WindowInv, PageNamed, NoneDue, Stale
<1> QED BY <1>1, <1>2, <1>3, <1>4 DEF WindowInv

-----------------------------------------------------------------------------
(* The steps *)

Rest == UNCHANGED <<switches, selected>>

LEMMA RestStays == WindowInv /\ Rest => TypedStays
  BY DEF WindowInv, WindowTyped, TypedStays, Rest

\* a field of the view that the invariant does not speak of
LEMMA ViewFields ==
  ASSUME NEW u \in ViewRec, NEW b \in BOOLEAN, NEW f \in Files \cup {NoFile}
  PROVE  /\ LET v == [u EXCEPT !.shown = b] IN v \in ViewRec /\ Core(v, u) /\ v.busy = u.busy
         /\ LET v == [u EXCEPT !.grace = b] IN v \in ViewRec /\ Core(v, u) /\ v.busy = u.busy
         /\ LET v == [u EXCEPT !.source = b] IN v \in ViewRec /\ Core(v, u) /\ v.busy = u.busy
         /\ LET v == [u EXCEPT !.pendingPath = f] IN v \in ViewRec /\ Core(v, u) /\ v.busy = u.busy
         /\ LET v == [u EXCEPT !.pendingClose = b] IN v \in ViewRec /\ Core(v, u) /\ v.busy = u.busy
         /\ LET v == [u EXCEPT !.busy = b] IN v \in ViewRec /\ Core(v, u) /\ v.busy = b
<1>1. ASSUME NEW v, v = [u EXCEPT !.shown = b] PROVE v \in ViewRec /\ Core(v, u) /\ v.busy = u.busy
  <2>1. v \in ViewRec BY <1>1 DEF ViewRec
  <2> QED BY <1>1, <2>1, Zenon DEF ViewRec, Core
<1>2. ASSUME NEW v, v = [u EXCEPT !.grace = b] PROVE v \in ViewRec /\ Core(v, u) /\ v.busy = u.busy
  <2>1. v \in ViewRec BY <1>2 DEF ViewRec
  <2> QED BY <1>2, <2>1, Zenon DEF ViewRec, Core
<1>3. ASSUME NEW v, v = [u EXCEPT !.source = b] PROVE v \in ViewRec /\ Core(v, u) /\ v.busy = u.busy
  <2>1. v \in ViewRec BY <1>3 DEF ViewRec
  <2> QED BY <1>3, <2>1, Zenon DEF ViewRec, Core
<1>4. ASSUME NEW v, v = [u EXCEPT !.pendingPath = f] PROVE v \in ViewRec /\ Core(v, u) /\ v.busy = u.busy
  <2>1. v \in ViewRec BY <1>4 DEF ViewRec
  <2> QED BY <1>4, <2>1, Zenon DEF ViewRec, Core
<1>5. ASSUME NEW v, v = [u EXCEPT !.pendingClose = b] PROVE v \in ViewRec /\ Core(v, u) /\ v.busy = u.busy
  <2>1. v \in ViewRec BY <1>5 DEF ViewRec
  <2> QED BY <1>5, <2>1, Zenon DEF ViewRec, Core
<1>6. ASSUME NEW v, v = [u EXCEPT !.busy = b] PROVE v \in ViewRec /\ Core(v, u) /\ v.busy = b
  <2>1. v \in ViewRec BY <1>6 DEF ViewRec
  <2> QED BY <1>6, <2>1, Zenon DEF ViewRec, Core
<1> QED BY <1>1, <1>2, <1>3, <1>4, <1>5, <1>6

LEMMA LoadStep ==
  ASSUME WindowInv, TypedStays, NEW u \in ViewRec, u.gen = view.gen, u.busy = FALSE, NEW f \in Files,
         Load(u, f), window = "open", window' = "open"
  PROVE  WindowInv'
<1>1. PICK o \in Outcomes(u, f) : view' = o.view /\ jobs' = jobs \cup o.jobs BY DEF Load
<1> QED BY <1>1, LoadKeeps

LEMMA RequestLoadKeeps ==
  ASSUME WindowInv, TypedStays, NEW f \in Files, RequestLoad(f), window = "open", window' = window
  PROVE  WindowInv'
<1>1. view \in ViewRec BY DEF WindowInv, WindowTyped
<1>2. CASE view.busy
  <2>1. view' = [view EXCEPT !.pendingPath = f] /\ jobs' = jobs BY <1>2 DEF RequestLoad
  <2>2. view' \in ViewRec /\ Core(view', view) /\ view'.busy = view.busy BY <1>1, <2>1, ViewFields
  <2> QED BY <2>1, <2>2, CoreKeeps
<1>3. CASE ~view.busy
  <2>1. view.busy = FALSE BY <1>1, <1>3 DEF ViewRec
  <2>2. Load(view, f) BY <1>3 DEF RequestLoad
  <2> QED BY <1>1, <2>1, <2>2, LoadStep
<1> QED BY <1>2, <1>3

LEMMA RequestCloseKeeps ==
  ASSUME WindowInv, TypedStays, RequestClose, window = "open", jobs' = jobs
  PROVE  WindowInv'
<1>1. view \in ViewRec BY DEF WindowInv, WindowTyped
<1>2. CASE view.busy
  <2>1. view' = [view EXCEPT !.pendingClose = TRUE] /\ window' = window BY <1>2 DEF RequestClose
  <2>2. view' \in ViewRec /\ Core(view', view) /\ view'.busy = view.busy BY <1>1, <2>1, ViewFields
  <2> QED BY <2>1, <2>2, CoreKeeps
<1>3. CASE ~view.busy
  <2>1. view' = view /\ window' = "gone" BY <1>3 DEF RequestClose, DestroyWindow
  <2>2. Core(view', view) BY <2>1 DEF Core
  <2> QED BY <1>1, <2>1, <2>2, CoreKeeps
<1> QED BY <1>2, <1>3

LEMMA CreateViewerKeeps == ASSUME WindowInv, NEW f \in Files, CreateViewer(f) PROVE WindowInv'
<1>1. PICK o \in Outcomes(NewState, f) : view' = o.view /\ jobs' = jobs \cup o.jobs BY DEF CreateViewer
<1>2. window = "none" /\ window' = "open" /\ switches' = <<>> /\ selected' = selected BY DEF CreateViewer
<1>3. view = NewState /\ TypedStays BY <1>2 DEF WindowInv, WindowTyped, TypedStays
<1> QED BY <1>1, <1>2, <1>3, NewStateIs, LoadKeeps

LEMMA CreateWebEndsKeeps == ASSUME WindowInv, CreateWebEnds PROVE WindowInv'
<1>1. view \in ViewRec /\ view.busy = TRUE /\ TypedStays
  BY DEF CreateWebEnds, WindowInv, WindowTyped, TypedStays, ViewRec
<1>2. PICK idle : idle = [view EXCEPT !.busy = FALSE] OBVIOUS
<1>3. idle \in ViewRec /\ Core(idle, view) /\ idle.busy = FALSE BY <1>1, <1>2, ViewFields
<1>4. CASE window = "gone" /\ view' = idle /\ jobs' = jobs /\ window' = window
  BY <1>1, <1>3, <1>4, CoreKeeps
<1>5. CASE window = "open" /\ view' = [idle EXCEPT !.pendingClose = FALSE] /\ DestroyWindow /\ jobs' = jobs
  <2>1. view' \in ViewRec /\ Core(view', idle) /\ view'.busy = FALSE BY <1>3, <1>5, ViewFields
  <2>2. Core(view', view) BY <1>3, <2>1 DEF Core
  <2> QED BY <1>1, <1>5, <2>1, <2>2, CoreKeeps DEF DestroyWindow
<1>6. CASE /\ window = "open" /\ view.pendingPath # NoFile /\ window' = window
           /\ Load([idle EXCEPT !.pendingPath = NoFile], view.pendingPath)
  <2>1. PICK u : u = [idle EXCEPT !.pendingPath = NoFile] OBVIOUS
  <2>2. u \in ViewRec /\ Core(u, idle) /\ u.busy = FALSE BY <1>3, <2>1, ViewFields
  <2>3. u.gen = view.gen BY <1>3, <2>2 DEF Core
  <2>4. view.pendingPath \in Files BY <1>1, <1>6 DEF ViewRec
  <2> QED BY <1>1, <1>6, <2>1, <2>2, <2>3, <2>4, LoadStep
<1>7. CASE /\ window = "open" /\ view' \in {Shows(idle, "webview", "html"), Card(idle)}
           /\ window' = window /\ jobs' = jobs
  <2>1. idle.path \in Files BY <1>3, <1>7 DEF Core, WindowInv, WindowTyped
  <2>2. PICK slot \in {"webview", "card"}, k \in {"html", "card"} :
          view' = Shows(idle, slot, k) /\ slot \in Pane(k) BY <1>7 DEF Card, Pane
  <2>3. /\ view' \in ViewRec /\ Same(view', idle) /\ view'.kind = k
        /\ view'.held = idle.held \cup {Held(slot, idle.path, idle.page)}
    BY <1>3, <2>1, <2>2, ShowsIs DEF Slots, Kinds
  <2>4. PICK h : h = Held(slot, idle.path, idle.page) OBVIOUS
  <2>5. h.slot = slot /\ h.of = idle.path
    <3>1. slot \in Slots /\ idle.page \in 0 .. 1 BY <1>3 DEF Slots, ViewRec
    <3> QED BY <2>1, <2>4, <3>1, HeldIs
  <2>6. view'.path = view.path /\ view'.gen = view.gen /\ view'.page = view.page
    BY <1>3, <2>3 DEF Core, Same
  <2>7. HeldOf' BY <1>3, <2>3, <2>4, <2>5, <2>6 DEF WindowInv, HeldOf, Core
  <2>8. PaneThere' BY <2>2, <2>3, <2>4, <2>5 DEF PaneThere
  <2>9. \A i \in jobs' : Stale(i) BY <1>1, <1>7 DEF WindowInv, BusyAlone, NoneDue
  <2>10. view'.kind # "image" /\ view'.busy = FALSE BY <1>3, <2>3 DEF Same
  <2> QED BY <1>1, <1>7, <2>3, <2>6, <2>7, <2>8, <2>9, <2>10, AnswerTaken
<1> QED BY <1>2, <1>4, <1>5, <1>6, <1>7 DEF CreateWebEnds

-----------------------------------------------------------------------------
(* What the threads post *)

\* who is due, is due for the file and the page of the window, and alone
LEMMA TheOneDue ==
  ASSUME WindowInv, NEW j \in jobs, ~Stale(j)
  PROVE  /\ j.of = view.path /\ j.page = view.page /\ j.page \in 0 .. 1
         /\ \A i \in jobs \ {j} : Stale(i)
         /\ view.busy = FALSE
  BY DEF WindowInv, WindowTyped, AnswersForIt, OneDue, BusyAlone, NoneDue, ViewRec

\* holding one thing more, under a kind whose pane is there
LEMMA AddedKeeps ==
  ASSUME WindowInv, TypedStays, window = "open", window' = window, NEW j \in jobs, ~Stale(j),
         jobs' = jobs \ {j},
         NEW h \in HeldRec, h.of = view.path, NEW keep \in SUBSET view.held, NEW k \in Kinds,
         view' \in ViewRec, Same(view', view), view'.kind = k, view'.held = keep \cup {h},
         h.slot \in Pane(k) \/ (k = view.kind /\ keep = view.held),
         k = "image" => \A g \in keep \cup {h} : g.slot = "render" => g.page = view.page
  PROVE  WindowInv'
<1>1. view'.path = view.path /\ view'.gen = view.gen /\ view'.page = view.page /\ view'.busy = view.busy
  BY DEF Same
<1>2. \A i \in jobs' : Stale(i) BY TheOneDue
<1>3. HeldOf' BY <1>1 DEF WindowInv, HeldOf
<1>4. PaneThere' BY <1>1 DEF WindowInv, PaneThere
<1>5. jobs' \subseteq jobs OBVIOUS
<1>6. view'.busy = FALSE BY <1>1, TheOneDue
<1> QED BY <1>1, <1>2, <1>3, <1>4, <1>5, <1>6, AnswerTaken

LEMMA OnRenderKeeps ==
  ASSUME WindowInv, Rest, window = "open", window' = window, NEW j \in jobs, NEW ok \in BOOLEAN,
         OnRender(j, ok), jobs' = jobs \ {j}
  PROVE  WindowInv'
<1>1. TypedStays BY RestStays
<1>2. view \in ViewRec /\ view.path \in Files /\ view.kind \in Kinds
  BY DEF WindowInv, WindowTyped, ViewRec
<1>3. CASE Stale(j) BY <1>1, <1>3, StaleDropped DEF OnRender
<1>4. CASE ~Stale(j) /\ view.kind = "video" /\ ~ok
  <2>0. view' = view BY <1>4 DEF OnRender
  <2>1. jobs' \subseteq jobs /\ \A i \in jobs' : Stale(i) BY <1>4, TheOneDue
  <2>2. HeldOf' BY <2>0 DEF WindowInv, HeldOf
  <2>3. PaneThere' BY <2>0 DEF WindowInv, PaneThere
  <2>4. view'.busy = FALSE BY <1>4, <2>0, TheOneDue
  <2> QED BY <1>1, <1>2, <1>4, <2>4, <2>0, <2>1, <2>2, <2>3, AnswerTaken
<1>5. CASE ~Stale(j) /\ view.kind = "video" /\ ok
  <2>1. PICK h : h = Held("art", j.of, 0) OBVIOUS
  <2>2. view' = [view EXCEPT !.held = @ \cup {h}] BY <1>5, <2>1 DEF OnRender
  <2>3. j.of = view.path BY <1>5, TheOneDue
  <2>8. "art" \in Slots /\ 0 \in 0 .. 1 BY DEF Slots
  <2>7. h \in HeldRec /\ h.of = view.path BY <1>2, <2>1, <2>3, <2>8, HeldIs
  <2>4. view'.held = view.held \cup {h} BY <1>2, <2>2 DEF ViewRec
  <2>5. Same(view', view) /\ view'.kind = view.kind BY <1>2, <2>2, Zenon DEF ViewRec, Same
  <2>6. view' \in ViewRec BY <1>2, <2>2, <2>7 DEF ViewRec
  <2> QED BY <1>1, <1>2, <1>5, <2>7, <2>4, <2>5, <2>6, AddedKeeps
<1>6. CASE ~Stale(j) /\ view.kind # "video" /\ ok
  <2>1. PICK h : h = Held("render", j.of, j.page) OBVIOUS
  <2>2. PICK keep : keep = {g \in view.held : g.slot # "render"} OBVIOUS
  <2>3. view' = [view EXCEPT !.held = keep \cup {h}, !.kind = "image", !.shown = TRUE]
    BY <1>2, <1>6, <2>1, <2>2 DEF OnRender
  <2>4. j.of \in Files /\ j.page \in 0 .. 1 /\ j.of = view.path /\ j.page = view.page
    BY <1>2, <1>6, TheOneDue
  <2>5. h \in HeldRec /\ h.of = view.path /\ h.page = view.page /\ h.slot = "render"
    BY <2>1, <2>4, HeldIs DEF Slots
  <2>6. keep \subseteq view.held /\ keep \subseteq HeldRec BY <1>2, <2>2 DEF ViewRec
  <2>7. view'.held = keep \cup {h} /\ view'.kind = "image" BY <1>2, <2>3 DEF ViewRec
  <2>8. Same(view', view) BY <1>2, <2>3, Zenon DEF ViewRec, Same
  <2>9. view' \in ViewRec BY <1>2, <2>3, <2>5, <2>6 DEF ViewRec, Kinds
  <2>10. h.slot \in Pane("image") /\ "image" \in Kinds BY <2>5 DEF Pane, Kinds
  <2>11. \A g \in keep \cup {h} : g.slot = "render" => g.page = view.page BY <2>2, <2>5
  <2> QED BY <1>1, <1>6, <2>5, <2>6, <2>7, <2>8, <2>9, <2>10, <2>11, AddedKeeps
<1>7. CASE ~Stale(j) /\ view.kind # "video" /\ ~ok
  <2>1. view' = Shows(view, "card", "card") BY <1>7 DEF OnRender, Card
  <2>2. PICK h : h = Held("card", view.path, view.page) OBVIOUS
  <2>3. "card" \in Slots /\ "card" \in Kinds /\ view.page \in 0 .. 1 BY <1>2 DEF Slots, Kinds, ViewRec
  <2>4. h \in HeldRec /\ h.of = view.path /\ h.slot = "card" BY <1>2, <2>2, <2>3, HeldIs
  <2>5. /\ view' \in ViewRec /\ Same(view', view) /\ view'.kind = "card"
        /\ view'.held = view.held \cup {h}
    BY <1>2, <2>1, <2>2, <2>3, ShowsIs
  <2>6. h.slot \in Pane("card") BY <2>4 DEF Pane
  <2> QED BY <1>1, <1>7, <2>3, <2>4, <2>5, <2>6, AddedKeeps
<1> QED BY <1>3, <1>4, <1>5, <1>6, <1>7 DEF OnRender

LEMMA PictureLandsKeeps == ASSUME WindowInv, PictureLands PROVE WindowInv'
<1>1. PICK j \in jobs :
        /\ \E ok \in BOOLEAN : IF window = "open" THEN OnRender(j, ok) ELSE UNCHANGED view
        /\ jobs' = jobs \ {j}
        /\ LeavesQueue
  BY DEF PictureLands
<1>2. Rest /\ window' = window BY <1>1 DEF LeavesQueue, Rest
<1>3. CASE window = "open" BY <1>1, <1>2, <1>3, OnRenderKeeps
<1>4. CASE window # "open" BY <1>1, <1>2, <1>4, RestStays, StaleDropped
<1> QED BY <1>3, <1>4

LEMMA AnimationLandsKeeps == ASSUME WindowInv, AnimationLands PROVE WindowInv'
<1>1. PICK j \in jobs : j.what = "decode" /\ window = "open" /\ OnAnim(j) /\ LeavesQueue
  BY DEF AnimationLands
<1>2. TypedStays /\ window' = window BY <1>1, RestStays DEF LeavesQueue, Rest
<1>3. view \in ViewRec /\ view.path \in Files BY <1>1 DEF WindowInv, WindowTyped
<1>4. CASE Stale(j) /\ view' = view /\ jobs' = jobs \ {j} BY <1>1, <1>2, <1>4, StaleDropped
<1>5. CASE ~Stale(j) /\ view' = Shows(view, "frames", "image") /\ jobs' = jobs \ {j}
  <2>1. PICK h : h = Held("frames", view.path, view.page) OBVIOUS
  <2>2. "frames" \in Slots /\ "image" \in Kinds /\ view.page \in 0 .. 1 BY <1>3 DEF Slots, Kinds, ViewRec
  <2>3. h \in HeldRec /\ h.of = view.path /\ h.slot = "frames" BY <1>3, <2>1, <2>2, HeldIs
  <2>4. /\ view' \in ViewRec /\ Same(view', view) /\ view'.kind = "image"
        /\ view'.held = view.held \cup {h}
    BY <1>3, <1>5, <2>1, <2>2, ShowsIs
  <2>5. h.slot \in Pane("image") BY <2>3 DEF Pane
  <2>6. \A g \in view.held \cup {h} : g.slot = "render" => g.page = view.page
    BY <1>1, <1>5, <2>3 DEF WindowInv, FirstRender
  <2> QED BY <1>1, <1>2, <1>5, <2>2, <2>3, <2>4, <2>5, <2>6, AddedKeeps
<1>6. CASE UNCHANGED <<view, jobs>> BY <1>2, <1>6, NothingMoves
<1> QED BY <1>1, <1>4, <1>5, <1>6 DEF OnAnim

LEMMA RemoteLandsKeeps == ASSUME WindowInv, RemoteLands PROVE WindowInv'
<1>1. PICK j \in jobs :
        /\ j.what = "remote"
        /\ view' = IF window = "open" /\ ~Stale(j) /\ view.kind = "markdown"
                   THEN [view EXCEPT !.held = @ \cup {Held("remote", j.of, 0)}] ELSE view
        /\ jobs' = jobs \ {j} /\ LeavesQueue
  BY DEF RemoteLands
<1>2. TypedStays /\ window' = window BY <1>1, RestStays DEF LeavesQueue, Rest
<1>3. CASE window # "open" \/ Stale(j) BY <1>1, <1>2, <1>3, StaleDropped
<1>4. CASE window = "open" /\ ~Stale(j)
  <2>1. view.kind = "markdown" /\ view \in ViewRec /\ view.path \in Files
    BY <1>1, <1>4 DEF WindowInv, WindowTyped, RemoteAdds
  <2>2. PICK h : h = Held("remote", j.of, 0) OBVIOUS
  <2>3. j.of = view.path BY <1>4, TheOneDue
  <2>4. h \in HeldRec /\ h.of = view.path /\ "markdown" \in Kinds BY <2>1, <2>2, <2>3, HeldIs DEF Slots, Kinds
  <2>5. view' = [view EXCEPT !.held = @ \cup {h}] BY <1>1, <1>4, <2>1, <2>2
  <2>6. view'.held = view.held \cup {h} BY <2>1, <2>5 DEF ViewRec
  <2>7. Same(view', view) /\ view'.kind = view.kind BY <2>1, <2>5, Zenon DEF ViewRec, Same
  <2>8. view' \in ViewRec BY <2>1, <2>4, <2>5 DEF ViewRec
  <2> QED BY <1>1, <1>2, <1>4, <2>1, <2>4, <2>6, <2>7, <2>8, AddedKeeps
<1> QED BY <1>3, <1>4

(* The page count lands, and its page is then due in its place. *)
LEMMA CountLandsKeeps == ASSUME WindowInv, CountLands PROVE WindowInv'
<1>1. PICK j \in jobs :
        /\ j.what = "count"
        /\ view' = IF window = "open" /\ ~Stale(j) THEN [view EXCEPT !.pages = Pages] ELSE view
        /\ jobs' = (jobs \ {j}) \cup {[j EXCEPT !.what = "page"]}
        /\ LeavesQueue
  BY DEF CountLands
<1>2. TypedStays /\ window' = window BY <1>1, RestStays DEF LeavesQueue, Rest
<1>3. view \in ViewRec /\ j \in JobRec BY <1>1 DEF WindowInv, WindowTyped
<1>4. PICK n : n = [j EXCEPT !.what = "page"] OBVIOUS
<1>5. n \in JobRec /\ n.of = j.of /\ n.gen = j.gen /\ n.page = j.page /\ n.what = "page"
  BY <1>3, <1>4 DEF JobRec
<1>6. jobs' = (jobs \ {j}) \cup {n} BY <1>1, <1>4
<1>7. view' \in ViewRec /\ Core(view', view) /\ view'.busy = view.busy
  <2>1. CASE view' = view BY <1>3, <2>1 DEF Core
  <2>2. CASE view' = [view EXCEPT !.pages = 2]
    <3>1. view' \in ViewRec BY <1>3, <2>2 DEF ViewRec
    <3> QED BY <1>3, <2>2, <3>1, Zenon DEF ViewRec, Core
  <2> QED BY <1>1, <2>1, <2>2 DEF Pages
<1>8. WindowTyped'
  <2>1. jobs # {} BY <1>1
  <2>2. window # "none" /\ view.path \in Files BY <2>1 DEF WindowInv, WindowTyped
  <2>3. jobs' \in SUBSET JobRec BY <1>5, <1>6 DEF WindowInv, WindowTyped
  <2> QED BY <1>2, <1>7, <2>2, <2>3 DEF WindowInv, WindowTyped, TypedStays, Core
<1>9. \A i : Stale(i)' <=> Stale(i) BY <1>7 DEF Stale, Core
<1>10. Stale(n) <=> Stale(j) BY <1>5 DEF Stale
<1>11. AnswersOfNow' BY <1>5, <1>6, <1>7 DEF WindowInv, AnswersOfNow, Core
<1>12. AnswersForIt' BY <1>5, <1>6, <1>7, <1>9, <1>10 DEF WindowInv, AnswersForIt, Core
<1>13. OneDue' BY <1>6, <1>9, <1>10 DEF WindowInv, OneDue
<1>14. NoneDue' <=> NoneDue BY <1>6, <1>9, <1>10 DEF NoneDue
<1>15. FirstRender' /\ RemoteAdds' BY <1>5, <1>6, <1>7, <1>9 DEF WindowInv, FirstRender, RemoteAdds, Core
<1>16. HeldOf' /\ PaneThere' BY <1>2, <1>7 DEF WindowInv, HeldOf, PaneThere, Core
<1>17. BusyAlone' /\ BusyHtml' /\ PageNamed'
  BY <1>2, <1>7, <1>14 DEF WindowInv, BusyAlone, BusyHtml, PageNamed, Core
<1> QED BY <1>8, <1>11, <1>12, <1>13, <1>15, <1>16, <1>17 DEF WindowInv

-----------------------------------------------------------------------------
(* The user, the selection and the timers *)

LEMMA GotoPdfPageKeeps == ASSUME WindowInv, GotoPdfPage PROVE WindowInv'
<1>1. PICK p \in 0 .. view.pages - 1 :
        /\ view' = [view EXCEPT !.page = p, !.gen = @ + 1]
        /\ jobs' = jobs \cup {Job("count", view.path, view.gen + 1, p)}
  BY DEF GotoPdfPage
<1>2. window = "open" /\ window' = window /\ view.kind = "image" /\ TypedStays
  BY RestStays DEF GotoPdfPage, Rest
<1>3. view \in ViewRec /\ view.path \in Files /\ view.gen \in Nat
  BY <1>2 DEF WindowInv, WindowTyped, ViewRec
<1>4. p \in 0 .. 1
  <2>1. view.pages = 0 \/ view.pages = 2 BY <1>3 DEF ViewRec
  <2> QED BY <1>1, <2>1
<1>5. PICK n : n = Job("count", view.path, view.gen + 1, p) OBVIOUS
<1>6. n \in JobRec /\ n.what = "count" /\ n.of = view.path /\ n.gen = view.gen + 1 /\ n.page = p
  BY <1>3, <1>4, <1>5, JobIs
<1>7. /\ view'.path = view.path /\ view'.gen = view.gen + 1 /\ view'.page = p
      /\ view'.kind = view.kind /\ view'.held = view.held /\ view'.busy = view.busy
  BY <1>1, <1>3 DEF ViewRec
<1>8. view' \in ViewRec
  <2>1. view.gen + 1 \in Nat BY <1>3
  <2> QED BY <1>1, <1>3, <1>4, <2>1 DEF ViewRec
<1>9. jobs' = jobs \cup {n} BY <1>1, <1>5
<1>10. \A j \in jobs : j.gen \in Nat /\ j.gen <= view.gen
  BY DEF WindowInv, WindowTyped, AnswersOfNow, JobRec
<1>11. \A j \in jobs : Stale(j)' BY <1>3, <1>7, <1>10 DEF Stale
<1>12. ~Stale(n)' BY <1>6, <1>7 DEF Stale
<1>13. WindowTyped' BY <1>2, <1>3, <1>6, <1>7, <1>8, <1>9 DEF WindowInv, WindowTyped, TypedStays
<1>14. AnswersOfNow'
  <2>1. \A j \in jobs : j.gen <= view.gen + 1 BY <1>3, <1>10
  <2> QED BY <1>3, <1>6, <1>7, <1>9, <2>1 DEF AnswersOfNow
<1>15. AnswersForIt' BY <1>6, <1>7, <1>9, <1>11 DEF AnswersForIt
<1>16. OneDue' BY <1>9, <1>11 DEF OneDue
<1>17. FirstRender' /\ RemoteAdds' BY <1>6, <1>9, <1>11 DEF FirstRender, RemoteAdds
<1>18. HeldOf' /\ PaneThere' BY <1>2, <1>7 DEF WindowInv, HeldOf, PaneThere
<1>19. ~NoneDue' BY <1>9, <1>12 DEF NoneDue
<1>20. view.busy = FALSE
  <2>1. CASE view.busy = TRUE BY <2>1, <1>2 DEF WindowInv, BusyHtml
  <2> QED BY <1>3, <2>1 DEF ViewRec
<1>21. BusyAlone' /\ BusyHtml' BY <1>7, <1>20 DEF BusyAlone, BusyHtml
<1>22. PageNamed' BY <1>19 DEF PageNamed
<1> QED BY <1>13, <1>14, <1>15, <1>16, <1>17, <1>18, <1>21, <1>22 DEF WindowInv

LEMMA ToggleSourceKeeps == ASSUME WindowInv, ToggleSource PROVE WindowInv'
<1>1. window = "open" /\ window' = window /\ TypedStays BY RestStays DEF ToggleSource, Rest
<1>2. view \in ViewRec /\ view.path \in Files /\ view.source \in BOOLEAN
  BY <1>1 DEF WindowInv, WindowTyped, ViewRec
<1>3. PICK u : u = [view EXCEPT !.source = ~@] OBVIOUS
<1>4. u \in ViewRec /\ Core(u, view) /\ u.busy = view.busy
  <2>1. PICK b \in BOOLEAN : b = ~view.source BY <1>2
  <2>2. u = [view EXCEPT !.source = b] BY <1>2, <1>3, <2>1
  <2> QED BY <1>2, <2>2, ViewFields
<1>5. u.path = view.path /\ u.gen = view.gen BY <1>4 DEF Core
<1>6. CASE u.busy
  <2>1. view' = [u EXCEPT !.pendingPath = u.path] /\ jobs' = jobs BY <1>3, <1>6 DEF ToggleSource
  <2>4. view' = [u EXCEPT !.pendingPath = view.path] BY <1>5, <2>1
  <2>5. view.path \in Files \cup {NoFile} BY <1>2
  <2>2. view' \in ViewRec /\ Core(view', u) /\ view'.busy = u.busy BY <1>4, <2>4, <2>5, ViewFields
  <2>3. Core(view', view) BY <1>4, <2>2 DEF Core
  <2> QED BY <1>1, <1>4, <2>1, <2>2, <2>3, CoreKeeps
<1>7. CASE ~u.busy
  <2>1. Load(u, view.path) BY <1>3, <1>5, <1>7 DEF ToggleSource
  <2>2. u.busy = FALSE BY <1>4, <1>7 DEF ViewRec
  <2> QED BY <1>1, <1>2, <1>4, <1>5, <2>1, <2>2, LoadStep
<1> QED BY <1>6, <1>7

LEMMA TimersKeep == ASSUME WindowInv, ShowTimer \/ GraceTimer PROVE WindowInv'
<1>1. window = "open" /\ window' = window /\ TypedStays /\ jobs' = jobs
  BY RestStays DEF ShowTimer, GraceTimer, Rest
<1>2. view \in ViewRec BY DEF WindowInv, WindowTyped
<1>3. view' \in ViewRec /\ Core(view', view) /\ view'.busy = view.busy
  <2>1. view' = [view EXCEPT !.shown = TRUE] \/ view' = [view EXCEPT !.grace = FALSE]
    BY DEF ShowTimer, GraceTimer
  <2>2. CASE view' = [view EXCEPT !.shown = TRUE] BY <1>2, <2>2, ViewFields
  <2>3. CASE view' = [view EXCEPT !.grace = FALSE] BY <1>2, <2>3, ViewFields
  <2> QED BY <2>1, <2>2, <2>3
<1> QED BY <1>1, <1>3, CoreKeeps

LEMMA ViewerEndsKeeps == ASSUME WindowInv, ViewerEnds PROVE WindowInv'
<1>1. /\ window' = "none" /\ view' = NewState /\ jobs' = {} /\ switches' = <<>>
      /\ selected' = selected
  BY DEF ViewerEnds
<1>2. WindowTyped' BY <1>1, NewStateIs DEF WindowInv, WindowTyped
<1>3. AnswersOfNow' /\ AnswersForIt' /\ OneDue' /\ FirstRender' /\ RemoteAdds'
  BY <1>1 DEF AnswersOfNow, AnswersForIt, OneDue, FirstRender, RemoteAdds
<1>4. HeldOf' /\ PaneThere' /\ BusyAlone' /\ BusyHtml' /\ PageNamed'
  BY <1>1, NewStateIs DEF HeldOf, PaneThere, BusyAlone, BusyHtml, PageNamed
<1> QED BY <1>2, <1>3, <1>4 DEF WindowInv

LEMMA WindowInvInit == WindowInit => WindowInv
<1> SUFFICES ASSUME WindowInit PROVE WindowInv OBVIOUS
<1>1. window = "none" /\ view = NewState /\ jobs = {} /\ switches = <<>> /\ selected \in Files
  BY ViewerAssumption DEF WindowInit
<1>2. WindowTyped BY <1>1, NewStateIs DEF WindowTyped
<1>3. AnswersOfNow /\ AnswersForIt /\ OneDue /\ FirstRender /\ RemoteAdds
  BY <1>1 DEF AnswersOfNow, AnswersForIt, OneDue, FirstRender, RemoteAdds
<1>4. HeldOf /\ PaneThere /\ BusyAlone /\ BusyHtml /\ PageNamed
  BY <1>1, NewStateIs DEF HeldOf, PaneThere, BusyAlone, BusyHtml, PageNamed
<1> QED BY <1>2, <1>3, <1>4 DEF WindowInv

LEMMA WindowInvKept == WindowInv /\ [WindowNext]_windowVars => WindowInv'
<1> SUFFICES ASSUME WindowInv, [WindowNext]_windowVars PROVE WindowInv' OBVIOUS
<1>1. Selectable \subseteq Files BY ViewerAssumption
<1>2. ASSUME NEW f \in Files, CreateViewer(f) PROVE WindowInv' BY <1>2, CreateViewerKeeps
<1>3. ASSUME NEW f \in Files, SetPath(f) PROVE WindowInv'
  BY <1>3, RestStays, RequestLoadKeeps DEF SetPath, Rest
<1>4. ASSUME NEW f \in Files, Select(f) PROVE WindowInv'
  <2>1. TypedStays BY <1>1, <1>4 DEF Select, TypedStays, WindowInv, WindowTyped
  <2> QED BY <1>4, <2>1, NothingMoves DEF Select
<1>5. CASE CreateWebEnds BY <1>5, CreateWebEndsKeeps
<1>6. CASE Lands
  BY <1>6, PictureLandsKeeps, AnimationLandsKeeps, CountLandsKeeps, RemoteLandsKeeps DEF Lands
<1>7. CASE Poll
  <2>1. TypedStays BY <1>7 DEF Poll, TypedStays, WindowInv, WindowTyped
  <2> QED BY <1>7, <2>1, NothingMoves DEF Poll
<1>8. CASE OnSwitch
  <2>1. PICK f : f = Head(switches) OBVIOUS
  <2>2. f \in Files BY <1>8, <2>1 DEF OnSwitch, WindowInv, WindowTyped
  <2>3. TypedStays BY <1>8 DEF OnSwitch, TypedStays, WindowInv, WindowTyped
  <2>4. CASE view.path # f BY <1>8, <2>1, <2>2, <2>3, <2>4, RequestLoadKeeps DEF OnSwitch
  <2>5. CASE view.path = f BY <1>8, <2>1, <2>3, <2>5, NothingMoves DEF OnSwitch
  <2> QED BY <2>4, <2>5
<1>9. CASE CloseCommand \/ CloseKey \/ LosesFocus
  <2>1. window = "open" /\ jobs' = jobs /\ TypedStays
    BY <1>9, RestStays DEF CloseCommand, CloseKey, LosesFocus, Rest
  <2>2. RequestClose \/ UNCHANGED <<window, view>> BY <1>9 DEF CloseCommand, CloseKey, LosesFocus
  <2> QED BY <2>1, <2>2, RequestCloseKeeps, NothingMoves
<1>10. CASE NavSibling
  <2>1. PICK f \in Files : RequestLoad(f) BY <1>10 DEF NavSibling
  <2> QED BY <1>10, <2>1, RestStays, RequestLoadKeeps DEF NavSibling, Rest
<1>11. CASE GotoPdfPage BY <1>11, GotoPdfPageKeeps
<1>12. CASE ToggleSource BY <1>12, ToggleSourceKeeps
<1>13. CASE CloseAtOnce
  <2>1. window = "open" /\ window' = "gone" /\ view' = view /\ jobs' = jobs /\ TypedStays
    BY <1>13, RestStays DEF CloseAtOnce, DestroyWindow, Rest
  <2>2. view' \in ViewRec /\ Core(view', view) BY <2>1 DEF WindowInv, WindowTyped, Core
  <2> QED BY <2>1, <2>2, CoreKeeps
<1>14. CASE ShowTimer \/ GraceTimer BY <1>14, TimersKeep
<1>15. CASE ViewerEnds BY <1>15, ViewerEndsKeeps
<1>16. CASE UNCHANGED windowVars
  BY <1>16, RestStays, NothingMoves DEF windowVars, Rest
<1> QED BY <1>2, <1>3, <1>4, <1>5, <1>6, <1>7, <1>8, <1>9, <1>10, <1>11, <1>12, <1>13, <1>14, <1>15, <1>16
        DEF WindowNext

(* Whatever answers of files already left are on their way, everything the   *)
(* Quick Look window holds is of the file it is about, what it paints is     *)
(* there, and a page of a PDF is the page the pager names; for any files, in *)
(* any order of loads, page turns, switches, commands and answers.           *)
THEOREM AlwaysShowsItsFile == WindowSpec => []ShowsItsFile
<1>1. WindowInv => ShowsItsFile
  <2> SUFFICES ASSUME WindowInv, window = "open" PROVE ShowsItsFile BY DEF ShowsItsFile
  <2>1. \A h \in view.held : h.of = view.path BY DEF WindowInv, HeldOf
  <2>2. view.kind = "loading" \/ view.busy \/ \E h \in view.held : h.slot \in Pane(view.kind)
    BY DEF WindowInv, PaneThere
  <2>3. view.kind = "image" /\ (\A j \in jobs : Stale(j)) =>
          \A h \in view.held : h.slot = "render" => h.page = view.page
    BY DEF WindowInv, PageNamed, NoneDue
  <2> QED BY <2>1, <2>2, <2>3 DEF ShowsItsFile
<1> QED BY <1>1, WindowInvInit, WindowInvKept, PTL DEF WindowSpec

-----------------------------------------------------------------------------
(* The window implements WindowLife *)

LifeStep == [Life!LifeNext]_(Life!life)

LEMMA LoadReloads ==
  ASSUME WindowInv, NEW u \in ViewRec, u.busy = FALSE, u.pendingClose = view.pendingClose,
         NEW f \in Files, Load(u, f)
  PROVE  /\ view'.busy \in BOOLEAN /\ view'.grace = TRUE /\ view'.pendingClose = view.pendingClose
<1>1. PICK o \in Outcomes(u, f) : view' = o.view BY DEF Load
<1>2. Fresh(u, f, o.view, o.jobs) BY OutcomesFresh
<1>3. PICK s : s = o.view OBVIOUS
<1>4. s \in ViewRec /\ s.grace = TRUE /\ s.pendingClose = u.pendingClose BY <1>2, <1>3 DEF Fresh
<1>5. s.busy \in BOOLEAN BY <1>4 DEF ViewRec
<1> QED BY <1>1, <1>3, <1>4, <1>5

LEMMA RequestLoadLives ==
  ASSUME WindowInv, NEW f \in Files, RequestLoad(f), window = "open", window' = window
  PROVE  LifeStep
<1>1. view \in ViewRec BY DEF WindowInv, WindowTyped
<1>2. CASE view.busy
  <2>1. view' = [view EXCEPT !.pendingPath = f] BY <1>2 DEF RequestLoad
  <2>2. view'.busy = view.busy /\ view'.grace = view.grace /\ view'.pendingClose = view.pendingClose
    BY <1>1, <2>1 DEF ViewRec
  <2> QED BY <2>2 DEF LifeStep, Life!life
<1>3. CASE ~view.busy
  <2>1. view.busy = FALSE /\ Load(view, f) BY <1>1, <1>3 DEF ViewRec, RequestLoad
  <2>2. view'.busy \in BOOLEAN /\ view'.grace = TRUE /\ view'.pendingClose = view.pendingClose
    BY <1>1, <2>1, LoadReloads
  <2>3. Life!Reloads BY <1>3, <2>2 DEF Life!Reloads
  <2> QED BY <2>3 DEF LifeStep, Life!LifeNext
<1> QED BY <1>2, <1>3

LEMMA RequestCloseLives ==
  ASSUME WindowInv, RequestClose, window = "open"
  PROVE  Life!Closes
<1>1. view \in ViewRec BY DEF WindowInv, WindowTyped
<1>2. CASE view.busy
  <2>1. view' = [view EXCEPT !.pendingClose = TRUE] /\ window' = window BY <1>2 DEF RequestClose
  <2>2. view'.busy = view.busy /\ view'.grace = view.grace /\ view'.pendingClose = TRUE
    BY <1>1, <2>1 DEF ViewRec
  <2> QED BY <1>2, <2>1, <2>2 DEF Life!Closes
<1>3. CASE ~view.busy BY <1>3 DEF RequestClose, DestroyWindow, Life!Closes
<1> QED BY <1>2, <1>3

LEMMA CreateWebEndsLives == ASSUME WindowInv, CreateWebEnds PROVE Life!PumpEnds
<1>1. view \in ViewRec /\ view.busy = TRUE BY DEF CreateWebEnds, WindowInv, WindowTyped, ViewRec
<1>2. PICK idle : idle = [view EXCEPT !.busy = FALSE] OBVIOUS
<1>3. /\ idle \in ViewRec /\ idle.busy = FALSE
      /\ idle.grace = view.grace /\ idle.pendingClose = view.pendingClose
  <2>1. idle \in ViewRec BY <1>1, <1>2, ViewFields
  <2> QED BY <1>1, <1>2, <2>1 DEF ViewRec
<1>4. CASE window = "gone" /\ view' = idle /\ window' = window
  BY <1>1, <1>3, <1>4 DEF Life!PumpEnds
<1>5. CASE window = "open" /\ view.pendingClose /\ view' = [idle EXCEPT !.pendingClose = FALSE] /\ DestroyWindow
  <2>1. view'.busy = FALSE /\ view'.grace = view.grace /\ view'.pendingClose = FALSE
    BY <1>3, <1>5 DEF ViewRec
  <2> QED BY <1>1, <1>5, <2>1 DEF Life!PumpEnds, DestroyWindow
<1>6. CASE /\ window = "open" /\ ~view.pendingClose /\ view.pendingPath # NoFile /\ window' = window
           /\ Load([idle EXCEPT !.pendingPath = NoFile], view.pendingPath)
  <2>1. PICK u : u = [idle EXCEPT !.pendingPath = NoFile] OBVIOUS
  <2>2. u \in ViewRec BY <1>3, <2>1, ViewFields
  <2>3. u.busy = FALSE /\ u.pendingClose = view.pendingClose BY <1>3, <2>1 DEF ViewRec
  <2>4. view.pendingPath \in Files BY <1>1, <1>6 DEF ViewRec
  <2>5. view'.busy \in BOOLEAN /\ view'.grace = TRUE /\ view'.pendingClose = view.pendingClose
    BY <1>6, <2>1, <2>2, <2>3, <2>4, LoadReloads
  <2> QED BY <1>1, <1>6, <2>5 DEF Life!PumpEnds
<1>7. CASE /\ window = "open" /\ ~view.pendingClose /\ window' = window
           /\ view' \in {Shows(idle, "webview", "html"), Card(idle)}
  <2>1. idle.path \in Files
    BY <1>1, <1>2, <1>7 DEF WindowInv, WindowTyped, ViewRec
  <2>2. view' = Shows(idle, "webview", "html") \/ view' = Shows(idle, "card", "card") BY <1>7 DEF Card
  <2>3. Same(view', idle) BY <1>3, <2>1, <2>2, ShowsIs DEF Slots, Kinds
  <2>4. view'.busy = FALSE /\ view'.grace = view.grace /\ view'.pendingClose = view.pendingClose
    BY <1>3, <2>3 DEF Same
  <2>5. view.grace \in BOOLEAN BY <1>1 DEF ViewRec
  <2> QED BY <1>1, <1>7, <2>4, <2>5 DEF Life!PumpEnds
<1> QED BY <1>2, <1>4, <1>5, <1>6, <1>7 DEF CreateWebEnds

\* an answer of a thread leaves the life of the window alone
LEMMA LandsLives == ASSUME WindowInv, Lands PROVE UNCHANGED Life!life
<1>1. view \in ViewRec /\ jobs \in SUBSET JobRec BY DEF WindowInv, WindowTyped
<1>2. SUFFICES view'.busy = view.busy /\ view'.grace = view.grace /\ view'.pendingClose = view.pendingClose
  BY DEF Life!life, Lands, PictureLands, AnimationLands, CountLands, RemoteLands, LeavesQueue
<1>3. ASSUME view.path \in Files, NEW s \in Slots, NEW k \in Kinds, view' = Shows(view, s, k)
      PROVE  view'.busy = view.busy /\ view'.grace = view.grace /\ view'.pendingClose = view.pendingClose
  BY <1>1, <1>3, ShowsIs DEF Same
<1>4. ASSUME NEW x, view' = [view EXCEPT !.held = x]
      PROVE  view'.busy = view.busy /\ view'.grace = view.grace /\ view'.pendingClose = view.pendingClose
  BY <1>1, <1>4 DEF ViewRec
<1>5. ASSUME NEW x, view' = [view EXCEPT !.held = x, !.kind = "image", !.shown = TRUE]
      PROVE  view'.busy = view.busy /\ view'.grace = view.grace /\ view'.pendingClose = view.pendingClose
  BY <1>1, <1>5 DEF ViewRec
<1>6. CASE view' = view BY <1>6
<1>7. window = "open" => view.path \in Files BY DEF WindowInv, WindowTyped
<1>8. {"card", "frames"} \subseteq Slots /\ {"card", "image"} \subseteq Kinds BY DEF Slots, Kinds
<1>9. CASE PictureLands
  BY <1>3, <1>4, <1>5, <1>6, <1>7, <1>8, <1>9 DEF PictureLands, OnRender, Card
<1>10. CASE AnimationLands
  BY <1>3, <1>6, <1>7, <1>8, <1>10 DEF AnimationLands, OnAnim
<1>11. CASE CountLands
  <2>1. view' = view \/ view' = [view EXCEPT !.pages = Pages] BY <1>11 DEF CountLands
  <2> QED BY <1>1, <1>6, <2>1 DEF ViewRec
<1>12. CASE RemoteLands BY <1>4, <1>6, <1>12 DEF RemoteLands
<1> QED BY <1>9, <1>10, <1>11, <1>12 DEF Lands

LEMMA StepLives == WindowInv /\ [WindowNext]_windowVars => LifeStep
<1> SUFFICES ASSUME WindowInv, [WindowNext]_windowVars PROVE LifeStep OBVIOUS
<1>1. view \in ViewRec BY DEF WindowInv, WindowTyped
<1>2. ASSUME NEW f \in Files, CreateViewer(f) PROVE LifeStep
  <2>1. PICK o \in Outcomes(NewState, f) : view' = o.view BY <1>2 DEF CreateViewer
  <2>2. Fresh(NewState, f, o.view, o.jobs) BY NewStateIs, OutcomesFresh
  <2>3. view' \in ViewRec /\ view'.grace = TRUE /\ view'.pendingClose = FALSE
    BY <2>1, <2>2 DEF Fresh, NewState
  <2>4. view'.busy \in BOOLEAN BY <2>3 DEF ViewRec
  <2>5. Life!Opens BY <1>2, <2>3, <2>4 DEF CreateViewer, Life!Opens
  <2> QED BY <2>5 DEF LifeStep, Life!LifeNext
<1>3. ASSUME NEW f \in Files, SetPath(f) PROVE LifeStep BY <1>3, RequestLoadLives DEF SetPath
<1>4. ASSUME UNCHANGED <<window, view>> PROVE LifeStep BY <1>4 DEF LifeStep, Life!life
<1>5. ASSUME NEW f \in Files, Select(f) PROVE LifeStep BY <1>4, <1>5 DEF Select
<1>6. CASE CreateWebEnds BY <1>6, CreateWebEndsLives DEF LifeStep, Life!LifeNext
<1>7. CASE Lands BY <1>7, LandsLives DEF LifeStep
<1>8. CASE Poll BY <1>4, <1>8 DEF Poll
<1>9. CASE OnSwitch
  <2>1. PICK f : f = Head(switches) OBVIOUS
  <2>2. f \in Files BY <1>9, <2>1 DEF OnSwitch, WindowInv, WindowTyped
  <2>3. CASE view.path # f BY <1>9, <2>1, <2>2, <2>3, RequestLoadLives DEF OnSwitch
  <2>4. CASE view.path = f BY <1>4, <1>9, <2>1, <2>4 DEF OnSwitch
  <2> QED BY <2>3, <2>4
<1>10. CASE CloseCommand
  <2>1. CASE view.grace
    BY <1>4, <1>10, <2>1 DEF CloseCommand
  <2>2. CASE ~view.grace
    BY <1>10, <2>2, RequestCloseLives DEF CloseCommand, LifeStep, Life!LifeNext
  <2> QED BY <2>1, <2>2
<1>11. CASE CloseKey \/ LosesFocus
  BY <1>11, RequestCloseLives DEF CloseKey, LosesFocus, LifeStep, Life!LifeNext
<1>12. CASE NavSibling BY <1>12, RequestLoadLives DEF NavSibling
<1>13. CASE GotoPdfPage
  <2>1. PICK p : view' = [view EXCEPT !.page = p, !.gen = @ + 1] BY <1>13 DEF GotoPdfPage
  <2>2. view'.busy = view.busy /\ view'.grace = view.grace /\ view'.pendingClose = view.pendingClose
    BY <1>1, <2>1 DEF ViewRec
  <2> QED BY <1>13, <2>2 DEF GotoPdfPage, LifeStep, Life!life
<1>14. CASE ToggleSource
  <2>1. PICK u : u = [view EXCEPT !.source = ~@] OBVIOUS
  <2>2. u.busy = view.busy /\ u.grace = view.grace /\ u.pendingClose = view.pendingClose /\ u.path = view.path
    BY <1>1, <2>1 DEF ViewRec
  <2>3. u \in ViewRec
    <3>1. PICK b \in BOOLEAN : b = ~view.source BY <1>1 DEF ViewRec
    <3>2. u = [view EXCEPT !.source = b] BY <1>1, <2>1, <3>1
    <3> QED BY <1>1, <3>2, ViewFields
  <2>4. CASE u.busy
    <3>1. view' = [u EXCEPT !.pendingPath = u.path] BY <1>14, <2>1, <2>4 DEF ToggleSource
    <3>2. view'.busy = u.busy /\ view'.grace = u.grace /\ view'.pendingClose = u.pendingClose
      BY <2>3, <3>1 DEF ViewRec
    <3> QED BY <1>14, <2>2, <3>2 DEF ToggleSource, LifeStep, Life!life
  <2>5. CASE ~u.busy
    <3>1. Load(u, u.path) /\ window = "open" /\ window' = window BY <1>14, <2>1, <2>5 DEF ToggleSource
    <3>2. u.busy = FALSE /\ u.path \in Files
      BY <2>2, <2>3, <2>5, <3>1 DEF ViewRec, WindowInv, WindowTyped
    <3>3. view'.busy \in BOOLEAN /\ view'.grace = TRUE /\ view'.pendingClose = view.pendingClose
      BY <2>2, <2>3, <3>1, <3>2, LoadReloads
    <3>4. Life!Reloads BY <2>2, <2>5, <3>1, <3>3 DEF Life!Reloads
    <3> QED BY <3>4 DEF LifeStep, Life!LifeNext
  <2> QED BY <2>4, <2>5
<1>15. CASE CloseAtOnce
  BY <1>15 DEF CloseAtOnce, DestroyWindow, LifeStep, Life!LifeNext, Life!ClosesAtOnce
<1>16. CASE ShowTimer
  <2>1. view' = [view EXCEPT !.shown = TRUE] BY <1>16 DEF ShowTimer
  <2>2. view'.busy = view.busy /\ view'.grace = view.grace /\ view'.pendingClose = view.pendingClose
    BY <1>1, <2>1 DEF ViewRec
  <2> QED BY <1>16, <2>2 DEF ShowTimer, LifeStep, Life!life
<1>17. CASE GraceTimer
  <2>1. view' = [view EXCEPT !.grace = FALSE] BY <1>17 DEF GraceTimer
  <2>2. view'.busy = view.busy /\ view'.grace = FALSE /\ view'.pendingClose = view.pendingClose
    BY <1>1, <2>1 DEF ViewRec
  <2>3. Life!GraceEnds BY <1>17, <2>2 DEF GraceTimer, Life!GraceEnds
  <2> QED BY <2>3 DEF LifeStep, Life!LifeNext
<1>18. CASE ViewerEnds
  <2>1. Life!ProcessEnds BY <1>18 DEF ViewerEnds, NewState, Life!ProcessEnds
  <2> QED BY <2>1 DEF LifeStep, Life!LifeNext
<1>19. CASE UNCHANGED windowVars BY <1>4, <1>19 DEF windowVars
<1> QED BY <1>2, <1>3, <1>5, <1>6, <1>7, <1>8, <1>9, <1>10, <1>11, <1>12, <1>13, <1>14, <1>15, <1>16,
           <1>17, <1>18, <1>19 DEF WindowNext

(* The window of Viewer implements WindowLife, which is all that the         *)
(* processes of QuickLook know of it: a step of the window is a step of its  *)
(* life or changes nothing in it.  That a close which was put off comes, and *)
(* that the process ends, is liveness and is left to TLC.                    *)
THEOREM WindowKeepsItsLife == WindowSpec => Life!LifeInit /\ [][Life!LifeNext]_(Life!life)
<1>1. WindowInit => Life!LifeInit BY DEF WindowInit, NewState, Life!LifeInit
<1>2. WindowInv /\ [WindowNext]_windowVars => [Life!LifeNext]_(Life!life) BY StepLives DEF LifeStep
<1> QED BY <1>1, <1>2, WindowInvInit, WindowInvKept, PTL DEF WindowSpec

-----------------------------------------------------------------------------
(* Sequences                                                                 *)

LEMMA FrontIs ==
  ASSUME NEW S, NEW s \in Seq(S), s # <<>>
  PROVE  /\ Front(s) \in Seq(S) /\ Len(Front(s)) = Len(s) - 1
         /\ \A i \in 1 .. Len(s) - 1 : Front(s)[i] = s[i]
<1>1. PICK n : n = Len(s) - 1 OBVIOUS
<1>2. n \in Int /\ n >= 0 BY <1>1
<1>3. \A i \in 1 .. n : s[i] \in S BY <1>1
<1>4. PICK f : f = SubSeq(s, 1, n) OBVIOUS
<1>5. f \in Seq(S) /\ Len(f) = IF 1 <= n THEN n - 1 + 1 ELSE 0 BY <1>2, <1>3, <1>4, SubSeqProperties
<1>6. \A i \in 1 .. n - 1 + 1 : f[i] = s[1 + i - 1] BY <1>2, <1>3, <1>4, SubSeqProperties
<1>7. Len(f) = n BY <1>2, <1>5
<1>8. ASSUME NEW i \in 1 .. n PROVE f[i] = s[i]
  <2>1. i \in 1 .. n - 1 + 1 /\ 1 + i - 1 = i BY <1>2
  <2> QED BY <1>6, <2>1
<1>9. Front(s) = f BY <1>1, <1>4 DEF Front
<1> QED BY <1>1, <1>5, <1>7, <1>8, <1>9

LEMMA RemoveAtIs ==
  ASSUME NEW S, NEW s \in Seq(S), NEW i \in 1 .. Len(s)
  PROVE  /\ RemoveAt(s, i) \in Seq(S) /\ Len(RemoveAt(s, i)) = Len(s) - 1
         /\ \A k \in 1 .. Len(s) - 1 : RemoveAt(s, i)[k] = IF k < i THEN s[k] ELSE s[k + 1]
<1>1. PICK a : a = SubSeq(s, 1, i - 1) OBVIOUS
<1>2. PICK b : b = SubSeq(s, i + 1, Len(s)) OBVIOUS
<1>3. a \in Seq(S) /\ Len(a) = i - 1 /\ \A k \in 1 .. i - 1 : a[k] = s[k] BY <1>1, SubSeqProperties
<1>4. b \in Seq(S) /\ Len(b) = Len(s) - i /\ \A k \in 1 .. Len(s) - i : b[k] = s[i + k]
  BY <1>2, SubSeqProperties
<1>5. PICK c : c = a \o b OBVIOUS
<1>6. c \in Seq(S) /\ Len(c) = Len(s) - 1
  <2>1. c \in Seq(S) /\ Len(c) = Len(a) + Len(b) BY <1>3, <1>4, <1>5, ConcatProperties
  <2> QED BY <1>3, <1>4, <2>1
<1>7. ASSUME NEW k \in 1 .. Len(s) - 1 PROVE c[k] = IF k < i THEN s[k] ELSE s[k + 1]
  <2>1. CASE k < i
    <3>1. c[k] = a[k] BY <1>3, <1>4, <1>5, <2>1
    <3> QED BY <1>3, <2>1, <3>1
  <2>2. CASE k >= i
    <3>1. c[k] = b[k - i + 1] BY <1>3, <1>4, <1>5, <2>2
    <3>2. k - i + 1 \in 1 .. Len(s) - i /\ i + (k - i + 1) = k + 1 BY <2>2
    <3>3. b[k - i + 1] = s[k + 1] BY <1>4, <3>2
    <3> QED BY <2>2, <3>1, <3>3
  <2> QED BY <2>1, <2>2
<1>8. RemoveAt(s, i) = c BY <1>1, <1>2, <1>5 DEF RemoveAt
<1> QED BY <1>6, <1>7, <1>8

\* a set of indices has a largest one
LEMMA MaxIs ==
  ASSUME NEW n \in Nat, NEW I \in SUBSET (1 .. n), I # {}
  PROVE  Max(I) \in I
<1>1. PICK T : T = {n - i : i \in I} OBVIOUS
<1>2. T \subseteq Nat
  <2>1. ASSUME NEW i \in I PROVE n - i \in Nat
    <3>1. i \in 1 .. n OBVIOUS
    <3> QED BY <3>1
  <2> QED BY <1>1, <2>1
<1>3. T # {} BY <1>1
<1>4. PICK R : R = OpToRel(<, Nat) OBVIOUS
<1>5. IsWellFoundedOn(R, Nat) BY <1>4, NatLessThanWellFounded
<1>6. PICK m \in T : \A y \in T : <<y, m>> \notin R BY <1>2, <1>3, <1>5, WFMin
<1>7. ASSUME NEW y \in T PROVE m <= y
  <2>1. y \in Nat /\ m \in Nat BY <1>2
  <2>2. CASE y < m
    <3>1. <<y, m>> \in Nat \X Nat /\ <<y, m>>[1] < <<y, m>>[2] BY <2>1, <2>2
    <3>2. <<y, m>> \in R BY <1>4, <3>1 DEF OpToRel
    <3> QED BY <1>6, <3>2
  <2> QED BY <2>1, <2>2
<1>8. PICK i \in I : m = n - i BY <1>1, <1>6
<1>9. ASSUME NEW k \in I PROVE i >= k
  <2>1. n - k \in T /\ k \in 1 .. n /\ i \in 1 .. n BY <1>1
  <2>2. m <= n - k BY <1>7, <2>1
  <2> QED BY <1>8, <2>1, <2>2
<1> QED BY <1>9 DEF Max

LEMMA HitIs ==
  ASSUME NEW s, NEW S, s.shapes \in Seq(S), NEW p
  PROVE  hit_shape(s, p) \in {0} \cup (1 .. Len(s.shapes))
<1>1. PICK I : I = {i \in 1 .. Len(s.shapes) : s.shapes[i].at = p} OBVIOUS
<1>2. hit_shape(s, p) = IF I # {} THEN Max(I) ELSE 0 BY <1>1 DEF hit_shape, SelectLastInSeq
<1>3. PICK n \in Nat : n = Len(s.shapes) OBVIOUS
<1>4. I \in SUBSET (1 .. n) BY <1>1, <1>3
<1>5. I # {} => Max(I) \in I BY <1>3, <1>4, MaxIs
<1> QED BY <1>2, <1>3, <1>4, <1>5

-----------------------------------------------------------------------------
(* The capture: its invariant                                                *)

MarkRec == [id : Nat, at : Points]
ShotRec ==
  [sel : BOOLEAN, sel_dragging : BOOLEAN, tool : Tools, shapes : Seq(MarkRec), redo : Seq(MarkRec),
   draw_from : BOOLEAN, typing : [on : BOOLEAN, full : BOOLEAN], typing_drag : BOOLEAN,
   selected : Nat, move_from : BOOLEAN, flyout : {"none", "color", "text"}]

Rising(q) == \A i, k \in 1 .. Len(q) : i < k => q[i].id < q[k].id
Falling(q) == \A i, k \in 1 .. Len(q) : i < k => q[i].id > q[k].id
Ordered(s) ==
  /\ Rising(s.shapes) /\ Falling(s.redo)
  /\ \A i \in 1 .. Len(s.shapes), k \in 1 .. Len(s.redo) : s.shapes[i].id < s.redo[k].id
Grabbed(s) == s.selected # 0 => s.selected \in 1 .. Len(s.shapes) /\ s.shapes[s.selected].id = grabbed

\* nothing new, or one annotation more
Old(s) ==
  /\ s \in ShotRec /\ Ordered(s) /\ Grabbed(s)
  /\ \A i \in 1 .. Len(s.shapes) : s.shapes[i].id <= made
  /\ \A i \in 1 .. Len(s.redo) : s.redo[i].id <= made
New(s) ==
  /\ s \in ShotRec /\ Ordered(s) /\ Grabbed(s)
  /\ s.redo = <<>> /\ s.shapes # <<>> /\ s.shapes[Len(s.shapes)].id = made + 1
  /\ \A i \in 1 .. Len(s.shapes) - 1 : s.shapes[i].id <= made

\* a text is typed on a region, and a region is not drawn twice
TypesOnRegion(s) ==
  /\ s.typing.full = TRUE => s.typing.on = TRUE
  /\ s.typing.on = TRUE => s.sel = TRUE
  /\ s.sel_dragging = TRUE => s.sel = FALSE
Good(s) == (Old(s) \/ New(s)) /\ TypesOnRegion(s)

MarksInv == made \in Nat /\ grabbed \in Nat /\ Old(shot) /\ TypesOnRegion(shot)
PictureInv == handed.marks = handed.screen /\ (picture = "ours" => overlay = "spawns")
CaptureInv == MarksInv /\ PictureInv

-----------------------------------------------------------------------------
(* The fields of the editor                                                  *)

Marks(t, s) == t.shapes = s.shapes /\ t.redo = s.redo
Tells(t, s) == t.typing = s.typing /\ t.sel = s.sel /\ t.sel_dragging = s.sel_dragging
Plain(t, s) == t \in ShotRec /\ Marks(t, s) /\ Tells(t, s) /\ t.selected \in {0, s.selected}

LEMMA ShotHas ==
  ASSUME NEW s \in ShotRec
  PROVE  /\ s.shapes \in Seq(MarkRec) /\ s.redo \in Seq(MarkRec) /\ s.selected \in Nat
         /\ s.typing \in [on : BOOLEAN, full : BOOLEAN] /\ s.sel \in BOOLEAN /\ s.sel_dragging \in BOOLEAN
  BY Zenon DEF ShotRec

LEMMA PlainOld == ASSUME NEW s, NEW t, Old(s), Plain(t, s) PROVE Old(t)
  BY DEF Old, Plain, Marks, Ordered, Grabbed
LEMMA PlainNew == ASSUME NEW s, NEW t, New(s), Plain(t, s) PROVE New(t)
  BY DEF New, Plain, Marks, Ordered, Grabbed
LEMMA PlainGood == ASSUME NEW s, NEW t, Good(s), Plain(t, s) PROVE Good(t)
<1>1. TypesOnRegion(t) BY DEF Good, Plain, Tells, TypesOnRegion
<1> QED BY <1>1, PlainOld, PlainNew DEF Good

LEMMA FlyoutPlain ==
  ASSUME NEW s \in ShotRec, NEW x \in {"none", "color", "text"}
  PROVE  Plain([s EXCEPT !.flyout = x], s)
<1>1. PICK t : t = [s EXCEPT !.flyout = x] OBVIOUS
<1>2. t \in ShotRec BY <1>1 DEF ShotRec
<1>3. Marks(t, s) /\ Tells(t, s) /\ t.selected = s.selected BY <1>1, Zenon DEF ShotRec, Marks, Tells
<1> QED BY <1>1, <1>2, <1>3 DEF Plain

LEMMA UnselectedPlain ==
  ASSUME NEW s \in ShotRec
  PROVE  Plain(Unselected(s), s) /\ Unselected(s).selected = 0
<1>1. PICK t : t = Unselected(s) OBVIOUS
<1>2. t = [s EXCEPT !.selected = 0, !.move_from = FALSE] BY <1>1 DEF Unselected
<1>3. t \in ShotRec BY <1>2 DEF ShotRec
<1>4. Marks(t, s) /\ Tells(t, s) BY <1>2, Zenon DEF ShotRec, Marks, Tells
<1>5. t.selected = 0 BY <1>2 DEF ShotRec
<1> QED BY <1>1, <1>3, <1>4, <1>5 DEF Plain

LEMMA ToolPlain ==
  ASSUME NEW s \in ShotRec, NEW x \in Tools
  PROVE  /\ Plain([s EXCEPT !.tool = x, !.typing_drag = FALSE], s)
         /\ Plain([s EXCEPT !.tool = "text", !.flyout = "text"], s)
<1>1. PICK t : t = [s EXCEPT !.tool = x, !.typing_drag = FALSE] OBVIOUS
<1>2. t \in ShotRec BY <1>1 DEF ShotRec
<1>3. Marks(t, s) /\ Tells(t, s) /\ t.selected = s.selected BY <1>1, Zenon DEF ShotRec, Marks, Tells
<1>4. PICK u : u = [s EXCEPT !.tool = "text", !.flyout = "text"] OBVIOUS
<1>5. u \in ShotRec BY <1>4 DEF ShotRec, Tools
<1>6. Marks(u, s) /\ Tells(u, s) /\ u.selected = s.selected BY <1>4, Zenon DEF ShotRec, Marks, Tells
<1> QED BY <1>1, <1>2, <1>3, <1>4, <1>5, <1>6 DEF Plain

LEMMA DragPlain ==
  ASSUME NEW s \in ShotRec, NEW a \in BOOLEAN, NEW b \in BOOLEAN
  PROVE  /\ Plain([s EXCEPT !.typing_drag = a, !.move_from = b], s)
         /\ Plain([s EXCEPT !.draw_from = a], s)
         /\ Plain([s EXCEPT !.move_from = a], s)
<1>1. PICK t : t = [s EXCEPT !.typing_drag = a, !.move_from = b] OBVIOUS
<1>2. t \in ShotRec BY <1>1 DEF ShotRec
<1>3. Marks(t, s) /\ Tells(t, s) /\ t.selected = s.selected BY <1>1, Zenon DEF ShotRec, Marks, Tells
<1>4. PICK u : u = [s EXCEPT !.draw_from = a] OBVIOUS
<1>5. u \in ShotRec BY <1>4 DEF ShotRec
<1>6. Marks(u, s) /\ Tells(u, s) /\ u.selected = s.selected BY <1>4, Zenon DEF ShotRec, Marks, Tells
<1>7. PICK v : v = [s EXCEPT !.move_from = a] OBVIOUS
<1>8. v \in ShotRec BY <1>7 DEF ShotRec
<1>9. Marks(v, s) /\ Tells(v, s) /\ v.selected = s.selected BY <1>7, Zenon DEF ShotRec, Marks, Tells
<1> QED BY <1>1, <1>2, <1>3, <1>4, <1>5, <1>6, <1>7, <1>8, <1>9 DEF Plain

\* the text being typed changes or goes
LEMMA TypingIs ==
  ASSUME NEW s \in ShotRec, NEW x \in [on : BOOLEAN, full : BOOLEAN]
  PROVE  LET t == [s EXCEPT !.typing = x]
         IN  t \in ShotRec /\ Marks(t, s) /\ t.selected = s.selected /\ t.typing = x
             /\ t.sel = s.sel /\ t.sel_dragging = s.sel_dragging
<1>1. PICK t : t = [s EXCEPT !.typing = x] OBVIOUS
<1>2. t \in ShotRec BY <1>1 DEF ShotRec
<1>3. Marks(t, s) /\ t.selected = s.selected /\ t.sel = s.sel /\ t.sel_dragging = s.sel_dragging
  BY <1>1, Zenon DEF ShotRec, Marks
<1>4. t.typing = x BY <1>1 DEF ShotRec
<1> QED BY <1>1, <1>2, <1>3, <1>4

LEMMA NoTextIs == NoText \in [on : BOOLEAN, full : BOOLEAN] /\ NoText.on = FALSE /\ NoText.full = FALSE
  BY DEF NoText

-----------------------------------------------------------------------------
(* Annotations                                                               *)

LEMMA AppendIs ==
  ASSUME NEW S, NEW q \in Seq(S), NEW m \in S
  PROVE  /\ Append(q, m) \in Seq(S) /\ Len(Append(q, m)) = Len(q) + 1
         /\ \A i \in 1 .. Len(q) : Append(q, m)[i] = q[i]
         /\ Append(q, m)[Len(q) + 1] = m
  OBVIOUS

LEMMA PushIs ==
  ASSUME NEW s \in ShotRec, NEW m \in MarkRec
  PROVE  /\ Push(s, m) \in ShotRec /\ Tells(Push(s, m), s) /\ Push(s, m).selected = s.selected
         /\ Push(s, m).shapes = Append(s.shapes, m) /\ Push(s, m).redo = <<>>
<1>1. PICK q : q = Append(s.shapes, m) OBVIOUS
<1>2. q \in Seq(MarkRec) BY <1>1, ShotHas
<1>3. PICK t : t = Push(s, m) OBVIOUS
<1>4. t = [s EXCEPT !.shapes = q, !.redo = <<>>] BY <1>1, <1>3 DEF Push, ShotRec
<1>5. t \in ShotRec
  <2>1. <<>> \in Seq(MarkRec) OBVIOUS
  <2> QED BY <1>2, <1>4, <2>1, Zenon DEF ShotRec
<1>6. Tells(t, s) /\ t.selected = s.selected BY <1>4, Zenon DEF ShotRec, Tells
<1>7. t.shapes = q /\ t.redo = <<>> BY <1>4 DEF ShotRec
<1> QED BY <1>1, <1>3, <1>5, <1>6, <1>7

LEMMA PushNew ==
  ASSUME NEW s, Old(s), made \in Nat, NEW p \in Points
  PROVE  New(Push(s, Mark(p))) /\ Tells(Push(s, Mark(p)), s)
<1>1. PICK m : m = Mark(p) OBVIOUS
<1>2. m \in MarkRec /\ m.id = made + 1 BY <1>1 DEF Mark, MarkRec
<1>3. PICK t : t = Push(s, m) OBVIOUS
<1>4. /\ t \in ShotRec /\ Tells(t, s) /\ t.selected = s.selected
      /\ t.shapes = Append(s.shapes, m) /\ t.redo = <<>>
  BY <1>2, <1>3, PushIs DEF Old
<1>5. s.shapes \in Seq(MarkRec) BY ShotHas DEF Old
<1>6. PICK n \in Nat : n = Len(s.shapes) BY <1>5
<1>7. Len(t.shapes) = n + 1 /\ (\A i \in 1 .. n : t.shapes[i] = s.shapes[i]) /\ t.shapes[n + 1] = m
  BY <1>2, <1>4, <1>5, <1>6, AppendIs
<1>8. \A i \in 1 .. n : s.shapes[i].id \in Nat /\ s.shapes[i].id <= made
  <2> TAKE i \in 1 .. n
  <2>1. s.shapes[i] \in MarkRec BY <1>5, <1>6, ElementOfSeq
  <2> QED BY <1>6, <2>1 DEF Old, MarkRec
<1>9. Rising(t.shapes)
  <2>1. SUFFICES ASSUME NEW i \in 1 .. n + 1, NEW k \in 1 .. n + 1, i < k
                 PROVE  t.shapes[i].id < t.shapes[k].id
    BY <1>7 DEF Rising
  <2>2. i \in 1 .. n BY <1>6, <2>1
  <2>3. CASE k = n + 1 BY <1>2, <1>7, <1>8, <2>2, <2>3
  <2>4. CASE k # n + 1
    <3>1. k \in 1 .. n BY <1>6, <2>4
    <3>2. s.shapes[i].id < s.shapes[k].id BY <1>6, <2>1, <2>2, <3>1 DEF Old, Ordered, Rising
    <3> QED BY <1>7, <2>2, <3>1, <3>2
  <2> QED BY <2>3, <2>4
<1>10. Ordered(t) BY <1>4, <1>9 DEF Ordered, Falling
<1>11. Grabbed(t) BY <1>4, <1>6, <1>7 DEF Old, Grabbed
<1>12. t.shapes # <<>>
  <2>1. Len(t.shapes) # 0 BY <1>6, <1>7
  <2> QED BY <2>1
<1>13. t.shapes[Len(t.shapes)].id = made + 1 BY <1>2, <1>7
<1>14. \A i \in 1 .. Len(t.shapes) - 1 : t.shapes[i].id <= made BY <1>6, <1>7, <1>8
<1>15. New(t) BY <1>4, <1>10, <1>11, <1>12, <1>13, <1>14 DEF New
<1> QED BY <1>1, <1>3, <1>4, <1>15

LEMMA CommitGood ==
  ASSUME NEW s, Old(s), TypesOnRegion(s), made \in Nat, NEW p \in Points
  PROVE  /\ Good(commit_text(s, p)) /\ commit_text(s, p).typing = NoText
         /\ commit_text(s, p).shapes = IF s.typing.full THEN Append(s.shapes, Mark(p)) ELSE s.shapes
         /\ commit_text(s, p).sel = s.sel
<1>1. s \in ShotRec BY DEF Old
<1>2. PICK t : t = [s EXCEPT !.typing = NoText] OBVIOUS
<1>3. /\ t \in ShotRec /\ Marks(t, s) /\ t.selected = s.selected /\ t.typing = NoText
      /\ t.sel = s.sel /\ t.sel_dragging = s.sel_dragging
  BY <1>1, <1>2, NoTextIs, TypingIs
<1>4. Old(t) BY <1>3 DEF Old, Marks, Ordered, Grabbed
<1>5. TypesOnRegion(t) BY <1>3, NoTextIs DEF TypesOnRegion
<1>6. PICK c : c = commit_text(s, p) OBVIOUS
<1>7. CASE s.typing.full
  <2>1. c = Push(t, Mark(p)) BY <1>2, <1>6, <1>7 DEF commit_text
  <2>2. New(c) /\ Tells(c, t) BY <1>4, <2>1, PushNew
  <2>3. c.shapes = Append(s.shapes, Mark(p))
    <3>1. Mark(p) \in MarkRec BY DEF Mark, MarkRec
    <3> QED BY <1>3, <2>1, <3>1, PushIs DEF Marks
  <2>4. TypesOnRegion(c) BY <1>5, <2>2 DEF Tells, TypesOnRegion
  <2> QED BY <1>3, <1>6, <1>7, <2>2, <2>3, <2>4 DEF Good, Tells
<1>8. CASE ~s.typing.full
  <2>1. c = t BY <1>2, <1>6, <1>8 DEF commit_text
  <2> QED BY <1>3, <1>4, <1>5, <1>6, <1>8, <2>1 DEF Good, Marks
<1> QED BY <1>7, <1>8

LEMMA FinishShapeGood ==
  ASSUME NEW s, Old(s), TypesOnRegion(s), made \in Nat, NEW p \in Points, NEW far \in BOOLEAN
  PROVE  Good(finish_shape(s, p, far))
<1>1. CASE finish_shape(s, p, far) = s BY <1>1 DEF Good
<1>2. CASE finish_shape(s, p, far) = Push(s, Mark(p))
  <2>1. New(Push(s, Mark(p))) /\ Tells(Push(s, Mark(p)), s) BY PushNew
  <2> QED BY <1>2, <2>1 DEF Good, Tells, TypesOnRegion
<1>3. finish_shape(s, p, far) = s \/ finish_shape(s, p, far) = Push(s, Mark(p)) BY DEF finish_shape
<1> QED BY <1>1, <1>2, <1>3

\* a step that takes marks away, or moves them between the two lists, and selects nothing
LEMMA RearrangedOld ==
  ASSUME NEW s, Old(s), TypesOnRegion(s), NEW t \in ShotRec, Tells(t, s), Ordered(t),
         \A i \in 1 .. Len(t.shapes) : t.shapes[i].id <= made,
         \A i \in 1 .. Len(t.redo) : t.redo[i].id <= made
  PROVE  Good(Unselected(t))
<1>1. PICK u : u = Unselected(t) OBVIOUS
<1>2. u \in ShotRec /\ Marks(u, t) /\ Tells(u, t) /\ u.selected = 0 BY <1>1, UnselectedPlain DEF Plain
<1>3. Old(u) BY <1>2 DEF Old, Marks, Ordered, Grabbed
<1>4. TypesOnRegion(u) BY <1>2 DEF Tells, TypesOnRegion
<1> QED BY <1>1, <1>3, <1>4 DEF Good

LEMMA UndoGood == ASSUME NEW s, Old(s), TypesOnRegion(s), made \in Nat PROVE Good(Undo(s))
<1>1. s \in ShotRec BY DEF Old
<1>2. CASE s.shapes = <<>>
  <2>1. Undo(s) = Unselected(s) BY <1>2 DEF Undo
  <2> QED BY <1>1, <2>1, RearrangedOld DEF Old, Tells
<1>3. CASE s.shapes # <<>>
  <2>1. s.shapes \in Seq(MarkRec) /\ s.redo \in Seq(MarkRec) BY <1>1, ShotHas
  <2>2. PICK n \in Nat, r \in Nat : n = Len(s.shapes) - 1 /\ r = Len(s.redo)
    <3>1. Len(s.shapes) \in Nat \ {0} BY <1>3, <2>1, EmptySeq
    <3>2. Len(s.shapes) - 1 \in Nat /\ Len(s.redo) \in Nat BY <2>1, <3>1
    <3> QED BY <3>2
  <2>3. PICK f : f = Front(s.shapes) OBVIOUS
  <2>4. f \in Seq(MarkRec) /\ Len(f) = n /\ \A i \in 1 .. n : f[i] = s.shapes[i]
    BY <1>3, <2>1, <2>2, <2>3, FrontIs
  <2>5. PICK m : m = Last(s.shapes) OBVIOUS
  <2>6. m = s.shapes[n + 1] /\ m \in MarkRec
    <3>1. Len(s.shapes) = n + 1 /\ n + 1 \in 1 .. Len(s.shapes) BY <2>1, <2>2
    <3> QED BY <2>1, <2>5, <3>1, ElementOfSeq DEF Last
  <2>7. PICK q : q = Append(s.redo, m) OBVIOUS
  <2>8. /\ q \in Seq(MarkRec) /\ Len(q) = r + 1 /\ (\A i \in 1 .. r : q[i] = s.redo[i]) /\ q[r + 1] = m
    BY <2>1, <2>2, <2>6, <2>7, AppendIs
  <2>9. PICK t : t = [s EXCEPT !.shapes = f, !.redo = q] OBVIOUS
  <2>10. t \in ShotRec BY <1>1, <2>4, <2>8, <2>9 DEF ShotRec
  <2>11. Tells(t, s) BY <1>1, <2>9, Zenon DEF ShotRec, Tells
  <2>12. t.shapes = f /\ t.redo = q BY <1>1, <2>9 DEF ShotRec
  <2>13. Undo(s) = Unselected(t) BY <1>1, <1>3, <2>3, <2>5, <2>7, <2>9 DEF Undo, ShotRec
  <2>14. \A i \in 1 .. n : s.shapes[i].id < m.id
    <3> TAKE i \in 1 .. n
    <3>1. i \in 1 .. Len(s.shapes) /\ n + 1 \in 1 .. Len(s.shapes) /\ i < n + 1 BY <2>1, <2>2
    <3> QED BY <2>6, <3>1 DEF Old, Ordered, Rising
  <2>15. m.id <= made /\ m.id \in Nat
    <3>1. n + 1 \in 1 .. Len(s.shapes) BY <2>1, <2>2
    <3> QED BY <2>6, <3>1 DEF Old, MarkRec
  <2>16. \A i \in 1 .. r : m.id < s.redo[i].id
    <3>1. n + 1 \in 1 .. Len(s.shapes) BY <2>1, <2>2
    <3> QED BY <2>2, <2>6, <3>1 DEF Old, Ordered
  <2>17. Rising(f)
    <3>1. \A i \in 1 .. n : i \in 1 .. Len(s.shapes) BY <2>1, <2>2
    <3> QED BY <2>4, <3>1 DEF Old, Ordered, Rising
  <2>18. Falling(q)
    <3>1. SUFFICES ASSUME NEW i \in 1 .. r + 1, NEW k \in 1 .. r + 1, i < k PROVE q[i].id > q[k].id
      BY <2>8 DEF Falling
    <3>2. i \in 1 .. r BY <3>1
    <3>3. CASE k = r + 1
      <4>1. m.id < s.redo[i].id /\ s.redo[i] \in MarkRec BY <2>1, <2>2, <2>16, <3>2, ElementOfSeq
      <4> QED BY <2>8, <2>15, <3>2, <3>3, <4>1 DEF MarkRec
    <3>4. CASE k # r + 1
      <4>1. k \in 1 .. r BY <3>4
      <4> QED BY <2>2, <2>8, <3>1, <3>2, <4>1 DEF Old, Ordered, Falling
    <3> QED BY <3>3, <3>4
  <2>19. \A i \in 1 .. n, k \in 1 .. r + 1 : f[i].id < q[k].id
    <3> TAKE i \in 1 .. n, k \in 1 .. r + 1
    <3>1. CASE k = r + 1 BY <2>4, <2>8, <2>14, <3>1
    <3>2. CASE k # r + 1
      <4>1. k \in 1 .. r /\ i \in 1 .. Len(s.shapes) BY <2>1, <2>2, <3>2
      <4> QED BY <2>2, <2>4, <2>8, <4>1 DEF Old, Ordered
    <3> QED BY <3>1, <3>2
  <2>20. Ordered(t) BY <2>4, <2>8, <2>12, <2>17, <2>18, <2>19 DEF Ordered
  <2>21. \A i \in 1 .. Len(t.shapes) : t.shapes[i].id <= made
    <3>1. \A i \in 1 .. n : i \in 1 .. Len(s.shapes) BY <2>1, <2>2
    <3> QED BY <2>4, <2>12, <3>1 DEF Old
  <2>22. \A i \in 1 .. Len(t.redo) : t.redo[i].id <= made
    <3> SUFFICES ASSUME NEW i \in 1 .. r + 1 PROVE q[i].id <= made BY <2>8, <2>12
    <3>1. CASE i = r + 1 BY <2>8, <2>15, <3>1
    <3>2. CASE i # r + 1
      <4>1. i \in 1 .. r BY <3>2
      <4> QED BY <2>2, <2>8, <4>1 DEF Old
    <3> QED BY <3>1, <3>2
  <2> QED BY <2>10, <2>11, <2>13, <2>20, <2>21, <2>22, RearrangedOld
<1> QED BY <1>2, <1>3

LEMMA RedoGood == ASSUME NEW s, Old(s), TypesOnRegion(s), made \in Nat PROVE Good(Redo(s))
<1>1. s \in ShotRec BY DEF Old
<1>2. CASE s.redo = <<>>
  <2>1. Redo(s) = Unselected(s) BY <1>2 DEF Redo
  <2> QED BY <1>1, <2>1, RearrangedOld DEF Old, Tells
<1>3. CASE s.redo # <<>>
  <2>1. s.shapes \in Seq(MarkRec) /\ s.redo \in Seq(MarkRec) BY <1>1, ShotHas
  <2>2. PICK n \in Nat, r \in Nat : n = Len(s.shapes) /\ r = Len(s.redo) - 1
    <3>1. Len(s.redo) \in Nat \ {0} BY <1>3, <2>1, EmptySeq
    <3>2. Len(s.redo) - 1 \in Nat /\ Len(s.shapes) \in Nat BY <2>1, <3>1
    <3> QED BY <3>2
  <2>3. PICK f : f = Front(s.redo) OBVIOUS
  <2>4. f \in Seq(MarkRec) /\ Len(f) = r /\ \A i \in 1 .. r : f[i] = s.redo[i]
    BY <1>3, <2>1, <2>2, <2>3, FrontIs
  <2>5. PICK m : m = Last(s.redo) OBVIOUS
  <2>6. m = s.redo[r + 1] /\ m \in MarkRec
    <3>1. Len(s.redo) = r + 1 /\ r + 1 \in 1 .. Len(s.redo) BY <2>1, <2>2
    <3> QED BY <2>1, <2>5, <3>1, ElementOfSeq DEF Last
  <2>7. PICK q : q = Append(s.shapes, m) OBVIOUS
  <2>8. /\ q \in Seq(MarkRec) /\ Len(q) = n + 1 /\ (\A i \in 1 .. n : q[i] = s.shapes[i]) /\ q[n + 1] = m
    BY <2>1, <2>2, <2>6, <2>7, AppendIs
  <2>9. PICK t : t = [s EXCEPT !.redo = f, !.shapes = q] OBVIOUS
  <2>10. t \in ShotRec BY <1>1, <2>4, <2>8, <2>9 DEF ShotRec
  <2>11. Tells(t, s) BY <1>1, <2>9, Zenon DEF ShotRec, Tells
  <2>12. t.shapes = q /\ t.redo = f BY <1>1, <2>9 DEF ShotRec
  <2>13. Redo(s) = Unselected(t) BY <1>1, <1>3, <2>3, <2>5, <2>7, <2>9 DEF Redo, ShotRec
  <2>14. \A i \in 1 .. r : s.redo[i].id > m.id
    <3> TAKE i \in 1 .. r
    <3>1. i \in 1 .. Len(s.redo) /\ r + 1 \in 1 .. Len(s.redo) /\ i < r + 1 BY <2>1, <2>2
    <3> QED BY <2>6, <3>1 DEF Old, Ordered, Falling
  <2>15. m.id <= made /\ m.id \in Nat
    <3>1. r + 1 \in 1 .. Len(s.redo) BY <2>1, <2>2
    <3> QED BY <2>6, <3>1 DEF Old, MarkRec
  <2>16. \A i \in 1 .. n : s.shapes[i].id < m.id
    <3>1. r + 1 \in 1 .. Len(s.redo) BY <2>1, <2>2
    <3> QED BY <2>2, <2>6, <3>1 DEF Old, Ordered
  <2>17. Falling(f)
    <3>1. \A i \in 1 .. r : i \in 1 .. Len(s.redo) BY <2>1, <2>2
    <3> QED BY <2>4, <3>1 DEF Old, Ordered, Falling
  <2>18. Rising(q)
    <3>1. SUFFICES ASSUME NEW i \in 1 .. n + 1, NEW k \in 1 .. n + 1, i < k PROVE q[i].id < q[k].id
      BY <2>8 DEF Rising
    <3>2. i \in 1 .. n BY <3>1
    <3>3. CASE k = n + 1 BY <2>8, <2>16, <3>2, <3>3
    <3>4. CASE k # n + 1
      <4>1. k \in 1 .. n BY <3>4
      <4> QED BY <2>2, <2>8, <3>1, <3>2, <4>1 DEF Old, Ordered, Rising
    <3> QED BY <3>3, <3>4
  <2>19. \A i \in 1 .. n + 1, k \in 1 .. r : q[i].id < f[k].id
    <3> TAKE i \in 1 .. n + 1, k \in 1 .. r
    <3>1. CASE i = n + 1
      <4>1. s.redo[k].id > m.id /\ s.redo[k] \in MarkRec
        <5>1. k \in 1 .. Len(s.redo) BY <2>1, <2>2
        <5> QED BY <2>1, <2>14, <5>1, ElementOfSeq
      <4> QED BY <2>4, <2>8, <2>15, <3>1, <4>1 DEF MarkRec
    <3>2. CASE i # n + 1
      <4>1. i \in 1 .. n /\ k \in 1 .. Len(s.redo) BY <2>1, <2>2, <3>2
      <4> QED BY <2>2, <2>4, <2>8, <4>1 DEF Old, Ordered
    <3> QED BY <3>1, <3>2
  <2>20. Ordered(t) BY <2>4, <2>8, <2>12, <2>17, <2>18, <2>19 DEF Ordered
  <2>21. \A i \in 1 .. Len(t.redo) : t.redo[i].id <= made
    <3>1. \A i \in 1 .. r : i \in 1 .. Len(s.redo) BY <2>1, <2>2
    <3> QED BY <2>4, <2>12, <3>1 DEF Old
  <2>22. \A i \in 1 .. Len(t.shapes) : t.shapes[i].id <= made
    <3> SUFFICES ASSUME NEW i \in 1 .. n + 1 PROVE q[i].id <= made BY <2>8, <2>12
    <3>1. CASE i = n + 1 BY <2>8, <2>15, <3>1
    <3>2. CASE i # n + 1
      <4>1. i \in 1 .. n BY <3>2
      <4> QED BY <2>2, <2>8, <4>1 DEF Old
    <3> QED BY <3>1, <3>2
  <2> QED BY <2>10, <2>11, <2>13, <2>20, <2>21, <2>22, RearrangedOld
<1> QED BY <1>2, <1>3

LEMMA DeleteGood == ASSUME NEW s, Old(s), TypesOnRegion(s), made \in Nat PROVE Good(Delete(s))
<1>1. s \in ShotRec /\ s.shapes \in Seq(MarkRec) BY ShotHas DEF Old
<1>2. CASE s.selected \notin DOMAIN s.shapes
  <2>1. Delete(s) = Unselected(s) BY <1>2 DEF Delete
  <2> QED BY <1>1, <2>1, RearrangedOld DEF Old, Tells
<1>3. CASE s.selected \in DOMAIN s.shapes
  <2>1. PICK n \in Nat : n = Len(s.shapes) BY <1>1
  <2>2. PICK d \in 1 .. n : d = s.selected BY <1>1, <1>3, <2>1
  <2>3. PICK f : f = RemoveAt(s.shapes, d) OBVIOUS
  <2>4. /\ f \in Seq(MarkRec) /\ Len(f) = n - 1
        /\ \A k \in 1 .. n - 1 : f[k] = IF k < d THEN s.shapes[k] ELSE s.shapes[k + 1]
    BY <1>1, <2>1, <2>2, <2>3, RemoveAtIs
  <2>5. PICK t : t = [s EXCEPT !.shapes = f, !.redo = <<>>] OBVIOUS
  <2>6. t \in ShotRec
    <3>1. <<>> \in Seq(MarkRec) OBVIOUS
    <3> QED BY <1>1, <2>4, <2>5, <3>1, Zenon DEF ShotRec
  <2>7. Tells(t, s) BY <1>1, <2>5, Zenon DEF ShotRec, Tells
  <2>8. t.shapes = f /\ t.redo = <<>> BY <1>1, <2>5 DEF ShotRec
  <2>9. Delete(s) = Unselected(t) BY <1>1, <1>3, <2>2, <2>3, <2>5 DEF Delete, ShotRec
  <2>10. \A k \in 1 .. n - 1 : \E j \in 1 .. n : f[k] = s.shapes[j] /\ j = IF k < d THEN k ELSE k + 1
    BY <2>1, <2>4
  <2>11. Rising(f)
    <3>1. SUFFICES ASSUME NEW i \in 1 .. n - 1, NEW k \in 1 .. n - 1, i < k PROVE f[i].id < f[k].id
      BY <2>4 DEF Rising
    <3>2. PICK a \in 1 .. n : f[i] = s.shapes[a] /\ a = IF i < d THEN i ELSE i + 1 BY <2>10
    <3>3. PICK b \in 1 .. n : f[k] = s.shapes[b] /\ b = IF k < d THEN k ELSE k + 1 BY <2>10
    <3>4. a < b BY <3>1, <3>2, <3>3
    <3> QED BY <2>1, <3>2, <3>3, <3>4 DEF Old, Ordered, Rising
  <2>12. Ordered(t) BY <2>8, <2>11 DEF Ordered, Falling
  <2>13. \A i \in 1 .. Len(t.shapes) : t.shapes[i].id <= made BY <2>1, <2>4, <2>8, <2>10 DEF Old
  <2>14. \A i \in 1 .. Len(t.redo) : t.redo[i].id <= made BY <2>8
  <2> QED BY <2>6, <2>7, <2>9, <2>12, <2>13, <2>14, RearrangedOld
<1> QED BY <1>2, <1>3

(* A drag takes the annotation that is grabbed along, by its index. *)
LEMMA DraggedGood ==
  ASSUME NEW s, Old(s), TypesOnRegion(s), s.selected \in DOMAIN s.shapes, NEW p \in Points
  PROVE  Good([s EXCEPT !.shapes[s.selected].at = p])
<1>1. s \in ShotRec /\ s.shapes \in Seq(MarkRec) BY ShotHas DEF Old
<1>2. PICK n \in Nat : n = Len(s.shapes) BY <1>1
<1>3. PICK d \in 1 .. n : d = s.selected BY <1>1, <1>2
<1>4. s.shapes[d] \in MarkRec BY <1>1, <1>2, ElementOfSeq
<1>5. PICK m : m = [s.shapes[d] EXCEPT !.at = p] OBVIOUS
<1>6. m \in MarkRec /\ m.id = s.shapes[d].id BY <1>4, <1>5 DEF MarkRec
<1>7. PICK f : f = [s.shapes EXCEPT ![d] = m] OBVIOUS
<1>8. f \in Seq(MarkRec) /\ Len(f) = n /\ \A i \in 1 .. n : f[i].id = s.shapes[i].id
  <2>1. f \in Seq(MarkRec) /\ Len(f) = n BY <1>1, <1>2, <1>3, <1>6, <1>7, ExceptSeq
  <2>2. \A i \in 1 .. n : f[i] = IF i = d THEN m ELSE s.shapes[i] BY <1>1, <1>2, <1>7
  <2> QED BY <1>6, <2>1, <2>2
<1>9. PICK t : t = [s EXCEPT !.shapes = f] OBVIOUS
<1>10. t \in ShotRec BY <1>1, <1>8, <1>9 DEF ShotRec
<1>11. Tells(t, s) /\ t.redo = s.redo /\ t.selected = s.selected BY <1>1, <1>9, Zenon DEF ShotRec, Tells
<1>12. t.shapes = f BY <1>1, <1>9 DEF ShotRec
<1>13. Old(t) BY <1>2, <1>8, <1>10, <1>11, <1>12 DEF Old, Ordered, Rising, Grabbed
<1>14. TypesOnRegion(t) BY <1>11 DEF Tells, TypesOnRegion
<1>15. t = [s EXCEPT !.shapes[s.selected].at = p] BY <1>3, <1>5, <1>7, <1>9
<1> QED BY <1>13, <1>14, <1>15 DEF Good

LEMMA ToolGood ==
  ASSUME NEW s, Old(s), TypesOnRegion(s), made \in Nat, NEW p \in Points, NEW t \in Tools
  PROVE  Good(ToolKey(s, t, p)) /\ Good(ToolButton(s, t, p))
<1>1. PICK c : c = commit_text(s, p) OBVIOUS
<1>2. Good(c) BY <1>1, CommitGood
<1>3. PICK u : u = Unselected(c) OBVIOUS
<1>4. Good(u) /\ u \in ShotRec
  <2>1. c \in ShotRec BY <1>2 DEF Good, Old, New
  <2>2. Plain(u, c) BY <1>3, <2>1, UnselectedPlain
  <2>3. Good(u) BY <1>2, <2>2, PlainGood
  <2> QED BY <2>2, <2>3 DEF Plain
<1>5. PICK k : k = ToolKey(s, t, p) OBVIOUS
<1>6. k = [u EXCEPT !.tool = t, !.typing_drag = FALSE] BY <1>1, <1>3, <1>5 DEF ToolKey
<1>7. Good(k) /\ k \in ShotRec BY <1>4, <1>6, ToolPlain, PlainGood DEF Plain
<1>8. Good([k EXCEPT !.flyout = "none"]) BY <1>7, FlyoutPlain, PlainGood
<1>9. Good([u EXCEPT !.tool = "text", !.flyout = "text"]) BY <1>4, ToolPlain, PlainGood
<1>10. s \in ShotRec /\ Good(s) BY DEF Old, Good
<1>11. Good([s EXCEPT !.flyout = "none"]) /\ Good([s EXCEPT !.flyout = "text"])
  BY <1>10, FlyoutPlain, PlainGood
<1>12. CASE t = "text" /\ s.tool = "text"
  <2>1. ToolButton(s, t, p) = [s EXCEPT !.flyout = "none"] \/ ToolButton(s, t, p) = [s EXCEPT !.flyout = "text"]
    BY <1>12 DEF ToolButton
  <2> QED BY <1>5, <1>7, <1>11, <2>1
<1>13. CASE t = "text" /\ s.tool # "text"
  <2>1. ToolButton(s, t, p) = [u EXCEPT !.tool = "text", !.flyout = "text"]
    BY <1>1, <1>3, <1>13 DEF ToolButton
  <2> QED BY <1>5, <1>7, <1>9, <2>1
<1>14. CASE t # "text"
  <2>1. ToolButton(s, t, p) = [k EXCEPT !.flyout = "none"] BY <1>5, <1>14 DEF ToolButton
  <2> QED BY <1>5, <1>7, <1>8, <2>1
<1> QED BY <1>12, <1>13, <1>14

-----------------------------------------------------------------------------
(* Finishing a step                                                          *)

LEMMA FinishKeeps == ASSUME CaptureInv, NEW s, Good(s), Finish(s) PROVE MarksInv'
<1>1. made \in Nat /\ grabbed \in Nat BY DEF CaptureInv, MarksInv
<1>2. shot' = s /\ (grabbed' = IF s.selected = 0 THEN 0 ELSE grabbed) BY DEF Finish
<1>3. grabbed' \in Nat BY <1>1, <1>2
<1>4. s \in ShotRec /\ s.shapes \in Seq(MarkRec) BY ShotHas DEF Good, Old, New
<1>5. PICK n \in Nat : n = Len(s.shapes) BY <1>4
<1>6. \A i \in 1 .. n : s.shapes[i].id \in Nat
  <2> TAKE i \in 1 .. n
  <2>1. s.shapes[i] \in MarkRec BY <1>4, <1>5, ElementOfSeq
  <2> QED BY <2>1 DEF MarkRec
<1>7. CASE Old(s)
  <2>1. made' = made
    <3>1. CASE s.shapes = <<>> BY <3>1 DEF Finish, Made
    <3>2. CASE s.shapes # <<>>
      <4>1. n \in 1 .. n BY <1>4, <1>5, <3>2, EmptySeq
      <4>2. s.shapes[n].id <= made /\ s.shapes[n].id \in Nat BY <1>5, <1>6, <1>7, <4>1 DEF Old
      <4>3. ~(Last(s.shapes).id > made) BY <1>1, <1>5, <4>2 DEF Last
      <4> QED BY <4>3 DEF Finish, Made
    <3> QED BY <3>1, <3>2
  <2>2. Grabbed(s)' BY <1>2, <1>7 DEF Old, Grabbed
  <2>3. Old(s)' BY <1>7, <2>1, <2>2 DEF Old
  <2> QED BY <1>1, <1>2, <1>3, <2>1, <2>3 DEF MarksInv, Good, Old, Grabbed
<1>8. CASE New(s)
  <2>1. Last(s.shapes).id = made + 1 BY <1>8 DEF New, Last
  <2>2. made' = made + 1
    <3>1. Last(s.shapes).id > made BY <1>1, <2>1
    <3> QED BY <1>8, <2>1, <3>1 DEF Finish, Made, New
  <2>3. \A i \in 1 .. n : s.shapes[i].id <= made + 1
    <3> TAKE i \in 1 .. n
    <3>1. CASE i = n BY <1>1, <1>5, <1>8, <3>1 DEF New
    <3>2. CASE i # n
      <4>1. i \in 1 .. Len(s.shapes) - 1 BY <1>5, <3>2
      <4>2. s.shapes[i].id <= made /\ s.shapes[i].id \in Nat BY <1>6, <1>8, <4>1 DEF New
      <4> QED BY <1>1, <4>2
    <3> QED BY <3>1, <3>2
  <2>4. Grabbed(s)' BY <1>2, <1>8 DEF New, Grabbed
  <2>5. Old(s)' BY <1>5, <1>8, <2>2, <2>3, <2>4 DEF Old, New
  <2> QED BY <1>1, <1>2, <1>3, <2>2, <2>5 DEF MarksInv, Good, Old, Grabbed
<1> QED BY <1>7, <1>8 DEF Good

LEMMA EditKeeps == ASSUME CaptureInv, overlay = "open", NEW s, Good(s), Edit(s) PROVE CaptureInv'
<1>1. MarksInv' BY FinishKeeps DEF Edit
<1>2. PictureInv' BY DEF CaptureInv, PictureInv, Edit, HandsNothing, StaysOpen
<1> QED BY <1>1, <1>2 DEF CaptureInv

LEMMA IdsAppend ==
  ASSUME NEW q \in Seq(MarkRec), NEW m \in MarkRec
  PROVE  Ids(Append(q, m)) = Ids(q) \cup {m.id}
<1>1. PICK r : r = Append(q, m) OBVIOUS
<1>2. PICK n \in Nat : n = Len(q) OBVIOUS
<1>3. DOMAIN q = 1 .. n /\ DOMAIN r = 1 .. n + 1 BY <1>1, <1>2
<1>4. (\A i \in 1 .. n : r[i] = q[i]) /\ r[n + 1] = m BY <1>1, <1>2, AppendIs
<1>5. Ids(q) = {q[i].id : i \in 1 .. n} BY <1>3 DEF Ids, ToSet
<1>6. Ids(r) = {r[i].id : i \in 1 .. n + 1} BY <1>3 DEF Ids, ToSet
<1>7. 1 .. n + 1 = (1 .. n) \cup {n + 1} BY <1>2
<1>8. {r[i].id : i \in 1 .. n + 1} = {q[i].id : i \in 1 .. n} \cup {m.id} BY <1>4, <1>7
<1> QED BY <1>1, <1>5, <1>6, <1>8

\* a commit has the text on the screen among its annotations
LEMMA CommitShows ==
  ASSUME CaptureInv, NEW s, Old(s), TypesOnRegion(s), s.shapes = shot.shapes, s.typing = shot.typing,
         NEW p \in Points
  PROVE  Ids(commit_text(s, p).shapes) = OnScreen(shot)
<1>1. made \in Nat /\ s.shapes \in Seq(MarkRec) BY ShotHas DEF CaptureInv, MarksInv, Old
<1>2. commit_text(s, p).shapes = IF s.typing.full THEN Append(s.shapes, Mark(p)) ELSE s.shapes
  BY <1>1, CommitGood
<1>3. Mark(p) \in MarkRec /\ Mark(p).id = made + 1 BY <1>1 DEF Mark, MarkRec
<1>4. Ids(Append(s.shapes, Mark(p))) = Ids(s.shapes) \cup {made + 1} BY <1>1, <1>3, IdsAppend
<1> QED BY <1>2, <1>4 DEF OnScreen

LEMMA NothingTyped ==
  ASSUME CaptureInv, shot.typing.on # TRUE
  PROVE  Ids(shot.shapes) = OnScreen(shot)
<1>1. shot.typing.full \in BOOLEAN /\ shot.typing.full # TRUE
  BY ShotHas DEF CaptureInv, MarksInv, Old, TypesOnRegion
<1> QED BY <1>1 DEF OnScreen

\* the ways to hand a picture out
LEMMA HandedKeeps ==
  ASSUME CaptureInv, overlay = "open", NEW s, Good(s), Finish(s), Ids(s.shapes) = OnScreen(shot),
         \/ finish_copy(s) \/ finish_save(s) \/ compose_and_spawn(s)
  PROVE  CaptureInv'
<1>1. MarksInv' BY FinishKeeps
<1>2. picture # "ours" BY DEF CaptureInv, PictureInv
<1>3. HandsOut(s) => handed'.marks = handed'.screen BY DEF HandsOut
<1>4. HandsNothing => handed'.marks = handed'.screen BY DEF HandsNothing, CaptureInv, PictureInv
<1>5. handed'.marks = handed'.screen
  BY <1>3, <1>4 DEF finish_copy, finish_save, compose_and_spawn
<1>6. picture' = "ours" => overlay' = "spawns"
  BY <1>2 DEF finish_copy, finish_save, compose_and_spawn, OverlayCloses, StaysOpen
<1> QED BY <1>1, <1>5, <1>6 DEF CaptureInv, PictureInv

LEMMA ClosedKeeps ==
  ASSUME CaptureInv, overlay = "open", NEW s, Good(s), Finish(s), HandsNothing, OverlayCloses
  PROVE  CaptureInv'
<1>1. MarksInv' BY FinishKeeps
<1>2. PictureInv' BY DEF CaptureInv, PictureInv, HandsNothing, OverlayCloses
<1> QED BY <1>1, <1>2 DEF CaptureInv

\* the editor rests
LEMMA RestsKeeps ==
  ASSUME CaptureInv, UNCHANGED <<shot, made, grabbed, handed>>, picture' = "ours" => overlay' = "spawns"
  PROVE  CaptureInv'
<1>1. Old(shot)' BY DEF CaptureInv, MarksInv, Old, Grabbed
<1>2. TypesOnRegion(shot)' BY DEF CaptureInv, MarksInv, TypesOnRegion
<1> QED BY <1>1, <1>2 DEF CaptureInv, MarksInv, PictureInv

-----------------------------------------------------------------------------
(* The steps of the capture                                                  *)

LEMMA ShotGood ==
  ASSUME CaptureInv
  PROVE  shot \in ShotRec /\ Old(shot) /\ TypesOnRegion(shot) /\ Good(shot) /\ made \in Nat
  BY DEF CaptureInv, MarksInv, Old, Good

LEMMA BesidePanelGood ==
  ASSUME CaptureInv
  PROVE  /\ BesidePanel \in ShotRec /\ Old(BesidePanel) /\ TypesOnRegion(BesidePanel) /\ Good(BesidePanel)
         /\ Plain(BesidePanel, shot)
<1>1. PICK b : b = BesidePanel OBVIOUS
<1>2. Plain(b, shot) BY <1>1, ShotGood, FlyoutPlain DEF BesidePanel
<1>3. Old(b) BY <1>2, ShotGood, PlainOld
<1>4. TypesOnRegion(b) BY <1>2, ShotGood DEF Plain, Tells, TypesOnRegion
<1> QED BY <1>1, <1>2, <1>3, <1>4 DEF Good, Old

LEMMA StartRegionKeeps == ASSUME CaptureInv, StartRegion PROVE CaptureInv'
<1>1. overlay = "open" /\ ~shot.sel BY DEF StartRegion
<1>2. PICK t : t = [shot EXCEPT !.sel_dragging = TRUE] OBVIOUS
<1>3. shot \in ShotRec /\ shot.sel = FALSE BY <1>1, ShotGood DEF ShotRec
<1>4. t \in ShotRec BY <1>2, <1>3 DEF ShotRec
<1>5. Marks(t, shot) /\ t.selected = shot.selected /\ t.typing = shot.typing /\ t.sel = shot.sel
  BY <1>2, <1>3, Zenon DEF ShotRec, Marks
<1>6. Old(t) BY <1>4, <1>5, ShotGood DEF Old, Marks, Ordered, Grabbed
<1>7. TypesOnRegion(t) BY <1>3, <1>5, ShotGood DEF TypesOnRegion
<1>8. Good(t) BY <1>6, <1>7 DEF Good
<1>9. Edit(shot) \/ Edit(t) BY <1>2 DEF StartRegion
<1> QED BY <1>1, <1>8, <1>9, ShotGood, EditKeeps

LEMMA ClickPanelKeeps == ASSUME CaptureInv, ClickPanel PROVE CaptureInv'
<1>1. Edit([shot EXCEPT !.flyout = "none"]) \/ Edit(shot) BY DEF ClickPanel
<1>2. Good(shot) /\ Good([shot EXCEPT !.flyout = "none"]) BY ShotGood, FlyoutPlain, PlainGood
<1> QED BY <1>1, <1>2, EditKeeps DEF ClickPanel

LEMMA GrabKeeps == ASSUME CaptureInv, overlay = "open", NEW p \in Points, Grab(p) PROVE CaptureInv'
<1>1. PICK s : s = BesidePanel OBVIOUS
<1>2. s \in ShotRec /\ Old(s) /\ TypesOnRegion(s) BY <1>1, BesidePanelGood
<1>3. PICK hit : hit = hit_shape(s, p) OBVIOUS
<1>4. s.shapes \in Seq(MarkRec) BY <1>2, ShotHas
<1>5. hit \in {0} \cup (1 .. Len(s.shapes)) BY <1>3, <1>4, HitIs
<1>6. hit \in Nat BY <1>4, <1>5
<1>7. PICK t : t = [s EXCEPT !.selected = hit, !.move_from = (hit # 0)] OBVIOUS
<1>8. shot' = t /\ grabbed' = (IF hit = 0 THEN 0 ELSE s.shapes[hit].id) /\ made' = made
  BY <1>1, <1>3, <1>7 DEF Grab
<1>9. t \in ShotRec
  <2>1. (hit # 0) \in BOOLEAN OBVIOUS
  <2> QED BY <1>2, <1>6, <1>7, <2>1 DEF ShotRec
<1>10. Marks(t, s) /\ Tells(t, s) BY <1>2, <1>7, Zenon DEF ShotRec, Marks, Tells
<1>11. t.selected = hit BY <1>2, <1>7 DEF ShotRec
<1>12. grabbed' \in Nat
  <2>1. CASE hit = 0 BY <1>8, <2>1
  <2>2. CASE hit # 0
    <3>1. s.shapes[hit] \in MarkRec BY <1>4, <1>5, <2>2, ElementOfSeq
    <3> QED BY <1>8, <2>2, <3>1 DEF MarkRec
  <2> QED BY <2>1, <2>2
<1>13. Old(shot)'
  <2>1. t.selected # 0 => t.selected \in 1 .. Len(t.shapes) /\ t.shapes[t.selected].id = grabbed'
    BY <1>5, <1>8, <1>10, <1>11 DEF Marks
  <2>2. Grabbed(shot)' BY <1>8, <2>1 DEF Grabbed
  <2> QED BY <1>2, <1>8, <1>9, <1>10, <2>2 DEF Old, Marks, Ordered
<1>14. TypesOnRegion(shot)' BY <1>2, <1>8, <1>10 DEF Tells, TypesOnRegion
<1>15. PictureInv' BY DEF Grab, HandsNothing, StaysOpen, CaptureInv, PictureInv
<1> QED BY <1>8, <1>12, <1>13, <1>14, <1>15 DEF CaptureInv, MarksInv

LEMMA PressKeeps == ASSUME CaptureInv, NEW p \in Points, NEW ctrl \in BOOLEAN, Press(p, ctrl) PROVE CaptureInv'
<1>1. PICK s : s = BesidePanel OBVIOUS
<1>2. s \in ShotRec /\ Old(s) /\ TypesOnRegion(s) /\ Good(s) /\ made \in Nat
  BY <1>1, BesidePanelGood, ShotGood
<1>3. overlay = "open" /\ s.sel BY <1>1 DEF Press
<1>4. CASE Edit([s EXCEPT !.typing_drag = TRUE, !.move_from = TRUE])
  BY <1>2, <1>3, <1>4, DragPlain, PlainGood, EditKeeps
<1>5. CASE Grab(p) BY <1>3, <1>5, GrabKeeps
<1>6. CASE Edit(s) BY <1>2, <1>3, <1>6, EditKeeps
<1>7. CASE \E q \in Points : Edit(commit_text(s, q)) BY <1>2, <1>3, <1>7, CommitGood, EditKeeps
<1>8. CASE Edit([s EXCEPT !.typing = [NoText EXCEPT !.on = TRUE]])
  <2>1. PICK x : x = [NoText EXCEPT !.on = TRUE] OBVIOUS
  <2>2. x \in [on : BOOLEAN, full : BOOLEAN] /\ x.full = FALSE BY <2>1 DEF NoText
  <2>3. PICK t : t = [s EXCEPT !.typing = x] OBVIOUS
  <2>4. /\ t \in ShotRec /\ Marks(t, s) /\ t.selected = s.selected /\ t.typing = x
        /\ t.sel = s.sel /\ t.sel_dragging = s.sel_dragging
    BY <1>2, <2>2, <2>3, TypingIs
  <2>5. Old(t) BY <1>2, <2>4 DEF Old, Marks, Ordered, Grabbed
  <2>6. s.sel = TRUE BY <1>2, <1>3 DEF ShotRec
  <2>7. TypesOnRegion(t) BY <1>2, <2>2, <2>4, <2>6 DEF TypesOnRegion
  <2> QED BY <1>3, <1>8, <2>1, <2>3, <2>5, <2>7, EditKeeps DEF Good
<1>9. CASE Edit(Push(s, Mark(p)))
  <2>1. New(Push(s, Mark(p))) /\ Tells(Push(s, Mark(p)), s) BY <1>2, PushNew
  <2>2. Good(Push(s, Mark(p))) BY <1>2, <2>1 DEF Good, Tells, TypesOnRegion
  <2> QED BY <1>3, <1>9, <2>2, EditKeeps
<1>10. CASE Edit([s EXCEPT !.draw_from = TRUE]) BY <1>2, <1>3, <1>10, DragPlain, PlainGood, EditKeeps
<1> QED BY <1>1, <1>4, <1>5, <1>6, <1>7, <1>8, <1>9, <1>10 DEF Press

LEMMA MoveKeeps == ASSUME CaptureInv, NEW p \in Points, Move(p) PROVE CaptureInv'
<1>1. Good([shot EXCEPT !.shapes[shot.selected].at = p]) BY ShotGood, DraggedGood DEF Move
<1> QED BY <1>1, EditKeeps DEF Move

LEMMA ReleaseKeeps == ASSUME CaptureInv, NEW p \in Points, NEW far \in BOOLEAN, Release(p, far) PROVE CaptureInv'
<1>1. overlay = "open" BY DEF Release
<1>2. shot \in ShotRec /\ Old(shot) /\ TypesOnRegion(shot) /\ Good(shot) /\ made \in Nat BY ShotGood
<1>3. CASE shot.sel_dragging
  <2>1. PICK t : t = [shot EXCEPT !.sel_dragging = FALSE, !.sel = @ \/ far] OBVIOUS
  <2>2. shot.sel \in BOOLEAN /\ shot.sel_dragging = TRUE BY <1>2, <1>3 DEF ShotRec
  <2>3. shot.sel = FALSE BY <1>2, <2>2 DEF TypesOnRegion
  <2>4. t = [shot EXCEPT !.sel_dragging = FALSE, !.sel = far]
    <3>1. (shot.sel \/ far) = far BY <2>3
    <3> QED BY <2>1, <3>1
  <2>5. t \in ShotRec BY <1>2, <2>4 DEF ShotRec
  <2>6. Marks(t, shot) /\ t.selected = shot.selected /\ t.typing = shot.typing
    BY <1>2, <2>4, Zenon DEF ShotRec, Marks
  <2>7. t.sel_dragging = FALSE BY <1>2, <2>4 DEF ShotRec
  <2>8. shot.typing.on # TRUE BY <1>2, <2>3 DEF TypesOnRegion
  <2>9. Old(t) BY <1>2, <2>5, <2>6 DEF Old, Marks, Ordered, Grabbed
  <2>10. TypesOnRegion(t) BY <1>2, <2>6, <2>7, <2>8 DEF TypesOnRegion
  <2>11. Good(t) BY <2>9, <2>10 DEF Good
  <2>12. Ids(t.shapes) = OnScreen(shot) BY <2>6, <2>8, NothingTyped DEF Marks
  <2>13. (Finish(t) /\ compose_and_spawn(t)) \/ Edit(t) BY <1>3, <2>1 DEF Release
  <2> QED BY <1>1, <2>11, <2>12, <2>13, HandedKeeps, EditKeeps
<1>4. CASE Edit([shot EXCEPT !.typing_drag = FALSE, !.move_from = FALSE])
  BY <1>1, <1>2, <1>4, DragPlain, PlainGood, EditKeeps
<1>5. CASE Edit([shot EXCEPT !.move_from = FALSE]) BY <1>1, <1>2, <1>5, DragPlain, PlainGood, EditKeeps
<1>6. CASE Edit(finish_shape([shot EXCEPT !.draw_from = FALSE], p, far))
  <2>1. PICK s : s = [shot EXCEPT !.draw_from = FALSE] OBVIOUS
  <2>2. Plain(s, shot) BY <1>2, <2>1, DragPlain
  <2>3. Old(s) /\ TypesOnRegion(s) BY <1>2, <2>2, PlainOld DEF Plain, Tells, TypesOnRegion
  <2>4. Good(finish_shape(s, p, far)) BY <1>2, <2>3, FinishShapeGood
  <2> QED BY <1>1, <1>6, <2>1, <2>4, EditKeeps
<1> QED BY <1>3, <1>4, <1>5, <1>6 DEF Release

LEMMA ButtonKeeps == ASSUME CaptureInv, ButtonDown PROVE CaptureInv'
<1>1. PICK s : s = BesidePanel OBVIOUS
<1>2. /\ s \in ShotRec /\ Old(s) /\ TypesOnRegion(s) /\ Good(s) /\ made \in Nat
      /\ Plain(s, shot)
  BY <1>1, BesidePanelGood, ShotGood
<1>3. overlay = "open" BY DEF ButtonDown
<1>4. CASE \E t \in Tools, p \in Points :
               Edit(IF t = "text" /\ shot.flyout = "text" THEN s ELSE ToolButton(s, t, p))
  <2>1. PICK t \in Tools, p \in Points :
          Edit(IF t = "text" /\ shot.flyout = "text" THEN s ELSE ToolButton(s, t, p))
    BY <1>4
  <2>2. Good(ToolButton(s, t, p)) BY <1>2, ToolGood
  <2> QED BY <1>2, <1>3, <2>1, <2>2, EditKeeps
<1>5. CASE Edit([s EXCEPT !.flyout = IF shot.flyout = "color" THEN "none" ELSE "color"])
  <2>1. PICK x : x = IF shot.flyout = "color" THEN "none" ELSE "color" OBVIOUS
  <2>2. x \in {"none", "color", "text"} BY <2>1
  <2>3. Good([s EXCEPT !.flyout = x]) BY <1>2, <2>2, FlyoutPlain, PlainGood
  <2> QED BY <1>3, <1>5, <2>1, <2>3, EditKeeps
<1>6. CASE Edit(Undo(s)) \/ Edit(Redo(s)) BY <1>2, <1>3, <1>6, UndoGood, RedoGood, EditKeeps
<1>7. CASE \E p \in Points : /\ Finish(commit_text(s, p))
                             /\ \/ finish_copy(commit_text(s, p)) \/ finish_save(commit_text(s, p))
                                \/ compose_and_spawn(commit_text(s, p))
  <2>1. PICK p \in Points : /\ Finish(commit_text(s, p))
                            /\ \/ finish_copy(commit_text(s, p)) \/ finish_save(commit_text(s, p))
                               \/ compose_and_spawn(commit_text(s, p))
    BY <1>7
  <2>2. Good(commit_text(s, p)) BY <1>2, CommitGood
  <2>3. s.shapes = shot.shapes /\ s.typing = shot.typing BY <1>2 DEF Plain, Marks, Tells
  <2>4. Ids(commit_text(s, p).shapes) = OnScreen(shot) BY <1>2, <2>3, CommitShows
  <2> QED BY <1>3, <2>1, <2>2, <2>4, HandedKeeps
<1>8. CASE Finish(s) /\ HandsNothing /\ OverlayCloses BY <1>2, <1>3, <1>8, ClosedKeeps
<1> QED BY <1>1, <1>4, <1>5, <1>6, <1>7, <1>8 DEF ButtonDown

LEMMA RestKeeps == ASSUME CaptureInv, OverlaySettles \/ Spawns \/ Elsewhere PROVE CaptureInv'
<1>1. CASE OverlaySettles
  <2>1. picture' = "ours" => overlay' = "spawns" BY <1>1 DEF OverlaySettles, CaptureInv, PictureInv
  <2> QED BY <1>1, <2>1, RestsKeeps DEF OverlaySettles
<1>2. CASE Spawns
  <2>1. picture' # "ours" BY <1>2 DEF Spawns, HelperStarts
  <2> QED BY <1>2, <2>1, RestsKeeps DEF Spawns
<1>3. CASE Elsewhere
  <2>1. picture' # "ours" BY <1>3 DEF Elsewhere, HelperReads, HelperKilled
  <2> QED BY <1>3, <2>1, RestsKeeps DEF Elsewhere
<1> QED BY <1>1, <1>2, <1>3

LEMMA EscapeKeeps == ASSUME CaptureInv, Escape PROVE CaptureInv'
<1>1. overlay = "open" BY DEF Escape
<1>2. shot \in ShotRec /\ Old(shot) /\ TypesOnRegion(shot) /\ Good(shot) /\ made \in Nat BY ShotGood
<1>3. CASE Edit([shot EXCEPT !.sel_dragging = FALSE])
  <2>1. PICK t : t = [shot EXCEPT !.sel_dragging = FALSE] OBVIOUS
  <2>2. t \in ShotRec BY <1>2, <2>1 DEF ShotRec
  <2>3. Marks(t, shot) /\ t.selected = shot.selected /\ t.typing = shot.typing /\ t.sel = shot.sel
    BY <1>2, <2>1, Zenon DEF ShotRec, Marks
  <2>4. t.sel_dragging = FALSE BY <1>2, <2>1 DEF ShotRec
  <2>5. Old(t) BY <1>2, <2>2, <2>3 DEF Old, Marks, Ordered, Grabbed
  <2>6. TypesOnRegion(t) BY <1>2, <2>3, <2>4 DEF TypesOnRegion
  <2> QED BY <1>1, <1>3, <2>1, <2>5, <2>6, EditKeeps DEF Good
<1>4. CASE Edit([shot EXCEPT !.flyout = "none"]) BY <1>1, <1>2, <1>4, FlyoutPlain, PlainGood, EditKeeps
<1>5. CASE Edit([shot EXCEPT !.typing = NoText, !.typing_drag = FALSE, !.move_from = FALSE])
  <2>1. PICK s : s = [shot EXCEPT !.typing = NoText] OBVIOUS
  <2>2. /\ s \in ShotRec /\ Marks(s, shot) /\ s.selected = shot.selected /\ s.typing = NoText
        /\ s.sel = shot.sel /\ s.sel_dragging = shot.sel_dragging
    BY <1>2, <2>1, NoTextIs, TypingIs
  <2>3. Old(s) BY <1>2, <2>2 DEF Old, Marks, Ordered, Grabbed
  <2>4. TypesOnRegion(s) BY <1>2, <2>2, NoTextIs DEF TypesOnRegion
  <2>5. Good([s EXCEPT !.typing_drag = FALSE, !.move_from = FALSE])
    BY <2>2, <2>3, <2>4, DragPlain, PlainGood DEF Good
  <2>6. Edit([s EXCEPT !.typing_drag = FALSE, !.move_from = FALSE]) BY <1>5, <2>1
  <2> QED BY <1>1, <2>5, <2>6, EditKeeps
<1>6. CASE Edit([shot EXCEPT !.draw_from = FALSE]) BY <1>1, <1>2, <1>6, DragPlain, PlainGood, EditKeeps
<1>7. CASE Edit(Unselected(shot)) BY <1>1, <1>2, <1>7, UnselectedPlain, PlainGood, EditKeeps
<1>8. CASE Finish(shot) /\ HandsNothing /\ OverlayCloses BY <1>1, <1>2, <1>8, ClosedKeeps
<1> QED BY <1>3, <1>4, <1>5, <1>6, <1>7, <1>8 DEF Escape

LEMMA EnterKeeps == ASSUME CaptureInv, Enter PROVE CaptureInv'
<1>1. PICK p \in Points : Finish(commit_text(shot, p)) /\ finish_copy(commit_text(shot, p)) BY DEF Enter
<1>2. Good(commit_text(shot, p)) BY ShotGood, CommitGood
<1>3. Ids(commit_text(shot, p).shapes) = OnScreen(shot) BY ShotGood, CommitShows
<1> QED BY <1>1, <1>2, <1>3, HandedKeeps DEF Enter

LEMMA TypeKeeps == ASSUME CaptureInv, Type PROVE CaptureInv'
<1>1. PICK full \in BOOLEAN : Edit([shot EXCEPT !.typing.full = full]) BY DEF Type
<1>2. shot \in ShotRec /\ Old(shot) /\ TypesOnRegion(shot) BY ShotGood
<1>3. shot.typing \in [on : BOOLEAN, full : BOOLEAN] BY <1>2, ShotHas
<1>4. shot.typing.on = TRUE BY <1>3 DEF Type
<1>5. PICK x : x = [shot.typing EXCEPT !.full = full] OBVIOUS
<1>6. x \in [on : BOOLEAN, full : BOOLEAN] /\ x.on = TRUE BY <1>3, <1>4, <1>5
<1>7. PICK t : t = [shot EXCEPT !.typing = x] OBVIOUS
<1>8. /\ t \in ShotRec /\ Marks(t, shot) /\ t.selected = shot.selected /\ t.typing = x
      /\ t.sel = shot.sel /\ t.sel_dragging = shot.sel_dragging
  BY <1>2, <1>6, <1>7, TypingIs
<1>9. Old(t) BY <1>2, <1>8 DEF Old, Marks, Ordered, Grabbed
<1>10. TypesOnRegion(t) BY <1>2, <1>4, <1>6, <1>8 DEF TypesOnRegion
<1>11. t = [shot EXCEPT !.typing.full = full] BY <1>5, <1>7
<1> QED BY <1>1, <1>9, <1>10, <1>11, EditKeeps DEF Good, Type

LEMMA ShortcutKeeps == ASSUME CaptureInv, Shortcut PROVE CaptureInv'
<1>1. overlay = "open" /\ ~shot.typing.on BY DEF Shortcut
<1>2. shot \in ShotRec /\ Old(shot) /\ TypesOnRegion(shot) /\ Good(shot) /\ made \in Nat BY ShotGood
<1>3. CASE Edit(Delete(shot)) \/ Edit(Undo(shot)) \/ Edit(Redo(shot))
  BY <1>1, <1>2, <1>3, DeleteGood, UndoGood, RedoGood, EditKeeps
<1>4. CASE Finish(shot) /\ (finish_copy(shot) \/ finish_save(shot) \/ compose_and_spawn(shot))
  <2>1. shot.typing.on # TRUE BY <1>1
  <2>2. Ids(shot.shapes) = OnScreen(shot) BY <2>1, NothingTyped
  <2> QED BY <1>1, <1>2, <1>4, <2>2, HandedKeeps
<1>5. CASE \E t \in Tools, p \in Points : Edit(ToolKey(shot, t, p))
  BY <1>1, <1>2, <1>5, ToolGood, EditKeeps
<1> QED BY <1>3, <1>4, <1>5 DEF Shortcut

LEMMA NewShotIs ==
  /\ NewShot \in ShotRec /\ NewShot.shapes = <<>> /\ NewShot.redo = <<>> /\ NewShot.selected = 0
  /\ NewShot.typing = NoText /\ NewShot.sel = FALSE /\ NewShot.sel_dragging = FALSE
<1>1. <<>> \in Seq(MarkRec) OBVIOUS
<1>2. NoText \in [on : BOOLEAN, full : BOOLEAN] BY NoTextIs
<1>3. "outline" \in Tools /\ 0 \in Nat BY DEF Tools
<1>4. NewShot \in ShotRec BY <1>1, <1>2, <1>3 DEF NewShot, ShotRec
<1> QED BY <1>4 DEF NewShot

LEMMA NewShotGood ==
  ASSUME shot = NewShot, made = 0, grabbed = 0
  PROVE  MarksInv
<1>1. Old(shot) BY NewShotIs DEF Old, Ordered, Rising, Falling, Grabbed
<1>2. TypesOnRegion(shot) BY NewShotIs, NoTextIs DEF TypesOnRegion
<1> QED BY <1>1, <1>2 DEF MarksInv

LEMMA CaptureInitInv == ASSUME CaptureInit PROVE CaptureInv
<1>1. MarksInv BY NewShotGood DEF CaptureInit
<1>2. PictureInv BY DEF CaptureInit, PictureInv
<1> QED BY <1>1, <1>2 DEF CaptureInv

LEMMA OpensKeeps == ASSUME CaptureInv, OpensAgain PROVE CaptureInv'
<1>1. shot' = NewShot /\ made' = 0 /\ grabbed' = 0 BY DEF OpensAgain
<1>2. Old(NewShot)' BY <1>1, NewShotIs DEF Old, Ordered, Rising, Falling, Grabbed
<1>3. TypesOnRegion(NewShot) BY NewShotIs, NoTextIs DEF TypesOnRegion
<1>4. MarksInv' BY <1>1, <1>2, <1>3 DEF MarksInv, Old, Grabbed, TypesOnRegion
<1>5. PictureInv' BY DEF OpensAgain, PictureInv
<1> QED BY <1>4, <1>5 DEF CaptureInv

LEMMA CaptureInvKept == ASSUME CaptureInv, [CaptureNext]_captureVars PROVE CaptureInv'
<1>1. CASE UNCHANGED captureVars
  <2>1. picture' = "ours" => overlay' = "spawns" BY <1>1 DEF captureVars, CaptureInv, PictureInv
  <2> QED BY <1>1, <2>1, RestsKeeps DEF captureVars
<1> QED
  BY <1>1, StartRegionKeeps, ClickPanelKeeps, ButtonKeeps, MoveKeeps, PressKeeps, ReleaseKeeps, RestKeeps,
     EscapeKeeps, EnterKeeps, TypeKeeps, ShortcutKeeps, OpensKeeps DEF CaptureNext

(* The invariant of the capture holds in every state.                        *)
THEOREM CaptureHolds == CaptureSpec => []CaptureInv
<1>1. CaptureInit => CaptureInv BY CaptureInitInv
<1>2. CaptureInv /\ [CaptureNext]_captureVars => CaptureInv' BY CaptureInvKept
<1> QED BY <1>1, <1>2, PTL DEF CaptureSpec

-----------------------------------------------------------------------------
(* What the invariant says                                                   *)

LEMMA MarksAreKept == ASSUME CaptureInv PROVE KeepsItsMarks
<1>1. PICK q \in Seq(MarkRec) : q = shot.shapes BY ShotGood, ShotHas
<1>2. PICK r \in Seq(MarkRec) : r = shot.redo BY ShotGood, ShotHas
<1>3. PICK n \in Nat : n = Len(q) OBVIOUS
<1>4. PICK m \in Nat : m = Len(r) OBVIOUS
<1>5. PICK v : v = Reverse(r) OBVIOUS
<1>6. v \in Seq(MarkRec) /\ Len(v) = m /\ \A i \in 1 .. m : v[i] = r[m - i + 1]
  <2>1. v = [i \in 1 .. m |-> r[(m - i) + 1]] BY <1>4, <1>5 DEF Reverse
  <2>2. \A i \in 1 .. m : r[(m - i) + 1] \in MarkRec
    <3> TAKE i \in 1 .. m
    <3>1. (m - i) + 1 \in 1 .. m BY <1>4
    <3> QED BY <1>4, <3>1, ElementOfSeq
  <2> QED BY <1>4, <2>1, <2>2
<1>7. PICK all : all = q \o v OBVIOUS
<1>8. Len(all) = n + m /\ DOMAIN all = 1 .. n + m
  <2>1. all \in Seq(MarkRec) /\ Len(all) = Len(q) + Len(v) BY <1>6, <1>7, ConcatProperties
  <2> QED BY <1>3, <1>4, <1>6, <2>1
<1>9. \A i \in 1 .. n : all[i] = q[i] BY <1>3, <1>6, <1>7
<1>10. \A i \in n + 1 .. n + m : all[i] = r[n + m - i + 1]
  <2> TAKE i \in n + 1 .. n + m
  <2>1. all[i] = v[i - n] BY <1>3, <1>6, <1>7
  <2>2. i - n \in 1 .. m /\ m - (i - n) + 1 = n + m - i + 1 BY <1>3, <1>4
  <2> QED BY <1>6, <2>1, <2>2
<1>11. Rising(q) /\ Falling(r) /\ \A i \in 1 .. n, k \in 1 .. m : q[i].id < r[k].id
  BY <1>1, <1>2, <1>3, <1>4, ShotGood DEF Old, Ordered
<1>12. ASSUME NEW i \in 1 .. n + m, NEW k \in 1 .. n + m, i < k PROVE all[i].id < all[k].id
  <2>1. CASE k <= n
    <3>1. i \in 1 .. n /\ k \in 1 .. n BY <1>3, <1>4, <1>12, <2>1
    <3> QED BY <1>3, <1>9, <1>11, <1>12, <3>1 DEF Rising
  <2>2. CASE i <= n /\ k > n
    <3>1. i \in 1 .. n /\ k \in n + 1 .. n + m /\ n + m - k + 1 \in 1 .. m BY <1>3, <1>4, <2>2
    <3>2. q[i].id < r[n + m - k + 1].id BY <1>11, <3>1
    <3> QED BY <1>9, <1>10, <3>1, <3>2
  <2>3. CASE i > n
    <3>1. i \in n + 1 .. n + m /\ k \in n + 1 .. n + m BY <1>3, <1>4, <1>12, <2>3
    <3>2. n + m - i + 1 \in 1 .. m /\ n + m - k + 1 \in 1 .. m BY <1>3, <1>4, <3>1
    <3>3. PICK a \in 1 .. m : a = n + m - i + 1 BY <3>2
    <3>4. PICK b \in 1 .. m : b = n + m - k + 1 BY <3>2
    <3>5. b < a BY <1>3, <1>4, <1>12, <3>3, <3>4
    <3>6. r[b].id > r[a].id BY <1>4, <1>11, <3>5 DEF Falling
    <3>7. r[b] \in MarkRec /\ r[a] \in MarkRec BY <1>4, ElementOfSeq
    <3>8. r[a].id < r[b].id BY <3>6, <3>7 DEF MarkRec
    <3> QED BY <1>10, <3>1, <3>3, <3>4, <3>8
  <2> QED BY <1>3, <1>4, <2>1, <2>2, <2>3
<1>13. Grabbed(shot) BY ShotGood DEF Old
<1>14. DOMAIN shot.shapes = 1 .. Len(shot.shapes) BY <1>1
<1> QED BY <1>1, <1>2, <1>5, <1>7, <1>8, <1>12, <1>13, <1>14 DEF KeepsItsMarks, Grabbed

(* KeepsItsMarks, of any number of annotations at any places: done and undone *)
(* annotations stay in the order in which they were made, and a drag or       *)
(* Delete goes to the annotation that was grabbed, in whatever order clicks,  *)
(* drags, keys, undo and redo come.                                           *)
THEOREM AlwaysKeepsItsMarks == CaptureSpec => []KeepsItsMarks
<1>1. CaptureInv => KeepsItsMarks BY MarksAreKept
<1> QED BY <1>1, CaptureHolds, PTL

(* HandsOver: what is copied, saved or given to a helper has every annotation *)
(* that was on the screen, the text being typed included, and a closed        *)
(* capture holds no temporary picture of its own.                             *)
THEOREM AlwaysHandsOver == CaptureSpec => []HandsOver
<1>1. CaptureInv => HandsOver BY DEF CaptureInv, PictureInv, HandsOver
<1> QED BY <1>1, CaptureHolds, PTL

-----------------------------------------------------------------------------
(* The daemon *)

\* where a daemon holds the mutex
Inside == {"locked", "window", "runs", "ends"}

DaemonInv ==
  /\ at \in [Daemons -> {"off", "starts"} \cup Inside]
  /\ \A d, e \in Daemons : {at[d], at[e]} \subseteq Inside => d = e
  /\ armed # {} \/ icon => Up

LEMMA HotInitInv == HotInit => DaemonInv
  BY DEF HotInit, DaemonInv, Inside

\* a daemon starts, or nothing becomes of the attempt
LEMMA SpawnKeeps == ASSUME DaemonInv, Spawn, UNCHANGED <<armed, icon>> PROVE DaemonInv'
<1>1. CASE at' = at BY <1>1 DEF DaemonInv, Up
<1>2. CASE \E d \in Daemons : at[d] = "off" /\ at' = [at EXCEPT ![d] = "starts"]
  <2>1. PICK d \in Daemons : at[d] = "off" /\ at' = [at EXCEPT ![d] = "starts"] BY <1>2
  <2>2. \A e \in Daemons : at'[e] = IF e = d THEN "starts" ELSE at[e] BY <2>1 DEF DaemonInv
  <2>3. Up => Up' BY <2>1, <2>2 DEF Up
  <2> QED BY <2>1, <2>2, <2>3 DEF DaemonInv, Inside
<1> QED BY <1>1, <1>2 DEF Spawn

\* what the programs of the user do
LEMMA UserKeeps ==
  ASSUME DaemonInv, \/ SaveWrites \/ SaveReconciles \/ Heal \/ SyncPull \/ HideIcon \/ quit
  PROVE  DaemonInv'
<1>1. ASSUME reconcile, UNCHANGED <<armed, icon>> PROVE DaemonInv'
  <2>1. at' = at \/ Spawn BY <1>1 DEF reconcile
  <2> QED BY <1>1, <2>1, SpawnKeeps DEF Spawn
<1>2. ASSUME UNCHANGED <<at, armed>>, icon' = icon \/ icon' = FALSE PROVE DaemonInv'
  BY <1>2 DEF DaemonInv, Up
<1>3. shell' = shell => icon' = icon BY DEF shell
<1>4. CASE SaveReconciles BY <1>1, <1>3, <1>4 DEF SaveReconciles
<1>5. CASE Heal BY <1>1, <1>3, <1>5 DEF Heal
<1>6. CASE SaveWrites BY <1>2, <1>3, <1>6 DEF SaveWrites
<1>7. CASE SyncPull BY <1>2, <1>3, <1>7 DEF SyncPull
<1>8. CASE quit BY <1>2, <1>3, <1>8 DEF quit
<1>9. CASE HideIcon BY <1>2, <1>9 DEF HideIcon, remove_tray_icon
<1> QED BY <1>4, <1>5, <1>6, <1>7, <1>8, <1>9

\* a daemon that runs, and the system beside it
LEMMA RunningKeeps ==
  ASSUME DaemonInv, Up, UNCHANGED at PROVE DaemonInv'
  BY DEF DaemonInv, Up

LEMMA SystemKeeps ==
  ASSUME DaemonInv, \/ Drops \/ ExplorerEnds \/ ExplorerStarts PROVE DaemonInv'
<1>1. UNCHANGED at /\ (armed' # {} => armed # {}) /\ (icon' => icon)
  BY DEF Drops, ExplorerEnds, ExplorerStarts, shell
<1> QED BY <1>1 DEF DaemonInv, Up

LEMMA HandlesKeeps == ASSUME DaemonInv, Handles PROVE DaemonInv'
<1>1. Up BY DEF Handles
<1>2. CASE UNCHANGED at BY <1>1, <1>2, RunningKeeps
<1>3. CASE OnClose
  <2>1. PICK d \in Daemons : at[d] = "runs" /\ Moves(d, "ends") BY <1>3 DEF OnClose
  <2>2. \A e \in Daemons : at'[e] = IF e = d THEN "ends" ELSE at[e] BY <2>1 DEF DaemonInv, Moves
  <2>3. armed' = {} /\ icon' = FALSE BY <1>3 DEF OnClose, remove_tray_icon
  <2> QED BY <2>1, <2>2, <2>3 DEF DaemonInv, Moves, Inside
<1> QED BY <1>2, <1>3 DEF Handles, OnReload, OnTaskbarCreated

\* one step of one daemon's start or end
LEMMA ProcessKeeps ==
  ASSUME DaemonInv, NEW d \in Daemons, LocksMutex(d) \/ CreatesWindow(d) \/ StartsUp(d) \/ Exits(d) \/ Killed(d)
  PROVE  DaemonInv'
<1> DEFINE ComesTo(a) == at' = [at EXCEPT ![d] = a]
<1>1. CASE LocksMutex(d)
  <2>1. PICK a \in {"off", "locked"} : ComesTo(a) /\ (a = "locked" => ~Locked(d)) BY <1>1 DEF LocksMutex, Moves
  <2>2. \A e \in Daemons : at'[e] = IF e = d THEN a ELSE at[e] BY <2>1 DEF DaemonInv
  <2>3. at[d] = "starts" /\ UNCHANGED <<armed, icon>> BY <1>1 DEF LocksMutex, shell
  <2>4. Up => Up' BY <2>2, <2>3 DEF Up
  <2>5. \A e \in Daemons : a = "locked" /\ at[e] \in Inside => e = d BY <2>1 DEF Locked, Inside
  <2> QED BY <2>1, <2>2, <2>3, <2>4, <2>5 DEF DaemonInv, Inside
<1>2. CASE CreatesWindow(d)
  <2>1. at[d] = "locked" /\ ComesTo("window") /\ UNCHANGED <<armed, icon>> BY <1>2 DEF CreatesWindow, Moves, shell
  <2>2. \A e \in Daemons : at'[e] = IF e = d THEN "window" ELSE at[e] BY <2>1 DEF DaemonInv
  <2>3. Up => Up' BY <2>1, <2>2 DEF Up
  <2> QED BY <2>1, <2>2, <2>3 DEF DaemonInv, Inside
<1>3. CASE StartsUp(d)
  <2>1. at[d] = "window" /\ ComesTo("runs") BY <1>3 DEF StartsUp, Moves
  <2>2. \A e \in Daemons : at'[e] = IF e = d THEN "runs" ELSE at[e] BY <2>1 DEF DaemonInv
  <2>3. Up' BY <2>2 DEF Up
  <2> QED BY <2>1, <2>2, <2>3 DEF DaemonInv, Inside
<1>4. ASSUME ComesTo("off"), at[d] # "runs", UNCHANGED <<armed, icon>> PROVE DaemonInv'
  <2>1. \A e \in Daemons : at'[e] = IF e = d THEN "off" ELSE at[e] BY <1>4 DEF DaemonInv
  <2>2. Up => Up' BY <1>4, <2>1 DEF Up
  <2> QED BY <1>4, <2>1, <2>2 DEF DaemonInv, Inside
<1>5. CASE Exits(d) BY <1>4, <1>5 DEF Exits, Moves, shell
<1>6. CASE Killed(d)
  <2>1. ComesTo("off") BY <1>6 DEF Killed, Moves
  <2>2. CASE HasWindow(d)
    <3>1. armed' = {} /\ icon' = FALSE BY <1>6, <2>2 DEF Killed
    <3>2. \A e \in Daemons : at'[e] = IF e = d THEN "off" ELSE at[e] BY <2>1 DEF DaemonInv
    <3> QED BY <2>1, <3>1, <3>2 DEF DaemonInv, Inside
  <2>3. CASE ~HasWindow(d)
    <3>1. at[d] # "runs" BY <2>3 DEF HasWindow
    <3>2. UNCHANGED <<armed, icon>> BY <1>6, <2>3 DEF Killed
    <3> QED BY <1>4, <2>1, <3>1, <3>2
  <2> QED BY <2>2, <2>3
<1> QED BY <1>1, <1>2, <1>3, <1>5, <1>6

LEMMA DaemonInvKept == DaemonInv /\ [HotNext]_hotVars => DaemonInv'
<1> SUFFICES ASSUME DaemonInv, [HotNext]_hotVars PROVE DaemonInv' OBVIOUS
<1>1. CASE SaveWrites \/ SaveReconciles \/ Heal \/ SyncPull \/ HideIcon \/ quit BY <1>1, UserKeeps
<1>2. CASE Handles BY <1>2, HandlesKeeps
<1>3. CASE Rearms \/ Retries BY <1>3, RunningKeeps DEF Rearms, Retries
<1>4. CASE Drops \/ ExplorerEnds \/ ExplorerStarts BY <1>4, SystemKeeps
<1>5. ASSUME NEW d \in Daemons, LocksMutex(d) \/ CreatesWindow(d) \/ StartsUp(d) \/ Exits(d) \/ Killed(d)
      PROVE  DaemonInv'
  BY <1>5, ProcessKeeps
<1>6. CASE UNCHANGED hotVars BY <1>6 DEF hotVars, shell, DaemonInv, Up
<1> QED BY <1>1, <1>2, <1>3, <1>4, <1>5, <1>6 DEF HotNext

(* One daemon has a window, for any number of processes that autostart, Save *)
(* and heal start, and nothing is registered and no icon shown without one.  *)
THEOREM OneDaemonAlways == HotSpec => []OneDaemon
<1>1. DaemonInv => OneDaemon BY DEF DaemonInv, OneDaemon, HasWindow, Inside
<1> QED BY <1>1, HotInitInv, DaemonInvKept, PTL DEF HotSpec
=============================================================================
