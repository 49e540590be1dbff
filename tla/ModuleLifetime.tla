--------------------------- MODULE ModuleLifetime ---------------------------
(***************************************************************************)
(* The lifetime of the shell-extension DLL inside its host (Explorer,      *)
(* dllhost, prevhost): the MODULE_REFS count behind DllCanUnloadNow, the   *)
(* COM objects and class factories that hold a ModuleRef, LockServer, and  *)
(* the detached worker threads the objects start.                          *)
(*                                                                         *)
(* A worker of kind "verb" runs a context-menu action and nobody waits for *)
(* it; "menu" is the menu-preview decode, "probe" the property probe,      *)
(* "grab" stands for the uncapped budgeted decodes (video frame, PDF page, *)
(* SVG, OCR, preview pane).  "menu" and "probe" reserve a place in a       *)
(* counter before the thread is spawned and give it back as the last thing *)
(* the worker does, after its ModuleRef is gone.                           *)
(***************************************************************************)
EXTENDS Naturals, FiniteSets

CONSTANTS
  Factories,   \* identities of class factories the host may hold
  Objects,     \* identities of COM objects the host may hold
  Workers,     \* identities of worker threads
  MaxLocks,    \* bound: outstanding LockServer(TRUE) calls
  Cap          \* MAX_MENU_PREVIEW_WORKERS / MAX_ACTIVE_PROBES, by kind

None == "none"
CappedKinds == {"menu", "probe"}
Kinds == CappedKinds \cup {"verb", "grab"}

ASSUME LifetimeAssumption ==
  /\ IsFiniteSet(Factories) /\ IsFiniteSet(Objects) /\ IsFiniteSet(Workers)
  /\ None \notin Objects
  /\ MaxLocks \in Nat
  /\ Cap \in [CappedKinds -> Nat \ {0}]

VARIABLES
  loaded,       \* is the DLL mapped into the host?
  MODULE_REFS,  \* the atomic count of lib.rs
  factories,    \* class factories alive
  objects,      \* COM objects alive
  locks,        \* LockServer(TRUE) calls not yet undone
  worker,       \* per thread: where it is in its life
  kind,         \* per thread: what it was started for
  caller,       \* per thread: the object whose method waits for its answer
  active,       \* MENU_PREVIEW_WORKERS and ACTIVE_PROBES
  crashed       \* the host ran a thread whose code was gone

hostVars == <<factories, objects, locks>>
threadVars == <<worker, kind, caller, active>>
vars == <<loaded, MODULE_REFS, factories, objects, locks, worker, kind,
          caller, active, crashed>>

WorkerStates == {"idle", "reserved", "spawned", "pinned", "unpinned"}

Pinned == {w \in Workers : worker[w] = "pinned"}
OfKind(k) == {w \in Workers : worker[w] # "idle" /\ kind[w] = k}
Blocked(o) == \E w \in Workers : caller[w] = o

Init ==
  /\ loaded = FALSE
  /\ MODULE_REFS = 0
  /\ factories = {} /\ objects = {} /\ locks = 0
  /\ worker = [w \in Workers |-> "idle"]
  /\ kind = [w \in Workers |-> "verb"]
  /\ caller = [w \in Workers |-> None]
  /\ active = [k \in CappedKinds |-> 0]
  /\ crashed = FALSE

-----------------------------------------------------------------------------
(* lib.rs: the count. *)
dll_add_ref == MODULE_REFS' = MODULE_REFS + 1

\* fetch_update: a zero count is left alone
dll_release == MODULE_REFS' = IF MODULE_REFS > 0 THEN MODULE_REFS - 1
                                                 ELSE MODULE_REFS

\* mutant: one reference is taken for the caller's own
dll_can_unload_with_one == MODULE_REFS <= 1

dll_can_unload_now == MODULE_REFS = 0

-----------------------------------------------------------------------------
(* The host's calls. *)

\* COM maps the DLL on the first request for a class
GetClassObject(f) ==
  /\ f \notin factories
  /\ loaded' = TRUE
  /\ factories' = factories \cup {f}
  /\ dll_add_ref
  /\ UNCHANGED <<crashed, objects, locks, threadVars>>

CreateInstance(o) ==
  /\ factories # {} /\ o \notin objects
  /\ objects' = objects \cup {o}
  /\ dll_add_ref
  /\ UNCHANGED <<loaded, crashed, factories, locks, threadVars>>

ReleaseFactory(f) ==
  /\ f \in factories
  /\ factories' = factories \ {f}
  /\ dll_release
  /\ UNCHANGED <<loaded, crashed, objects, locks, threadVars>>

\* no call on the object is in progress when its last reference goes
ReleaseObject(o) ==
  /\ o \in objects /\ ~Blocked(o)
  /\ objects' = objects \ {o}
  /\ dll_release
  /\ UNCHANGED <<loaded, crashed, factories, locks, threadVars>>

\* a host that follows COM undoes only the locks it took
LockServer(flock) ==
  /\ factories # {}
  /\ IF flock THEN locks < MaxLocks /\ locks' = locks + 1 /\ dll_add_ref
              ELSE locks > 0 /\ locks' = locks - 1 /\ dll_release
  /\ UNCHANGED <<loaded, crashed, factories, objects, threadVars>>

\* CoFreeUnusedLibraries: FreeLibrary after DllCanUnloadNow answered S_OK.
\* A thread still inside the DLL, before or after its pin, has its next
\* instruction in unmapped memory: the process is lost.
Unload ==
  /\ loaded /\ dll_can_unload_now
  /\ loaded' = FALSE
  /\ crashed' = \E w \in Workers : worker[w] # "idle"
  /\ UNCHANGED <<MODULE_REFS, hostVars, threadVars>>

-----------------------------------------------------------------------------
(* Starting a worker from a method of object o. *)


PlaceFree(k) == active[k] < Cap[k]

\* start_menu_thumb, probe_budgeted: take a place, or give up
ReserveWorker(o, k, w) ==
  /\ o \in objects /\ ~Blocked(o) /\ worker[w] = "idle"
  /\ PlaceFree(k)
  /\ active' = [active EXCEPT ![k] = @ + 1]
  /\ worker' = [worker EXCEPT ![w] = "reserved"]
  /\ kind' = [kind EXCEPT ![w] = k]
  /\ caller' = [caller EXCEPT ![w] = o]
  /\ UNCHANGED <<loaded, crashed, MODULE_REFS, hostVars>>

\* Builder::spawn succeeds.  The menu decode is a prefetch: the method that
\* started it returns at once.
SpawnReserved(w) ==
  /\ worker[w] = "reserved"
  /\ worker' = [worker EXCEPT ![w] = "spawned"]
  /\ caller' = IF kind[w] = "menu" THEN [caller EXCEPT ![w] = None] ELSE caller
  /\ UNCHANGED <<loaded, crashed, MODULE_REFS, hostVars, kind, active>>


\* mutant: the early return forgets the place
SpawnFailsKeepingPlace(w) ==
  /\ worker[w] = "reserved"
  /\ worker' = [worker EXCEPT ![w] = "idle"]
  /\ caller' = [caller EXCEPT ![w] = None]
  /\ UNCHANGED <<loaded, crashed, MODULE_REFS, hostVars, kind, active>>

\* Builder::spawn fails: the place is given back and the method returns
SpawnFails(w) ==
  /\ worker[w] = "reserved"
  /\ worker' = [worker EXCEPT ![w] = "idle"]
  /\ caller' = [caller EXCEPT ![w] = None]
  /\ active' = [active EXCEPT ![kind[w]] = @ - 1]
  /\ UNCHANGED <<loaded, crashed, MODULE_REFS, hostVars, kind>>

\* run_action_detached: spawn, do not wait
RunActionDetached(o, w) ==
  /\ o \in objects /\ ~Blocked(o) /\ worker[w] = "idle"
  /\ worker' = [worker EXCEPT ![w] = "spawned"]
  /\ kind' = [kind EXCEPT ![w] = "verb"]
  /\ UNCHANGED <<loaded, crashed, MODULE_REFS, hostVars, caller, active>>

\* grab_budgeted and its twins: spawn, then wait for the answer
GrabBudgeted(o, w) ==
  /\ o \in objects /\ ~Blocked(o) /\ worker[w] = "idle"
  /\ worker' = [worker EXCEPT ![w] = "spawned"]
  /\ kind' = [kind EXCEPT ![w] = "grab"]
  /\ caller' = [caller EXCEPT ![w] = o]
  /\ UNCHANGED <<loaded, crashed, MODULE_REFS, hostVars, active>>

\* recv_timeout returns, with the answer or because the budget ran out:
\* whatever the worker is doing, the method returns
CallerReturns(w) ==
  /\ caller[w] # None /\ worker[w] # "reserved"
  /\ caller' = [caller EXCEPT ![w] = None]
  /\ UNCHANGED <<loaded, crashed, MODULE_REFS, hostVars, worker, kind, active>>

-----------------------------------------------------------------------------
(* The worker's own steps. *)

\* the first statement of every worker closure: ModuleRef::default()
PinModule(w) ==
  /\ worker[w] = "spawned"
  /\ worker' = [worker EXCEPT ![w] = "pinned"]
  /\ dll_add_ref
  /\ UNCHANGED <<loaded, crashed, hostVars, kind, caller, active>>

\* the work is done and sent; _module is dropped first
UnpinModule(w) ==
  /\ worker[w] = "pinned"
  /\ worker' = [worker EXCEPT ![w] = "unpinned"]
  /\ dll_release
  /\ UNCHANGED <<loaded, crashed, hostVars, kind, caller, active>>

\* then the counter guard, and the thread ends
ExitThread(w) ==
  /\ worker[w] = "unpinned"
  /\ worker' = [worker EXCEPT ![w] = "idle"]
  /\ caller' = [caller EXCEPT ![w] = None]
  /\ active' = IF kind[w] \in CappedKinds
               THEN [active EXCEPT ![kind[w]] = @ - 1] ELSE active
  /\ UNCHANGED <<loaded, crashed, MODULE_REFS, hostVars, kind>>

HostStep ==
  \/ \E f \in Factories : GetClassObject(f) \/ ReleaseFactory(f)
  \/ \E o \in Objects : CreateInstance(o) \/ ReleaseObject(o)
  \/ \E flock \in BOOLEAN : LockServer(flock)
  \/ Unload

MethodStep ==
  \E w \in Workers :
    \/ \E o \in Objects :
         \/ \E k \in CappedKinds : ReserveWorker(o, k, w)
         \/ RunActionDetached(o, w)
         \/ GrabBudgeted(o, w)
    \/ SpawnReserved(w) \/ SpawnFails(w)
    \/ CallerReturns(w)

ThreadStep(w) == PinModule(w) \/ UnpinModule(w) \/ ExitThread(w)

Next ==
  /\ ~crashed
  /\ HostStep \/ MethodStep \/ \E w \in Workers : ThreadStep(w)

Spec == Init /\ [][Next]_vars

\* the operating system runs every thread, and a method called runs to its
\* return; the host owes nothing
LifetimeFairness ==
  \A w \in Workers : WF_vars(~crashed /\ ThreadStep(w))
                     /\ WF_vars(~crashed /\ (SpawnReserved(w) \/ SpawnFails(w)))

-----------------------------------------------------------------------------
TypeOK ==
  /\ loaded \in BOOLEAN
  /\ MODULE_REFS \in Nat
  /\ factories \in SUBSET Factories
  /\ objects \in SUBSET Objects
  /\ locks \in 0..MaxLocks
  /\ worker \in [Workers -> WorkerStates]
  /\ kind \in [Workers -> Kinds]
  /\ caller \in [Workers -> Objects \cup {None}]
  /\ active \in [CappedKinds -> Nat]
  /\ crashed \in BOOLEAN

\* MODULE_REFS is exactly what is alive: nothing is counted twice, nothing
\* released twice, and the clamp of dll_release never has to act.
RefsCountTheLiving ==
  MODULE_REFS = Cardinality(factories) + Cardinality(objects) + locks
                + Cardinality(Pinned)

\* While a COM object, a factory, a lock or a worker's ModuleRef is alive the
\* DLL stays mapped (the "detached_worker_ref_blocks_unload" test of lib.rs).
HeldStaysLoaded ==
  (factories # {} \/ objects # {} \/ locks > 0 \/ Pinned # {}) => loaded

\* However many menus and property sheets are opened, no more decoders of a
\* capped kind exist than its cap, through failed spawns and late workers.
WorkersWithinCap == \A k \in CappedKinds : Cardinality(OfKind(k)) <= Cap[k]

\* What run_action_detached promises: from the moment a verb is started until
\* it is done, the DLL cannot be unloaded.
ActionKeepsModule ==
  \A w \in Workers : worker[w] \in {"spawned", "pinned"} => loaded

\* A capped worker's place always comes back, even when its spawn failed or
\* its caller gave up on it.
PlaceComesBack ==
  \A k \in CappedKinds :
    (active[k] = Cap[k]) ~> (active[k] < Cap[k] \/ crashed)
=============================================================================
