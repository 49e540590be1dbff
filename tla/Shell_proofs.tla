---------------------------- MODULE Shell_proofs ----------------------------
(***************************************************************************)
(* Proofs about what runs inside Explorer and its hosts.                   *)
(*                                                                         *)
(* ModuleLifetime, for any number of factories, objects and workers, any   *)
(* bound on the locks and any caps: MODULE_REFS is exactly what is alive,  *)
(* so the DLL stays mapped under everything that holds it, and no capped   *)
(* kind of worker outgrows its cap.                                        *)
(*                                                                         *)
(* Menu, for any files, selections, settings and granted ids: what is      *)
(* decoded ahead, built or drawn as the preview is of the one file that is *)
(* selected, because a menu that has gone takes its flyout along and the   *)
(* next query forgets what was built.  A click runs what its item says,    *)
(* because an item is drawn with the id of its place in the whole tree,    *)
(* and the list that the id is looked up in is that tree laid flat.  Both  *)
(* menus offer the same items once each, whatever order was saved, because *)
(* normalising it neither loses nor repeats one.                           *)
(*                                                                         *)
(* ThumbSource, for files, prefixes and caps of any size: the bytes in the *)
(* buffer are always the first ones of the file, and while a read goes on  *)
(* the stream is where they end.                                           *)
(*                                                                         *)
(* BlockStream, for a source, blocks and a budget of any size: what is     *)
(* cached is whole blocks of the source, so that every call is one of a    *)
(* plain file.                                                             *)
(***************************************************************************)
EXTENDS ModuleLifetime, Menu, ThumbSource, BlockStream, ListLemmas, FiniteSetTheorems, TLAPS

\* The place counters are exact, reserved threads are of a capped kind, and
\* a DLL that is gone left no thread behind unless the host crashed.
ActiveCounts ==
  \A k \in CappedKinds :
    active[k] = Cardinality(OfKind(k)) /\ active[k] <= Cap[k]
ReservedIsCapped ==
  \A w \in Workers : worker[w] = "reserved" => kind[w] \in CappedKinds
UnloadedIsQuiet ==
  ~loaded /\ ~crashed => \A w \in Workers : worker[w] = "idle"

IInv ==
  /\ TypeOK
  /\ RefsCountTheLiving
  /\ HeldStaysLoaded
  /\ ActiveCounts
  /\ ReservedIsCapped
  /\ UnloadedIsQuiet

-----------------------------------------------------------------------------
(* Counting a finite set that gains or loses one element.                  *)

\* Adding a new element to a subset of a finite set adds one to its size.
LEMMA CountUp ==
  ASSUME NEW T, IsFiniteSet(T), NEW S, S \subseteq T, NEW x, x \notin S
  PROVE  Cardinality(S \cup {x}) = Cardinality(S) + 1
BY FS_Subset, FS_AddElement

\* Removing a member of a subset of a finite set takes one from its size.
LEMMA CountDown ==
  ASSUME NEW T, IsFiniteSet(T), NEW S, S \subseteq T, NEW x, x \in S
  PROVE  /\ Cardinality(S) \in Nat /\ Cardinality(S) > 0
         /\ Cardinality(S \ {x}) = Cardinality(S) - 1
BY FS_Subset, FS_RemoveElement, FS_EmptySet, FS_CardinalityType

\* The size of a subset of a finite set is a number, zero only when empty.
LEMMA CountNat ==
  ASSUME NEW T, IsFiniteSet(T), NEW S, S \subseteq T
  PROVE  Cardinality(S) \in Nat /\ (Cardinality(S) = 0 <=> S = {})
BY FS_Subset, FS_EmptySet, FS_CardinalityType

-----------------------------------------------------------------------------
(* The three quantities counted, in an arbitrary typed state.              *)

\* Every counted quantity is a natural number.
LEMMA Sizes ==
  ASSUME TypeOK
  PROVE  /\ Cardinality(factories) \in Nat /\ Cardinality(objects) \in Nat
         /\ Cardinality(Pinned) \in Nat /\ locks \in Nat
         /\ (Cardinality(factories) = 0 <=> factories = {})
         /\ (Cardinality(objects) = 0 <=> objects = {})
         /\ (Cardinality(Pinned) = 0 <=> Pinned = {})
<1>1. factories \subseteq Factories /\ objects \subseteq Objects
  BY DEF TypeOK
<1>2. Pinned \subseteq Workers
  BY DEF Pinned
<1>3. locks \in Nat
  BY LifetimeAssumption DEF TypeOK
<1>4. QED
  BY <1>1, <1>2, <1>3, CountNat, LifetimeAssumption

\* MODULE_REFS is zero exactly when nothing is alive.
LEMMA ZeroMeansNothingHeld ==
  ASSUME TypeOK, RefsCountTheLiving
  PROVE  MODULE_REFS = 0 <=>
           factories = {} /\ objects = {} /\ locks = 0 /\ Pinned = {}
<1>1. MODULE_REFS = 0 <=> /\ Cardinality(factories) = 0
                          /\ Cardinality(objects) = 0
                          /\ locks = 0
                          /\ Cardinality(Pinned) = 0
  <2> DEFINE a == Cardinality(factories)
             b == Cardinality(objects)
             d == Cardinality(Pinned)
  <2>1. a \in Nat /\ b \in Nat /\ d \in Nat /\ locks \in Nat
    BY Sizes
  <2>2. MODULE_REFS = a + b + locks + d
    BY DEF RefsCountTheLiving
  <2> HIDE DEF a, b, d
  <2>3. MODULE_REFS = 0 <=> a = 0 /\ b = 0 /\ locks = 0 /\ d = 0
    BY <2>1, <2>2
  <2> QED
    BY <2>3 DEF a, b, d
<1>2. QED
  BY <1>1, Sizes

-----------------------------------------------------------------------------
(* The host's steps leave the threads alone.                               *)

\* A step that leaves the threads alone leaves their counts alone.
LEMMA ThreadsAlone ==
  ASSUME IInv, UNCHANGED threadVars
  PROVE  /\ ActiveCounts' /\ ReservedIsCapped' /\ Pinned' = Pinned
         /\ \A k \in CappedKinds : OfKind(k)' = OfKind(k)
<1>1. /\ Pinned' = Pinned
      /\ \A k \in CappedKinds : OfKind(k)' = OfKind(k)
  BY DEF threadVars, Pinned, OfKind
<1>2. QED
  BY <1>1 DEF IInv, ActiveCounts, ReservedIsCapped, threadVars

\* Every call of the host preserves the invariant.
LEMMA HostInv ==
  ASSUME IInv, ~crashed, HostStep
  PROVE  IInv'
<1> USE DEF IInv
<1>1. ASSUME NEW f \in Factories, GetClassObject(f)  PROVE IInv'
  <2>1. Cardinality(factories') = Cardinality(factories) + 1
    BY <1>1, CountUp, LifetimeAssumption DEF GetClassObject, TypeOK
  <2>2. Pinned' = Pinned /\ ActiveCounts' /\ ReservedIsCapped'
    BY <1>1, ThreadsAlone DEF GetClassObject
  <2>3. TypeOK' /\ HeldStaysLoaded' /\ UnloadedIsQuiet'
    BY <1>1 DEF GetClassObject, dll_add_ref, TypeOK, HeldStaysLoaded,
                UnloadedIsQuiet, threadVars
  <2>4. RefsCountTheLiving'
    BY <1>1, <2>1, <2>2, Sizes
    DEF GetClassObject, dll_add_ref, RefsCountTheLiving
  <2> QED
    BY <2>2, <2>3, <2>4
<1>2. ASSUME NEW f \in Factories, ReleaseFactory(f)  PROVE IInv'
  <2>1. /\ Cardinality(factories) > 0
        /\ Cardinality(factories') = Cardinality(factories) - 1
    BY <1>2, CountDown, LifetimeAssumption DEF ReleaseFactory, TypeOK
  <2>2. Pinned' = Pinned /\ ActiveCounts' /\ ReservedIsCapped'
    BY <1>2, ThreadsAlone DEF ReleaseFactory
  <2>3. TypeOK'
    BY <1>2 DEF ReleaseFactory, dll_release, TypeOK, threadVars
  <2>4. HeldStaysLoaded' /\ UnloadedIsQuiet'
    BY <1>2, <2>2 DEF ReleaseFactory, HeldStaysLoaded, UnloadedIsQuiet,
                      threadVars
  <2>5. RefsCountTheLiving'
    BY <1>2, <2>1, <2>2, Sizes
    DEF ReleaseFactory, dll_release, RefsCountTheLiving
  <2> QED
    BY <2>2, <2>3, <2>4, <2>5
<1>3. ASSUME NEW o \in Objects, CreateInstance(o)  PROVE IInv'
  <2>1. Cardinality(objects') = Cardinality(objects) + 1
    BY <1>3, CountUp, LifetimeAssumption DEF CreateInstance, TypeOK
  <2>2. Pinned' = Pinned /\ ActiveCounts' /\ ReservedIsCapped'
    BY <1>3, ThreadsAlone DEF CreateInstance
  <2>3. TypeOK'
    BY <1>3 DEF CreateInstance, dll_add_ref, TypeOK, threadVars
  <2>4. HeldStaysLoaded' /\ UnloadedIsQuiet'
    BY <1>3, <2>2 DEF CreateInstance, HeldStaysLoaded, UnloadedIsQuiet,
                      threadVars
  <2>5. RefsCountTheLiving'
    BY <1>3, <2>1, <2>2, Sizes
    DEF CreateInstance, dll_add_ref, RefsCountTheLiving
  <2> QED
    BY <2>2, <2>3, <2>4, <2>5
<1>4. ASSUME NEW o \in Objects, ReleaseObject(o)  PROVE IInv'
  <2>1. /\ Cardinality(objects) > 0
        /\ Cardinality(objects') = Cardinality(objects) - 1
    BY <1>4, CountDown, LifetimeAssumption DEF ReleaseObject, TypeOK
  <2>2. Pinned' = Pinned /\ ActiveCounts' /\ ReservedIsCapped'
    BY <1>4, ThreadsAlone DEF ReleaseObject
  <2>3. TypeOK'
    BY <1>4 DEF ReleaseObject, dll_release, TypeOK, threadVars
  <2>4. HeldStaysLoaded' /\ UnloadedIsQuiet'
    BY <1>4, <2>2 DEF ReleaseObject, HeldStaysLoaded, UnloadedIsQuiet,
                      threadVars
  <2>5. RefsCountTheLiving'
    BY <1>4, <2>1, <2>2, Sizes
    DEF ReleaseObject, dll_release, RefsCountTheLiving
  <2> QED
    BY <2>2, <2>3, <2>4, <2>5
<1>5. ASSUME NEW flock \in BOOLEAN, LockServer(flock)  PROVE IInv'
  <2>1. Pinned' = Pinned /\ ActiveCounts' /\ ReservedIsCapped'
    BY <1>5, ThreadsAlone DEF LockServer
  <2>2. TypeOK'
    BY <1>5, LifetimeAssumption
    DEF LockServer, dll_add_ref, dll_release, TypeOK, threadVars
  <2>3. HeldStaysLoaded' /\ UnloadedIsQuiet'
    BY <1>5, <2>1 DEF LockServer, HeldStaysLoaded, UnloadedIsQuiet, threadVars
  <2>4. RefsCountTheLiving'
    BY <1>5, <2>1, Sizes
    DEF LockServer, dll_add_ref, dll_release, RefsCountTheLiving
  <2> QED
    BY <2>1, <2>2, <2>3, <2>4
<1>6. CASE Unload
  <2>1. Pinned' = Pinned /\ ActiveCounts' /\ ReservedIsCapped'
    BY <1>6, ThreadsAlone DEF Unload
  <2>2. TypeOK' /\ RefsCountTheLiving' /\ UnloadedIsQuiet'
    BY <1>6, <2>1 DEF Unload, TypeOK, RefsCountTheLiving, UnloadedIsQuiet,
                      hostVars, threadVars
  <2>3. HeldStaysLoaded'
    BY <1>6, <2>1, ZeroMeansNothingHeld
    DEF Unload, dll_can_unload_now, HeldStaysLoaded, hostVars
  <2> QED
    BY <2>1, <2>2, <2>3
<1> QED
  BY <1>1, <1>2, <1>3, <1>4, <1>5, <1>6, HostStep DEF HostStep

-----------------------------------------------------------------------------
(* The methods that start workers.                                         *)

\* A step that moves kind k's counter and population together, within the
\* cap, and leaves the other kinds alone preserves ActiveCounts.
LEMMA KindMoves ==
  ASSUME IInv, NEW k \in CappedKinds,
         active' \in [CappedKinds -> Nat],
         active'[k] = Cardinality(OfKind(k)'),
         active'[k] <= Cap[k],
         \A j \in CappedKinds : j # k => /\ active'[j] = active[j]
                                         /\ OfKind(j)' = OfKind(j)
  PROVE  ActiveCounts'
BY DEF IInv, ActiveCounts

\* The step of a method that moves thread w but no pin keeps the count.
LEMMA MethodInv ==
  ASSUME IInv, ~crashed, MethodStep
  PROVE  IInv'
<1> USE DEF IInv
<1>1. ASSUME NEW w \in Workers, NEW o \in Objects, NEW k \in CappedKinds,
             ReserveWorker(o, k, w)
      PROVE  IInv'
  <2>1. Pinned' = Pinned
    BY <1>1 DEF ReserveWorker, Pinned, TypeOK
  <2>2. OfKind(k)' = OfKind(k) \cup {w} /\ w \notin OfKind(k)
    BY <1>1 DEF ReserveWorker, OfKind, TypeOK
  <2>3. \A j \in CappedKinds : j # k => OfKind(j)' = OfKind(j)
    BY <1>1 DEF ReserveWorker, OfKind, TypeOK
  <2>4. Cardinality(OfKind(k)') = Cardinality(OfKind(k)) + 1
    BY <2>2, CountUp, LifetimeAssumption DEF OfKind
  <2>5. TypeOK'
    BY <1>1 DEF ReserveWorker, TypeOK, WorkerStates, Kinds, hostVars
  <2>6. ActiveCounts'
    <3>1. /\ active' = [active EXCEPT ![k] = @ + 1]
          /\ active \in [CappedKinds -> Nat]
          /\ active' \in [CappedKinds -> Nat]
          /\ active[k] < Cap[k]
      BY <1>1, <2>5 DEF ReserveWorker, PlaceFree, TypeOK
    <3>2. active'[k] = Cardinality(OfKind(k)')
      BY <2>4, <3>1 DEF ActiveCounts
    <3>3. active'[k] <= Cap[k]
      <4>1. Cap[k] \in Nat /\ active[k] \in Nat
        BY <3>1, LifetimeAssumption
      <4>2. active'[k] = active[k] + 1
        BY <3>1
      <4> QED
        BY <3>1, <4>1, <4>2
    <3>4. \A j \in CappedKinds : j # k => active'[j] = active[j]
      BY <3>1
    <3> QED
      BY <2>3, <3>1, <3>2, <3>3, <3>4, KindMoves
  <2>7. HeldStaysLoaded' /\ RefsCountTheLiving'
    BY <1>1, <2>1 DEF ReserveWorker, HeldStaysLoaded, RefsCountTheLiving,
                      hostVars
  <2>8. ReservedIsCapped' /\ UnloadedIsQuiet'
    BY <1>1 DEF ReserveWorker, ReservedIsCapped, UnloadedIsQuiet,
                HeldStaysLoaded, TypeOK
  <2> QED
    BY <2>5, <2>6, <2>7, <2>8
<1>2. ASSUME NEW w \in Workers, NEW o \in Objects,
             RunActionDetached(o, w) \/ GrabBudgeted(o, w)
      PROVE  IInv'
  <2>1. Pinned' = Pinned
    BY <1>2 DEF RunActionDetached, GrabBudgeted, Pinned, TypeOK
  <2>2. \A j \in CappedKinds : OfKind(j)' = OfKind(j)
    BY <1>2 DEF RunActionDetached, GrabBudgeted, OfKind, TypeOK, CappedKinds
  <2>3. TypeOK'
    BY <1>2 DEF RunActionDetached, GrabBudgeted, TypeOK, WorkerStates, Kinds,
                hostVars
  <2>4. ActiveCounts' /\ HeldStaysLoaded' /\ RefsCountTheLiving'
    BY <1>2, <2>1, <2>2
    DEF RunActionDetached, GrabBudgeted, ActiveCounts, HeldStaysLoaded,
        RefsCountTheLiving, hostVars
  <2>5. ReservedIsCapped' /\ UnloadedIsQuiet'
    BY <1>2 DEF RunActionDetached, GrabBudgeted, ReservedIsCapped,
                UnloadedIsQuiet, HeldStaysLoaded, TypeOK
  <2> QED
    BY <2>3, <2>4, <2>5
<1>3. ASSUME NEW w \in Workers, SpawnReserved(w)  PROVE IInv'
  <2>1. Pinned' = Pinned /\ \A j \in CappedKinds : OfKind(j)' = OfKind(j)
    BY <1>3 DEF SpawnReserved, Pinned, OfKind, TypeOK
  <2>2. TypeOK' /\ ReservedIsCapped' /\ UnloadedIsQuiet'
    BY <1>3 DEF SpawnReserved, TypeOK, WorkerStates, ReservedIsCapped,
                UnloadedIsQuiet, hostVars
  <2>3. ActiveCounts' /\ HeldStaysLoaded' /\ RefsCountTheLiving'
    BY <1>3, <2>1 DEF SpawnReserved, ActiveCounts, HeldStaysLoaded,
                      RefsCountTheLiving, hostVars
  <2> QED
    BY <2>2, <2>3
<1>4. ASSUME NEW w \in Workers, SpawnFails(w)  PROVE IInv'
  <2>0. PICK k \in CappedKinds : k = kind[w]
    BY <1>4 DEF SpawnFails, ReservedIsCapped
  <2>1. Pinned' = Pinned
    BY <1>4 DEF SpawnFails, Pinned, TypeOK
  <2>2. \A j \in CappedKinds : j # k => OfKind(j)' = OfKind(j)
    BY <1>4, <2>0 DEF SpawnFails, OfKind, TypeOK
  <2>3. HeldStaysLoaded' /\ RefsCountTheLiving'
    BY <1>4, <2>1 DEF SpawnFails, HeldStaysLoaded, RefsCountTheLiving,
                      hostVars
  <2>4. ReservedIsCapped' /\ UnloadedIsQuiet'
    BY <1>4 DEF SpawnFails, ReservedIsCapped, UnloadedIsQuiet, TypeOK
  <2>5. OfKind(k)' = OfKind(k) \ {w} /\ w \in OfKind(k)
    BY <1>4, <2>0 DEF SpawnFails, OfKind, TypeOK
  <2>6. /\ Cardinality(OfKind(k)) \in Nat /\ Cardinality(OfKind(k)) > 0
        /\ Cardinality(OfKind(k)') = Cardinality(OfKind(k)) - 1
    BY <2>5, CountDown, LifetimeAssumption DEF OfKind
  <2>7. /\ active[k] = Cardinality(OfKind(k)) /\ active[k] <= Cap[k]
        /\ active' = [active EXCEPT ![k] = @ - 1]
    BY <1>4, <2>0 DEF ActiveCounts, SpawnFails
  <2>8. TypeOK'
    BY <1>4, <2>6, <2>7 DEF SpawnFails, TypeOK, WorkerStates, hostVars
  <2>9. ActiveCounts'
    <3>1. /\ active \in [CappedKinds -> Nat]
          /\ active' \in [CappedKinds -> Nat]
      BY <2>8 DEF TypeOK
    <3>2. active'[k] = active[k] - 1 /\ Cap[k] \in Nat
      BY <2>7, <3>1, LifetimeAssumption
    <3>3. active'[k] <= Cap[k]
      BY <2>6, <2>7, <3>2
    <3>4. \A j \in CappedKinds : j # k => active'[j] = active[j]
      BY <2>7, <3>1
    <3> QED
      BY <2>2, <2>6, <2>7, <3>1, <3>2, <3>3, <3>4, KindMoves
  <2> QED
    BY <2>3, <2>4, <2>8, <2>9
<1>5. ASSUME NEW w \in Workers, CallerReturns(w)  PROVE IInv'
  <2>1. Pinned' = Pinned /\ \A j \in CappedKinds : OfKind(j)' = OfKind(j)
    BY <1>5 DEF CallerReturns, Pinned, OfKind
  <2>2. TypeOK' /\ ReservedIsCapped' /\ UnloadedIsQuiet'
    BY <1>5 DEF CallerReturns, TypeOK, ReservedIsCapped, UnloadedIsQuiet,
                hostVars
  <2>3. ActiveCounts' /\ HeldStaysLoaded' /\ RefsCountTheLiving'
    BY <1>5, <2>1 DEF CallerReturns, ActiveCounts, HeldStaysLoaded,
                      RefsCountTheLiving, hostVars
  <2> QED
    BY <2>2, <2>3
<1> QED
  BY <1>1, <1>2, <1>3, <1>4, <1>5, MethodStep DEF MethodStep

-----------------------------------------------------------------------------
(* The worker threads.                                                     *)

\* Pinning, unpinning and leaving preserve the invariant.
LEMMA ThreadInv ==
  ASSUME IInv, ~crashed, NEW w \in Workers, ThreadStep(w)
  PROVE  IInv'
<1> USE DEF IInv
<1>1. CASE PinModule(w)
  <2>1. Pinned' = Pinned \cup {w} /\ w \notin Pinned
    BY <1>1 DEF PinModule, Pinned, TypeOK
  <2>2. Cardinality(Pinned') = Cardinality(Pinned) + 1
    BY <2>1, CountUp, LifetimeAssumption DEF Pinned
  <2>3. \A j \in CappedKinds : OfKind(j)' = OfKind(j)
    BY <1>1 DEF PinModule, OfKind, TypeOK
  <2>4. loaded
    BY <1>1 DEF PinModule, UnloadedIsQuiet, TypeOK
  <2>5. TypeOK' /\ HeldStaysLoaded' /\ ActiveCounts'
    BY <1>1, <2>3, <2>4 DEF PinModule, dll_add_ref, TypeOK, WorkerStates,
                            HeldStaysLoaded, ActiveCounts, hostVars
  <2>6. RefsCountTheLiving'
    BY <1>1, <2>2, Sizes DEF PinModule, dll_add_ref, RefsCountTheLiving,
                             hostVars
  <2>7. ReservedIsCapped' /\ UnloadedIsQuiet'
    BY <1>1, <2>4 DEF PinModule, ReservedIsCapped, UnloadedIsQuiet, TypeOK
  <2> QED
    BY <2>5, <2>6, <2>7
<1>2. CASE UnpinModule(w)
  <2>1. Pinned' = Pinned \ {w} /\ w \in Pinned
    BY <1>2 DEF UnpinModule, Pinned, TypeOK
  <2>2. /\ Cardinality(Pinned) > 0
        /\ Cardinality(Pinned') = Cardinality(Pinned) - 1
    BY <2>1, CountDown, LifetimeAssumption DEF Pinned
  <2>3. \A j \in CappedKinds : OfKind(j)' = OfKind(j)
    BY <1>2 DEF UnpinModule, OfKind, TypeOK
  <2>4. TypeOK'
    BY <1>2 DEF UnpinModule, dll_release, TypeOK, WorkerStates, hostVars
  <2>5. HeldStaysLoaded' /\ ActiveCounts'
    BY <1>2, <2>1, <2>3 DEF UnpinModule, HeldStaysLoaded, ActiveCounts,
                            hostVars
  <2>6. RefsCountTheLiving'
    BY <1>2, <2>2, Sizes DEF UnpinModule, dll_release, RefsCountTheLiving,
                             hostVars
  <2>7. ReservedIsCapped' /\ UnloadedIsQuiet'
    BY <1>2, <2>1 DEF UnpinModule, ReservedIsCapped, UnloadedIsQuiet,
                      HeldStaysLoaded, TypeOK
  <2> QED
    BY <2>4, <2>5, <2>6, <2>7
<1>3. CASE ExitThread(w)
  <2>1. Pinned' = Pinned
    BY <1>3 DEF ExitThread, Pinned, TypeOK
  <2>2. \A j \in CappedKinds : j # kind[w] => OfKind(j)' = OfKind(j)
    BY <1>3 DEF ExitThread, OfKind, TypeOK
  <2>3. HeldStaysLoaded' /\ RefsCountTheLiving'
    BY <1>3, <2>1 DEF ExitThread, HeldStaysLoaded, RefsCountTheLiving,
                      hostVars
  <2>4. ReservedIsCapped' /\ UnloadedIsQuiet'
    BY <1>3 DEF ExitThread, ReservedIsCapped, UnloadedIsQuiet, TypeOK
  <2>5. ASSUME NEW k \in CappedKinds, k = kind[w]  PROVE IInv'
    <3>1. OfKind(k)' = OfKind(k) \ {w} /\ w \in OfKind(k)
      BY <1>3, <2>5 DEF ExitThread, OfKind, TypeOK
    <3>2. /\ Cardinality(OfKind(k)) \in Nat /\ Cardinality(OfKind(k)) > 0
          /\ Cardinality(OfKind(k)') = Cardinality(OfKind(k)) - 1
      BY <3>1, CountDown, LifetimeAssumption DEF OfKind
    <3>3. active' = [active EXCEPT ![k] = @ - 1] /\ active[k] > 0
      BY <1>3, <2>5, <3>2 DEF ExitThread, ActiveCounts
    <3>4. TypeOK'
      BY <1>3, <2>5, <3>3 DEF ExitThread, TypeOK, WorkerStates, hostVars
    <3>5. ActiveCounts'
      <4>1. /\ active \in [CappedKinds -> Nat]
            /\ active' \in [CappedKinds -> Nat]
        BY <3>4 DEF TypeOK
      <4>2. active[k] = Cardinality(OfKind(k)) /\ active[k] <= Cap[k]
        BY <2>5 DEF ActiveCounts
      <4>3. active'[k] = active[k] - 1 /\ Cap[k] \in Nat
        BY <2>5, <3>3, <4>1, LifetimeAssumption
      <4>4. active'[k] <= Cap[k]
        BY <2>5, <3>2, <4>2, <4>3
      <4>5. \A j \in CappedKinds : j # k => active'[j] = active[j]
        BY <3>3, <4>1
      <4> QED
        BY <2>2, <2>5, <3>2, <4>1, <4>2, <4>3, <4>4, <4>5, KindMoves
    <3> QED
      BY <2>3, <2>4, <3>4, <3>5
  <2>6. CASE kind[w] \notin CappedKinds
    <3>1. active' = active /\ TypeOK'
      BY <1>3, <2>6 DEF ExitThread, TypeOK, WorkerStates, hostVars
    <3> QED
      BY <2>2, <2>3, <2>4, <2>6, <3>1 DEF ActiveCounts
  <2> QED
    BY <2>5, <2>6
<1> QED
  BY <1>1, <1>2, <1>3, ThreadStep(w) DEF ThreadStep

-----------------------------------------------------------------------------
(* The theorems.                                                           *)

\* The inductive invariant holds in every reachable state.
THEOREM InductiveInvariant == Spec => []IInv
<1>1. Init => IInv
  <2> SUFFICES ASSUME Init PROVE IInv
    OBVIOUS
  <2>1. Pinned = {} /\ \A k \in CappedKinds : OfKind(k) = {}
    BY DEF Init, Pinned, OfKind
  <2>2. TypeOK
    <3>1. locks \in 0..MaxLocks /\ MODULE_REFS \in Nat
      BY LifetimeAssumption DEF Init
    <3>2. /\ factories \in SUBSET Factories /\ objects \in SUBSET Objects
          /\ loaded \in BOOLEAN /\ crashed \in BOOLEAN
      BY DEF Init
    <3>3. /\ worker \in [Workers -> WorkerStates]
          /\ kind \in [Workers -> Kinds]
          /\ caller \in [Workers -> Objects \cup {None}]
          /\ active \in [CappedKinds -> Nat]
      BY DEF Init, WorkerStates, Kinds
    <3> QED
      BY <3>1, <3>2, <3>3 DEF TypeOK
  <2>3. RefsCountTheLiving
    BY <2>1, FS_EmptySet DEF Init, RefsCountTheLiving
  <2>4. HeldStaysLoaded /\ ReservedIsCapped /\ UnloadedIsQuiet
    BY <2>1 DEF Init, HeldStaysLoaded, ReservedIsCapped, UnloadedIsQuiet
  <2>5. ActiveCounts
    BY <2>1, FS_EmptySet, LifetimeAssumption DEF Init, ActiveCounts
  <2> QED
    BY <2>2, <2>3, <2>4, <2>5 DEF IInv
<1>2. IInv /\ [Next]_vars => IInv'
  <2> SUFFICES ASSUME IInv, [Next]_vars PROVE IInv'
    OBVIOUS
  <2>1. CASE Next
    BY <2>1, HostInv, MethodInv, ThreadInv DEF Next
  <2>2. CASE UNCHANGED vars
    <3>1. /\ UNCHANGED threadVars
          /\ UNCHANGED <<loaded, MODULE_REFS, hostVars, crashed>>
      BY <2>2 DEF vars, threadVars, hostVars
    <3>2. ActiveCounts' /\ ReservedIsCapped' /\ Pinned' = Pinned
      BY <3>1, ThreadsAlone
    <3>3. TypeOK' /\ RefsCountTheLiving' /\ HeldStaysLoaded'
          /\ UnloadedIsQuiet'
      BY <3>1, <3>2 DEF IInv, TypeOK, RefsCountTheLiving, HeldStaysLoaded,
                        UnloadedIsQuiet, hostVars, threadVars
    <3> QED
      BY <3>2, <3>3 DEF IInv
  <2> QED
    BY <2>1, <2>2
<1> QED
  BY <1>1, <1>2, PTL DEF Spec

\* lib.rs, detached_worker_ref_blocks_unload: whatever holds a ModuleRef or a
\* lock keeps the DLL mapped.
THEOREM HeldStaysLoadedAlways == Spec => []HeldStaysLoaded
<1>1. IInv => HeldStaysLoaded
  BY DEF IInv
<1> QED
  BY <1>1, InductiveInvariant, PTL

\* The atomic count is the number of holders: no leak, no double release.
THEOREM RefsCountTheLivingAlways == Spec => []RefsCountTheLiving
<1>1. IInv => RefsCountTheLiving
  BY DEF IInv
<1> QED
  BY <1>1, InductiveInvariant, PTL

\* The caps on background decoders hold through failed spawns and timeouts.
THEOREM WorkersWithinCapAlways == Spec => []WorkersWithinCap
<1>1. IInv => WorkersWithinCap
  BY DEF IInv, ActiveCounts, WorkersWithinCap
<1> QED
  BY <1>1, InductiveInvariant, PTL

-----------------------------------------------------------------------------
(* The context menu                                                          *)

ObjectRec == [sel : SUBSET MenuFiles, eligible : BOOLEAN, job : MenuFiles \cup {NoFile},
              preview : MenuFiles \cup {NoFile}, cmd : BOOLEAN]

\* a record with the fields of NoScreen
IsScreen(s) ==
  \E it, tp, co, gr, ca, pi, fl, op :
    s = [items |-> it, tops |-> tp, consumed |-> co, granted |-> gr, caption |-> ca, picture |-> pi,
         flyout |-> fl, open |-> op]

\* what is decoded ahead, built or drawn is of the one file that is selected
OfTheSelection(f) == f # NoFile => object.sel = {f}
MenuInv ==
  /\ object \in ObjectRec
  /\ OfTheSelection(object.job)
  /\ screen.flyout = TRUE => object.preview = NoFile /\ Single(object.sel)
  /\ screen.caption # NoFile =>
       /\ OfTheSelection(screen.caption) /\ object.preview = screen.caption
       /\ screen.picture \in {screen.caption, NoFile}
  /\ IsScreen(screen)
  /\ screen.open # TRUE => screen = NoScreen

LEMMA SingleIs ==
  ASSUME NEW sel, Single(sel)
  PROVE  sel = {First(sel)}
<1>1. PICK f \in sel : sel = {f} BY DEF Single
<1>2. First(sel) \in sel BY <1>1 DEF First
<1> QED BY <1>1, <1>2

LEMMA NoScreenIs ==
  /\ IsScreen(NoScreen)
  /\ NoScreen.flyout = FALSE /\ NoScreen.caption = NoFile /\ NoScreen.open = FALSE
  BY DEF NoScreen, IsScreen

LEMMA Emptied ==
  ASSUME NEW gr
  PROVE  LET t == [NoScreen EXCEPT !.open = TRUE, !.granted = gr]
         IN  IsScreen(t) /\ t.caption = NoFile /\ t.flyout = FALSE /\ t.open = TRUE
<1>1. PICK t : t = [NoScreen EXCEPT !.open = TRUE, !.granted = gr] OBVIOUS
<1>2. t = [items |-> {}, tops |-> <<>>, consumed |-> 0, granted |-> gr, caption |-> NoFile,
           picture |-> NoFile, flyout |-> FALSE, open |-> TRUE]
  BY <1>1 DEF NoScreen
<1>3. IsScreen(t) BY <1>2, Zenon DEF IsScreen
<1>4. t.caption = NoFile /\ t.flyout = FALSE /\ t.open = TRUE BY <1>2
<1> QED BY <1>1, <1>3, <1>4

LEMMA ObjectFields ==
  ASSUME NEW o \in ObjectRec, NEW b \in BOOLEAN, NEW f \in MenuFiles \cup {NoFile}
  PROVE  LET r == [Reset(o) EXCEPT !.cmd = b]
             q == [o EXCEPT !.preview = f, !.job = NoFile]
         IN  /\ r \in ObjectRec /\ r.preview = NoFile /\ r.sel = o.sel /\ r.job = o.job
             /\ q \in ObjectRec /\ q.preview = f /\ q.sel = o.sel /\ q.job = NoFile
  BY DEF ObjectRec, Reset

LEMMA MenuInitInv == MenuInit => MenuInv
<1> SUFFICES ASSUME MenuInit PROVE MenuInv OBVIOUS
<1>1. object = NewObject /\ screen = NoScreen BY DEF MenuInit
<1>2. object \in ObjectRec BY <1>1 DEF NewObject, ObjectRec
<1>3. object.job = NoFile BY <1>1 DEF NewObject
<1> QED BY <1>1, <1>2, <1>3, NoScreenIs DEF MenuInv, OfTheSelection

LEMMA InitializesKeeps == ASSUME MenuInv, HostInitializes PROVE MenuInv'
<1>1. ~screen.open /\ UNCHANGED screen BY DEF HostInitializes
<1>2. screen = NoScreen BY <1>1 DEF MenuInv
<1>3. PICK sel \in Selections, fits \in BOOLEAN, free \in BOOLEAN : Initialize(sel, fits, free)
  BY DEF HostInitializes
<1>4. PICK ok : ok = (stored.on /\ stored.mode # 0 /\ Single(sel) /\ any_image(sel) /\ fits) OBVIOUS
<1>5. PICK job : job = IF ok /\ stored.mode = 2 /\ free THEN First(sel) ELSE NoFile OBVIOUS
<1>6. object' = [object EXCEPT !.sel = sel, !.eligible = ok, !.job = job] BY <1>3, <1>4, <1>5 DEF Initialize
<1>7. sel \in SUBSET MenuFiles BY MenuAssumption
<1>8. ok \in BOOLEAN BY <1>4
<1>9. job = NoFile \/ sel = {job} BY <1>4, <1>5, SingleIs
<1>10. job \in MenuFiles \cup {NoFile} BY <1>7, <1>9
<1>11. object' \in ObjectRec BY <1>6, <1>7, <1>8, <1>10 DEF MenuInv, ObjectRec
<1>12. object'.sel = sel /\ object'.job = job BY <1>6 DEF MenuInv, ObjectRec
<1> QED BY <1>1, <1>2, <1>9, <1>11, <1>12, NoScreenIs DEF MenuInv, OfTheSelection

LEMMA PictureIs ==
  ASSUME NEW o \in ObjectRec, Single(o.sel), o.job # NoFile => o.sel = {o.job}, NEW p \in PictureOf(o)
  PROVE  p \in {First(o.sel), NoFile} /\ First(o.sel) \in MenuFiles /\ o.sel = {First(o.sel)}
<1>1. o.sel = {First(o.sel)} BY SingleIs
<1>2. o.sel \subseteq MenuFiles BY DEF ObjectRec
<1> QED BY <1>1, <1>2 DEF PictureOf

LEMMA QueryKeeps == ASSUME MenuInv, NEW granted, QueryContextMenu(granted) PROVE MenuInv'
<1> DEFINE sel == object.sel
           budget == IF granted < Len(leaves) THEN granted ELSE Len(leaves)
           fits == stored.mode # 0 /\ Single(sel) /\ any_image(sel) /\ granted > Len(leaves) /\ object.eligible
           quick == IF stored.quick /\ any_image(sel) /\ ~audio_only(sel)
                    THEN {i \in DOMAIN MENU : MENU[i].key \in QUICK_KEYS} ELSE {}
           drawn == DOMAIN MENU \cap (quick \cup ToSet(TopLevel(sel)))
           tree == UNION {build_menu_into(i, budget, sel) : i \in drawn}
           made == [NoScreen EXCEPT !.items = tree, !.tops = ClassicTops(sel), !.open = TRUE,
                                    !.flyout = (fits /\ stored.mode = 1), !.granted = granted,
                                    !.consumed = budget + (IF fits THEN 1 ELSE 0)]
           reset == [Reset(object) EXCEPT !.cmd = fits]
<1>1. /\ ~screen.open
      /\ IF ~Adds(sel) \/ budget = 0
         THEN object' = object /\ screen' = [NoScreen EXCEPT !.open = TRUE, !.granted = granted]
         ELSE IF fits /\ stored.mode = 2
         THEN \E p \in PictureOf(reset) :
                 /\ object' = [reset EXCEPT !.preview = First(sel), !.job = NoFile]
                 /\ screen' = [made EXCEPT !.caption = First(sel), !.picture = p]
         ELSE object' = reset /\ screen' = made
  BY Zenon DEF QueryContextMenu
<1>2. PICK slot \in BOOLEAN : slot = fits OBVIOUS
<1>3. slot => Single(object.sel) BY <1>2
<1>4. PICK o : o = reset OBVIOUS
<1>5. o = [Reset(object) EXCEPT !.cmd = slot] BY <1>2, <1>4
<1>6. PICK menu : menu = made OBVIOUS
<1>7. /\ IsScreen(menu) /\ menu.caption = NoFile /\ menu.flyout = (slot /\ stored.mode = 1)
       /\ menu.open = TRUE
  <2>1. PICK it : it = tree OBVIOUS
  <2>2. PICK fl : fl = (fits /\ stored.mode = 1) OBVIOUS
  <2>3. PICK co : co = budget + (IF fits THEN 1 ELSE 0) OBVIOUS
  <2>4. menu = [NoScreen EXCEPT !.items = it, !.tops = ClassicTops(sel), !.open = TRUE, !.flyout = fl,
                                !.granted = granted, !.consumed = co]
    BY <1>6, <2>1, <2>2, <2>3
  <2> HIDE DEF tree, budget, fits
  <2>5. IsScreen(menu) /\ menu.caption = NoFile /\ menu.flyout = fl /\ menu.open = TRUE
    BY <2>4 DEF IsScreen, NoScreen
  <2> QED BY <1>2, <2>2, <2>5
<1> HIDE DEF budget, quick, drawn, tree, made, reset, fits
<1>8. object \in ObjectRec /\ OfTheSelection(object.job) BY DEF MenuInv
<1>9. o \in ObjectRec /\ o.preview = NoFile /\ o.sel = object.sel /\ o.job = object.job
  BY <1>5, <1>8, ObjectFields
<1>10. CASE object' = object /\ screen' = [NoScreen EXCEPT !.open = TRUE, !.granted = granted]
  <2>1. /\ IsScreen(screen') /\ screen'.caption = NoFile /\ screen'.flyout = FALSE /\ screen'.open = TRUE
    BY <1>10, Emptied
  <2> QED BY <1>8, <1>10, <2>1 DEF MenuInv, OfTheSelection
<1>11. CASE object' = o /\ screen' = menu
  <2>1. object' \in ObjectRec /\ OfTheSelection(object.job)' BY <1>8, <1>9, <1>11 DEF OfTheSelection
  <2>2. screen'.flyout = TRUE => object'.preview = NoFile /\ Single(object'.sel)
    BY <1>3, <1>9, <1>7, <1>11
  <2> QED BY <1>7, <1>11, <2>1, <2>2 DEF MenuInv
<1>12. CASE /\ slot /\ stored.mode = 2
            /\ \E p \in PictureOf(o) :
                 /\ object' = [o EXCEPT !.preview = First(object.sel), !.job = NoFile]
                 /\ screen' = [menu EXCEPT !.caption = First(object.sel), !.picture = p]
  <2>1. PICK p \in PictureOf(o) :
                 /\ object' = [o EXCEPT !.preview = First(object.sel), !.job = NoFile]
                 /\ screen' = [menu EXCEPT !.caption = First(object.sel), !.picture = p]
    BY <1>12
  <2>2. PICK f : f = First(object.sel) OBVIOUS
  <2>3. p \in {f, NoFile} /\ f \in MenuFiles /\ object.sel = {f}
    BY <1>3, <1>8, <1>9, <1>12, <2>1, <2>2, PictureIs DEF OfTheSelection
  <2>4. object' \in ObjectRec /\ object'.preview = f /\ object'.sel = object.sel /\ object'.job = NoFile
    BY <1>9, <2>1, <2>2, <2>3, ObjectFields
  <2>5. /\ IsScreen(screen') /\ screen'.caption = f /\ screen'.picture = p /\ screen'.flyout = FALSE
        /\ screen'.open = TRUE
    <3>1. screen' = [menu EXCEPT !.caption = f, !.picture = p] BY <2>1, <2>2
    <3>2. PICK t : t = screen' OBVIOUS
    <3>3. IsScreen(menu) BY <1>7
    <3>4. PICK it, tp, co, gr, ca, pi, fl, op :
            menu = [items |-> it, tops |-> tp, consumed |-> co, granted |-> gr, caption |-> ca,
                    picture |-> pi, flyout |-> fl, open |-> op]
      BY <3>3 DEF IsScreen
    <3>5. t = [items |-> it, tops |-> tp, consumed |-> co, granted |-> gr, caption |-> f,
               picture |-> p, flyout |-> fl, open |-> op]
      BY <3>1, <3>2, <3>4
    <3>6. IsScreen(t) BY <3>5, Zenon DEF IsScreen
    <3>7. menu.flyout = FALSE /\ menu.open = TRUE
      <4>1. (slot /\ stored.mode = 1) = FALSE
        <5>1. stored.mode # 1 BY <1>12
        <5> QED BY <5>1
      <4> QED BY <1>7, <4>1
    <3>8. fl = FALSE /\ op = TRUE BY <3>4, <3>7
    <3>9. t.caption = f /\ t.picture = p /\ t.flyout = FALSE /\ t.open = TRUE BY <3>5, <3>8
    <3> QED BY <3>2, <3>6, <3>9
  <2> QED BY <2>3, <2>4, <2>5 DEF MenuInv, OfTheSelection
<1> QED BY <1>1, <1>2, <1>4, <1>6, <1>10, <1>11, <1>12

LEMMA FlyoutKeeps == ASSUME MenuInv, FlyoutOpens PROVE MenuInv'
<1>1. object \in ObjectRec /\ OfTheSelection(object.job) /\ IsScreen(screen) BY DEF MenuInv
<1>2. screen.open = TRUE
  <2>1. screen.flyout = TRUE \/ screen.caption # NoFile BY DEF FlyoutOpens
  <2>2. CASE screen.open # TRUE
    <3>1. screen = NoScreen BY <2>2 DEF MenuInv
    <3> QED BY <2>1, <3>1, NoScreenIs
  <2> QED BY <2>2
<1>3. CASE object.preview # NoFile
  <2>1. screen.flyout # TRUE BY <1>3 DEF MenuInv
  <2>2. screen.caption # NoFile BY <2>1 DEF FlyoutOpens
  <2>3. object.preview = screen.caption /\ OfTheSelection(screen.caption)
        /\ screen.picture \in {screen.caption, NoFile}
    BY <2>2 DEF MenuInv
  <2>4. PICK f : f = screen.caption OBVIOUS
  <2>5. object' = object /\ screen' = [screen EXCEPT !.flyout = FALSE, !.caption = f]
    BY <1>3, <2>3, <2>4 DEF FlyoutOpens
  <2>6. /\ IsScreen(screen') /\ screen'.caption = f /\ screen'.picture = screen.picture
        /\ screen'.flyout = FALSE /\ screen'.open = screen.open
    BY <1>1, <2>5 DEF IsScreen
  <2> QED BY <1>1, <1>2, <2>3, <2>4, <2>5, <2>6 DEF MenuInv, OfTheSelection
<1>4. CASE object.preview = NoFile
  <2>1. Single(object.sel)
    <3>1. CASE screen.flyout = TRUE BY <3>1 DEF MenuInv
    <3>2. CASE screen.flyout # TRUE BY <1>4, <3>2 DEF MenuInv, FlyoutOpens
    <3> QED BY <3>1, <3>2
  <2>2. PICK f : f = First(object.sel) OBVIOUS
  <2>3. PICK p \in PictureOf(object) :
          /\ object' = [object EXCEPT !.preview = f, !.job = NoFile]
          /\ screen' = [screen EXCEPT !.flyout = FALSE, !.caption = f, !.picture = p]
    BY <1>4, <2>2 DEF FlyoutOpens
  <2>4. p \in {f, NoFile} /\ f \in MenuFiles /\ object.sel = {f}
    BY <1>1, <2>1, <2>2, <2>3, PictureIs DEF OfTheSelection
  <2>5. object' \in ObjectRec /\ object'.preview = f /\ object'.sel = object.sel /\ object'.job = NoFile
    BY <1>1, <2>3, <2>4, ObjectFields
  <2>6. /\ IsScreen(screen') /\ screen'.caption = f /\ screen'.picture = p /\ screen'.flyout = FALSE
        /\ screen'.open = screen.open
    BY <1>1, <2>3 DEF IsScreen
  <2> QED BY <1>2, <2>4, <2>5, <2>6 DEF MenuInv, OfTheSelection
<1> QED BY <1>3, <1>4

\* a menu that goes, and steps that touch neither it nor the object
LEMMA GoesKeeps == ASSUME MenuInv, screen' = NoScreen, UNCHANGED object PROVE MenuInv'
  BY NoScreenIs DEF MenuInv, OfTheSelection
LEMMA MenuRestKeeps == ASSUME MenuInv, UNCHANGED <<screen, object>> PROVE MenuInv'
  BY DEF MenuInv, OfTheSelection

LEMMA MenuInvKept == MenuInv /\ [MenuNext]_menuVars => MenuInv'
<1> SUFFICES ASSUME MenuInv, [MenuNext]_menuVars PROVE MenuInv' OBVIOUS
<1>1. CASE SettingsChange BY <1>1, MenuRestKeeps DEF SettingsChange
<1>2. CASE HostInitializes BY <1>2, InitializesKeeps
<1>3. CASE \E g \in Grants : QueryContextMenu(g) BY <1>3, QueryKeeps
<1>4. CASE FlyoutOpens BY <1>4, FlyoutKeeps
<1>5. CASE InvokeCommand BY <1>5, GoesKeeps DEF InvokeCommand
<1>6. CASE Dismissed BY <1>6, GoesKeeps DEF Dismissed
<1>7. CASE UNCHANGED menuVars BY <1>7, MenuRestKeeps DEF menuVars
<1> QED BY <1>1, <1>2, <1>3, <1>4, <1>5, <1>6, <1>7 DEF MenuNext

(* PreviewIsTheSelection, for any files, selections, settings and ids: the   *)
(* preview on the menu is of the one file selected, also when the object was *)
(* initialised again while a decode for an earlier selection was running.    *)
THEOREM PreviewIsTheSelectionAlways == MenuSpec => []PreviewIsTheSelection
<1>1. MenuInit => MenuInv BY MenuInitInv
<1>2. MenuInv /\ [MenuNext]_menuVars => MenuInv' BY MenuInvKept
<1>3. MenuInv => PreviewIsTheSelection BY DEF MenuInv, OfTheSelection, PreviewIsTheSelection
<1> QED BY <1>1, <1>2, <1>3, PTL DEF MenuSpec

-----------------------------------------------------------------------------
(* The ids of the context menu                                               *)

-----------------------------------------------------------------------------
Lists(s) == \E n \in Nat : s \in [1..n -> {s[k] : k \in 1..n}]

LEMMA NoneListed == Lists(<<>>)
<1>1. <<>> \in [1..0 -> {<<>>[k] : k \in 1..0}] OBVIOUS
<1> QED BY <1>1 DEF Lists
LEMMA UpToFive ==
  ASSUME NEW a, NEW b, NEW c, NEW d, NEW e
  PROVE  /\ Lists(<<a>>) /\ Lists(<<a, b>>) /\ Lists(<<a, b, c>>) /\ Lists(<<a, b, c, d>>)
         /\ Lists(<<a, b, c, d, e>>)
  <1>1. PICK s : s = <<a>> OBVIOUS
  <1>2. s \in [1..1 -> {s[k] : k \in 1..1}] BY <1>1
  <1>3. PICK t : t = <<a, b>> OBVIOUS
  <1>4. t \in [1..2 -> {t[k] : k \in 1..2}] BY <1>3
  <1>5. PICK u : u = <<a, b, c>> OBVIOUS
  <1>6. u \in [1..3 -> {u[k] : k \in 1..3}] BY <1>5
  <1>7. PICK v : v = <<a, b, c, d>> OBVIOUS
  <1>8. v \in [1..4 -> {v[k] : k \in 1..4}] BY <1>7
  <1>9. PICK w : w = <<a, b, c, d, e>> OBVIOUS
  <1>10. w \in [1..5 -> {w[k] : k \in 1..5}] BY <1>9
  <1>11. {1, 2, 3, 4, 5} \subseteq Nat OBVIOUS
  <1>12. Lists(s) /\ Lists(t) /\ Lists(u) /\ Lists(v) /\ Lists(w)
    BY <1>2, <1>4, <1>6, <1>8, <1>10, <1>11, Zenon DEF Lists
  <1> QED BY <1>1, <1>3, <1>5, <1>7, <1>9, <1>12

LEMMA Ten ==
  ASSUME NEW a, NEW b, NEW c, NEW d, NEW e, NEW f, NEW g, NEW h, NEW i, NEW j
  PROVE  Lists(<<a, b, c, d, e, f, g, h, i, j>>)
  <1>1. PICK s : s = <<a, b, c, d, e, f, g, h, i, j>> OBVIOUS
  <1>2. s \in [1..10 -> {s[k] : k \in 1..10}] BY <1>1
  <1>3. Lists(s) BY <1>2, Zenon DEF Lists
  <1> QED BY <1>1, <1>3

LEMMA ItemsList ==
  /\ \A k, vs : Group(k, vs).verbs = vs
  /\ \A k : Verb(k).verbs = <<k>>
  /\ Separator.verbs = <<>>
  BY DEF Group, Verb, Separator

LEMMA MenuLists == Len(MENU) = 24 /\ DOMAIN MENU = 1..24 /\ \A i \in 1..24 : Lists(MENU[i].verbs)
<1>1. Len(MENU) = 24 /\ DOMAIN MENU = 1..24 BY DEF MENU
<1>2. ASSUME NEW k, NEW a, NEW b, NEW c, NEW d, NEW e
      PROVE  /\ Lists(Group(k, <<a, b>>).verbs) /\ Lists(Group(k, <<a, b, c>>).verbs)
             /\ Lists(Group(k, <<a, b, c, d>>).verbs) /\ Lists(Group(k, <<a, b, c, d, e>>).verbs)
  <2>1. /\ Lists(<<a, b>>) /\ Lists(<<a, b, c>>) /\ Lists(<<a, b, c, d>>) /\ Lists(<<a, b, c, d, e>>)
    BY UpToFive
  <2>2. \A vs : Lists(vs) => Lists(Group(k, vs).verbs) BY ItemsList
  <2> QED BY <2>1, <2>2, Zenon
<1>3. ASSUME NEW k, NEW a, NEW b, NEW c, NEW d, NEW e, NEW f, NEW g, NEW h, NEW i, NEW j
      PROVE  Lists(Group(k, <<a, b, c, d, e, f, g, h, i, j>>).verbs)
  BY ItemsList, Ten
<1>4. Lists(Group("convert_into", <<"png", "jpg", "webp", "webp_lossless", "avif", "bmp", "gif", "tiff", "ico", "lep">>).verbs)
  BY <1>3, Zenon
<1>5. Lists(Group("resize", <<"1080", "720", "600", "50%", "25%">>).verbs) BY <1>2, Zenon
<1>6. Lists(Group("email", <<"small", "medium", "large">>).verbs) BY <1>2, Zenon
<1>7. Lists(Group("rotate", <<"right", "left", "180", "flip_h", "flip_v">>).verbs) BY <1>2, Zenon
<1>8. Lists(Group("rename", <<"date", "camera", "artist_title", "track_title">>).verbs) BY <1>2, Zenon
<1>9. Lists(Group("sort", <<"dimensions", "tags">>).verbs) BY <1>2, Zenon
<1>10. Lists(Group("wallpaper", <<"stretch", "tile", "center">>).verbs) BY <1>2, Zenon
<1>11. \A k : Lists(Verb(k).verbs) BY ItemsList, UpToFive
<1>12. Lists(Separator.verbs) BY ItemsList, NoneListed
<1>13. \A i \in 1..24 : Lists(MENU[i].verbs)
  BY <1>4, <1>5, <1>6, <1>7, <1>8, <1>9, <1>10, <1>11, <1>12 DEF MENU
<1> QED BY <1>1, <1>13

\* An item that bears the id of its place in the tree runs its title.
LEMMA TreeIds ==
    ASSUME NEW i \in DOMAIN MENU, NEW n \in DOMAIN MENU[i].verbs
    PROVE  /\ StartOf[i] \in Nat /\ n \in Nat /\ n > 0 /\ Len(leaves) \in Nat
           /\ StartOf[i] + n <= Len(leaves) /\ leaves[StartOf[i] + n] = MENU[i].verbs[n]
<1> DEFINE V == [k \in DOMAIN MENU |-> MENU[k].verbs]
           S == UNION {{MENU[k].verbs[l] : l \in DOMAIN MENU[k].verbs} : k \in 1..24}
<1>1. DOMAIN MENU = 1..24 BY MenuLists
<1>2. \A k \in 1..24 : MENU[k].verbs \in Seq(S)
  <2> SUFFICES ASSUME NEW k \in 1..24 PROVE MENU[k].verbs \in Seq(S) OBVIOUS
  <2>1. PICK s : s = MENU[k].verbs OBVIOUS
  <2>2. PICK m \in Nat : s \in [1..m -> {s[l] : l \in 1..m}] BY <2>1, MenuLists DEF Lists
  <2>3. DOMAIN s = 1..m BY <2>2
  <2>4. \A l \in 1..m : s[l] \in S
    <3>1. {MENU[k].verbs[l] : l \in DOMAIN MENU[k].verbs} \subseteq S BY Zenon
    <3>2. \A l \in 1..m : s[l] \in {MENU[k].verbs[j] : j \in DOMAIN MENU[k].verbs} BY <2>1, <2>3, Zenon
    <3> QED BY <3>1, <3>2, Zenon
  <2>5. PICK T : T = S OBVIOUS
  <2>6. s \in [1..m -> T] BY <2>2, <2>4, <2>5
  <2>7. s \in Seq(T) BY <2>6
  <2> QED BY <2>1, <2>5, <2>7
<1> HIDE DEF S
<1>3. V \in Seq(Seq(S)) /\ Len(V) = 24
  <2>1. V \in [1..24 -> Seq(S)] BY <1>1, <1>2
  <2> QED BY <2>1
<1>4. i \in 1..Len(V) /\ V[i] = MENU[i].verbs BY <1>1, <1>3
<1>5. n \in 1..Len(V[i])
  <2>1. V[i] \in Seq(S) BY <1>1, <1>2, <1>4
  <2> QED BY <1>4, <2>1
<1>6. leaves = FlattenSeq(V) BY DEF leaves
<1>7. StartOf[i] = Len(FlattenSeq([k \in 1..i - 1 |-> V[k]]))
  <2>1. StartOf[i] = Len(FlattenSeq([k \in 1..i - 1 |-> MENU[k].verbs])) BY DEF StartOf
  <2>2. \A k \in 1..i - 1 : V[k] = MENU[k].verbs BY <1>1
  <2>3. [k \in 1..i - 1 |-> MENU[k].verbs] = [k \in 1..i - 1 |-> V[k]] BY <2>2
  <2> QED BY <2>1, <2>3
<1> HIDE DEF V
<1>8. PICK start : start = Len(FlattenSeq([k \in 1..i - 1 |-> V[k]])) OBVIOUS
<1>9. start \in Nat /\ start + n \in 1..Len(FlattenSeq(V)) /\ FlattenSeq(V)[start + n] = V[i][n]
  BY <1>3, <1>4, <1>5, <1>8, FlattenPlaces
<1>10. Len(V[i]) \in Nat
  <2>1. V[i] \in Seq(S)
    <3>1. PICK T : T = Seq(S) OBVIOUS
    <3>2. V \in Seq(T) BY <1>3, <3>1
    <3>3. V[i] \in T BY <1>4, <3>2
    <3> QED BY <3>1, <3>3
  <2> QED BY <2>1
<1>11. n \in Nat /\ n > 0 BY <1>5, <1>10
<1>12. Len(leaves) \in Nat BY <1>6, <1>9
<1> QED BY <1>4, <1>6, <1>7, <1>8, <1>9, <1>11, <1>12

\* What a query puts on the screen: items by their places, and the preview as
\* one id more if there is room for it.
Budget(granted) == IF granted < Len(leaves) THEN granted ELSE Len(leaves)
Draws(granted, slot) ==
  /\ slot => granted > Len(leaves)
  /\ object'.cmd = slot
  /\ \A it \in screen'.items :
       \E i \in DOMAIN MENU : it \in build_menu_into(i, Budget(granted), object.sel)
  /\ screen'.granted = granted /\ screen'.consumed = Budget(granted) + (IF slot THEN 1 ELSE 0)
  /\ screen'.flyout = TRUE \/ screen'.caption # NoFile => slot

LEMMA QueryShows ==
  ASSUME MenuInv, NEW granted, QueryContextMenu(granted)
  PROVE  \/ screen' = [NoScreen EXCEPT !.open = TRUE, !.granted = granted]
         \/ \E slot \in BOOLEAN : Draws(granted, slot)
<1> DEFINE sel == object.sel
           budget == IF granted < Len(leaves) THEN granted ELSE Len(leaves)
           fits == stored.mode # 0 /\ Single(sel) /\ any_image(sel) /\ granted > Len(leaves) /\ object.eligible
           quick == IF stored.quick /\ any_image(sel) /\ ~audio_only(sel)
                    THEN {i \in DOMAIN MENU : MENU[i].key \in QUICK_KEYS} ELSE {}
           drawn == DOMAIN MENU \cap (quick \cup ToSet(TopLevel(sel)))
           tree == UNION {build_menu_into(i, budget, sel) : i \in drawn}
           made == [NoScreen EXCEPT !.items = tree, !.tops = ClassicTops(sel), !.open = TRUE,
                                    !.flyout = (fits /\ stored.mode = 1), !.granted = granted,
                                    !.consumed = budget + (IF fits THEN 1 ELSE 0)]
           reset == [Reset(object) EXCEPT !.cmd = fits]
<1>1. /\ ~screen.open
      /\ IF ~Adds(sel) \/ budget = 0
         THEN object' = object /\ screen' = [NoScreen EXCEPT !.open = TRUE, !.granted = granted]
         ELSE IF fits /\ stored.mode = 2
         THEN \E p \in PictureOf(reset) :
                 /\ object' = [reset EXCEPT !.preview = First(sel), !.job = NoFile]
                 /\ screen' = [made EXCEPT !.caption = First(sel), !.picture = p]
         ELSE object' = reset /\ screen' = made
  BY Zenon DEF QueryContextMenu
<1>2. PICK slot \in BOOLEAN : slot = fits OBVIOUS
<1>3. slot => granted > Len(leaves) BY <1>2
<1>4. \A it \in tree : \E i \in DOMAIN MENU : it \in build_menu_into(i, budget, sel) OBVIOUS
<1>5. PICK bu, it, co, fl : bu = budget /\ it = tree /\ co = budget + (IF fits THEN 1 ELSE 0)
                            /\ fl = (fits /\ stored.mode = 1)
  OBVIOUS
<1>6. PICK menu : menu = made OBVIOUS
<1>7. menu = [NoScreen EXCEPT !.items = it, !.tops = ClassicTops(sel), !.open = TRUE, !.flyout = fl,
                              !.granted = granted, !.consumed = co]
  BY <1>5, <1>6
<1>8. PICK o : o = reset OBVIOUS
<1>9. o = [Reset(object) EXCEPT !.cmd = slot] BY <1>2, <1>8
<1>10. (fl = TRUE => slot) /\ co = bu + (IF slot THEN 1 ELSE 0)
       /\ bu = Budget(granted)
  BY <1>2, <1>5 DEF Budget
<1>11. \A x \in it : \E i \in DOMAIN MENU : x \in build_menu_into(i, bu, object.sel) BY <1>4, <1>5
<1> HIDE DEF budget, quick, drawn, tree, made, reset, fits
<1>12. menu.items = it /\ menu.granted = granted /\ menu.consumed = co /\ menu.flyout = fl /\ menu.caption = NoFile
  BY <1>7 DEF NoScreen
<1>13. object \in ObjectRec BY DEF MenuInv
<1>14. o \in ObjectRec /\ o.cmd = slot BY <1>9, <1>13 DEF ObjectRec, Reset
<1>15. CASE screen' = [NoScreen EXCEPT !.open = TRUE, !.granted = granted] BY <1>15
<1>16. CASE object' = o /\ screen' = menu
  <2>1. /\ object'.cmd = slot /\ screen'.items = it /\ screen'.granted = granted /\ screen'.consumed = co
        /\ screen'.flyout = TRUE \/ screen'.caption # NoFile => slot
    BY <1>10, <1>12, <1>14, <1>16
  <2>2. Draws(granted, slot) BY <1>3, <1>10, <1>11, <2>1 DEF Draws
  <2> QED BY <1>2, <2>2
<1>17. CASE /\ slot /\ stored.mode = 2
            /\ \E p \in PictureOf(o) :
                 /\ object' = [o EXCEPT !.preview = First(object.sel), !.job = NoFile]
                 /\ screen' = [menu EXCEPT !.caption = First(object.sel), !.picture = p]
  <2>1. PICK p \in PictureOf(o) :
                 /\ object' = [o EXCEPT !.preview = First(object.sel), !.job = NoFile]
                 /\ screen' = [menu EXCEPT !.caption = First(object.sel), !.picture = p]
    BY <1>17
  <2>2. object'.cmd = slot BY <1>14, <2>1 DEF ObjectRec
  <2>3. screen'.items = it /\ screen'.granted = granted /\ screen'.consumed = co
    <3>1. PICK f : f = First(object.sel) OBVIOUS
    <3>2. screen' = [menu EXCEPT !.caption = f, !.picture = p] BY <2>1, <3>1
    <3>3. screen'.items = menu.items /\ screen'.granted = menu.granted /\ screen'.consumed = menu.consumed
      BY <1>7, <3>2 DEF NoScreen
    <3> QED BY <1>12, <3>3
  <2>4. Draws(granted, slot) BY <1>3, <1>10, <1>11, <1>17, <2>2, <2>3 DEF Draws
  <2> QED BY <1>2, <2>4
<1> QED BY <1>1, <1>2, <1>6, <1>8, <1>15, <1>16, <1>17

\* what an item says is what its id is looked up as
Runs(it, claimed) ==
  /\ it.offset \in Nat /\ it.offset < claimed /\ it.offset < Len(leaves)
  /\ leaves[it.offset + 1] = it.verb
ClaimsIds(s) ==
  /\ s.consumed \in Nat /\ s.granted \in Nat /\ s.consumed <= s.granted
  /\ \A it \in s.items : Runs(it, s.consumed)
Previews(s) == s.flyout = TRUE \/ s.caption # NoFile

ClickInv ==
  /\ MenuInv /\ ClaimsIds(screen)
  /\ Previews(screen) => object.cmd = TRUE /\ screen.consumed = Len(leaves) + 1
  /\ click.said = click.did

LEMMA ItemsRun ==
  ASSUME NEW i \in DOMAIN MENU, NEW budget \in Nat, NEW sel, NEW it \in build_menu_into(i, budget, sel)
  PROVE  \A claimed \in Nat : budget <= claimed => Runs(it, claimed)
<1>1. PICK n \in DOMAIN MENU[i].verbs :
        StartOf[i] + n <= budget /\ it = Item(MENU[i].verbs[n], StartOf[i] + n - 1)
  BY DEF build_menu_into
<1>2. /\ StartOf[i] \in Nat /\ n \in Nat /\ n > 0 /\ Len(leaves) \in Nat
      /\ StartOf[i] + n <= Len(leaves) /\ leaves[StartOf[i] + n] = MENU[i].verbs[n]
  BY TreeIds
<1>3. PICK v, x : v = MENU[i].verbs[n] /\ x = StartOf[i] + n - 1 OBVIOUS
<1>4. it.offset = x /\ it.verb = v BY <1>1, <1>3 DEF Item
<1>5. x \in Nat /\ x < budget /\ x < Len(leaves) /\ x + 1 = StartOf[i] + n BY <1>1, <1>2, <1>3
<1>6. leaves[x + 1] = v BY <1>2, <1>3, <1>5
<1> QED BY <1>2, <1>4, <1>5, <1>6 DEF Runs

LEMMA LeavesCount == Len(leaves) \in Nat
<1>1. 2 \in DOMAIN MENU /\ 1 \in DOMAIN MENU[2].verbs BY MenuLists DEF MENU, Verb
<1> QED BY <1>1, TreeIds

LEMMA NoScreenClaims == ClaimsIds(NoScreen) /\ ~Previews(NoScreen)
  BY DEF NoScreen, ClaimsIds, Previews

LEMMA MenuStarts == MenuInit => ClickInv
<1> SUFFICES ASSUME MenuInit PROVE ClickInv OBVIOUS
<1>1. screen = NoScreen /\ click = NoClick BY DEF MenuInit
<1> QED BY <1>1, MenuInitInv, NoScreenClaims DEF ClickInv, NoClick

LEMMA QueryClicks == ASSUME ClickInv, NEW granted \in Nat, QueryContextMenu(granted) PROVE ClickInv'
<1>1. MenuInv' BY QueryKeeps DEF ClickInv
<1>2. click'.said = click'.did BY DEF QueryContextMenu, NoClick
<1>3. CASE screen' = [NoScreen EXCEPT !.open = TRUE, !.granted = granted]
  <2>1. PICK s : s = [NoScreen EXCEPT !.open = TRUE, !.granted = granted] OBVIOUS
  <2>2. ClaimsIds(s) /\ ~Previews(s) BY <2>1 DEF NoScreen, ClaimsIds, Previews
  <2>3. screen' = s BY <1>3, <2>1
  <2> QED BY <1>1, <1>2, <2>2, <2>3 DEF ClickInv, ClaimsIds, Previews
<1>4. ASSUME NEW slot \in BOOLEAN, Draws(granted, slot) PROVE ClickInv'
  <2> DEFINE budget == Budget(granted)
  <2>1. /\ slot => granted > Len(leaves)
        /\ object'.cmd = slot
        /\ \A it \in screen'.items : \E i \in DOMAIN MENU : it \in build_menu_into(i, budget, object.sel)
        /\ screen'.granted = granted /\ screen'.consumed = budget + (IF slot THEN 1 ELSE 0)
        /\ screen'.flyout = TRUE \/ screen'.caption # NoFile => slot
    BY <1>4 DEF Draws
  <2>2. /\ budget \in Nat /\ screen'.consumed \in Nat /\ budget <= screen'.consumed
        /\ screen'.consumed <= granted /\ (slot => screen'.consumed = Len(leaves) + 1)
    <3>1. PICK c, m : m \in Nat /\ c = screen'.consumed /\ m = Len(leaves) BY LeavesCount
    <3>2. budget \in Nat /\ budget <= granted /\ budget <= m /\ (granted > m => budget = m) BY <3>1 DEF Budget
    <3> HIDE DEF budget
    <3>3. CASE slot
      <4>1. granted > m /\ c = budget + 1 BY <2>1, <3>1, <3>3
      <4> QED BY <3>1, <3>2, <4>1
    <3>4. CASE ~slot
      <4>1. c = budget + 0 BY <2>1, <3>1, <3>4
      <4> QED BY <3>1, <3>2, <3>4, <4>1
    <3> QED BY <3>3, <3>4
  <2> HIDE DEF budget
  <2>3. \A it \in screen'.items : Runs(it, screen'.consumed)
    <3> SUFFICES ASSUME NEW it \in screen'.items PROVE Runs(it, screen'.consumed) OBVIOUS
    <3>1. PICK i \in DOMAIN MENU : it \in build_menu_into(i, budget, object.sel) BY <2>1
    <3> QED BY <2>2, <3>1, ItemsRun
  <2>4. ClaimsIds(screen') BY <2>1, <2>2, <2>3 DEF ClaimsIds
  <2>5. Previews(screen') => object'.cmd = TRUE /\ screen'.consumed = Len(leaves) + 1
    BY <2>1, <2>2 DEF Previews
  <2> QED BY <1>1, <1>2, <2>4, <2>5 DEF ClickInv, ClaimsIds, Previews, Runs
<1> QED BY <1>3, <1>4, QueryShows DEF ClickInv

LEMMA FlyoutClicks == ASSUME ClickInv, FlyoutOpens PROVE ClickInv'
<1>1. MenuInv' BY FlyoutKeeps DEF ClickInv
<1>2. object \in ObjectRec /\ IsScreen(screen) BY DEF ClickInv, MenuInv
<1>3. object'.cmd = object.cmd BY <1>2 DEF FlyoutOpens, ObjectRec
<1>4. screen'.items = screen.items /\ screen'.consumed = screen.consumed /\ screen'.granted = screen.granted
  BY <1>2 DEF FlyoutOpens, IsScreen
<1>5. Previews(screen) BY <1>2 DEF FlyoutOpens, Previews, ClickInv, MenuInv
<1>6. UNCHANGED click BY DEF FlyoutOpens
<1> QED BY <1>1, <1>3, <1>4, <1>5, <1>6 DEF ClickInv, ClaimsIds, Runs, Previews

LEMMA InvokeClicks == ASSUME ClickInv, InvokeCommand PROVE ClickInv'
<1>1. screen' = NoScreen /\ UNCHANGED object BY DEF InvokeCommand
<1>2. MenuInv' BY <1>1, GoesKeeps DEF ClickInv
<1>3. click'.said = click'.did
  <2>1. CASE \E it \in screen.items : click' = [said |-> it.verb, did |-> Dispatch(it.offset)]
    <3>1. PICK it \in screen.items : click' = [said |-> it.verb, did |-> Dispatch(it.offset)] BY <2>1
    <3>2. it.offset < Len(leaves) /\ leaves[it.offset + 1] = it.verb BY DEF ClickInv, ClaimsIds, Runs
    <3>3. Dispatch(it.offset) = it.verb BY <3>2 DEF Dispatch
    <3> QED BY <3>1, <3>3
  <2>2. CASE screen.caption # NoFile /\ click' = [said |-> screen.caption, did |-> Dispatch(Len(leaves))]
    <3>1. object.cmd = TRUE /\ object.sel = {screen.caption}
      BY <2>2 DEF ClickInv, Previews, MenuInv, OfTheSelection
    <3>2. PICK n : n = Len(leaves) OBVIOUS
    <3>3. ~(n < n) BY <3>2, LeavesCount
    <3>4. Dispatch(n) = First(object.sel) BY <3>1, <3>2, <3>3 DEF Dispatch
    <3>5. First(object.sel) = screen.caption BY <3>1 DEF First
    <3> QED BY <2>2, <3>2, <3>4, <3>5
  <2> QED BY <2>1, <2>2 DEF InvokeCommand
<1>4. ClaimsIds(screen') /\ ~Previews(screen') BY <1>1, NoScreenClaims
<1> QED BY <1>2, <1>3, <1>4 DEF ClickInv, ClaimsIds, Runs, Previews

\* steps that leave the screen and the preview's id alone
LEMMA MenuRestClicks ==
  ASSUME ClickInv, MenuInv', UNCHANGED screen, object'.cmd = object.cmd \/ ~Previews(screen),
         UNCHANGED click \/ click' = NoClick
  PROVE  ClickInv'
<1>1. click'.said = click'.did BY DEF ClickInv, NoClick
<1> QED BY <1>1 DEF ClickInv, ClaimsIds, Runs, Previews

LEMMA ClickInvKept == ClickInv /\ [MenuNext]_menuVars => ClickInv'
<1> SUFFICES ASSUME ClickInv, [MenuNext]_menuVars PROVE ClickInv' OBVIOUS
<1>0. MenuInv' BY MenuInvKept DEF ClickInv
<1>1. CASE SettingsChange BY <1>0, <1>1, MenuRestClicks DEF SettingsChange
<1>2. CASE HostInitializes
  <2>1. ~screen.open /\ UNCHANGED screen /\ click' = NoClick BY <1>2 DEF HostInitializes
  <2>2. screen = NoScreen BY <2>1 DEF ClickInv, MenuInv
  <2> QED BY <1>0, <2>1, <2>2, NoScreenClaims, MenuRestClicks
<1>3. CASE \E g \in Grants : QueryContextMenu(g) BY <1>3, QueryClicks, MenuAssumption
<1>4. CASE FlyoutOpens BY <1>4, FlyoutClicks
<1>5. CASE InvokeCommand BY <1>5, InvokeClicks
<1>6. CASE Dismissed
  <2>1. screen' = NoScreen /\ UNCHANGED <<object, click>> BY <1>6 DEF Dismissed
  <2> QED BY <1>0, <2>1, NoScreenClaims DEF ClickInv, ClaimsIds, Runs, Previews
<1>7. CASE UNCHANGED menuVars BY <1>0, <1>7, MenuRestClicks DEF menuVars
<1> QED BY <1>1, <1>2, <1>3, <1>4, <1>5, <1>6, <1>7 DEF MenuNext

(* ClickRunsItsTitle, for any files, selections, settings, orders and ids:   *)
(* a click runs what its item says, however the settings changed since, and  *)
(* no item has an id outside the ids granted and claimed.                    *)
THEOREM ClickRunsItsTitleAlways == MenuSpec => []ClickRunsItsTitle
<1>1. ClickInv => ClickRunsItsTitle
  BY LeavesCount DEF ClickInv, ClaimsIds, Runs, Previews, ClickRunsItsTitle
<1> QED BY <1>1, MenuStarts, ClickInvKept, PTL DEF MenuSpec

-----------------------------------------------------------------------------
(* Menu: both menus offer the same items                                     *)

LEMMA MenuKeys ==
  /\ DOMAIN MENU = 1..24 /\ Len(MENU) = 24
  /\ MENU[24].key = "settings" /\ MENU[5].key = "--"
  /\ \A i \in 1..24 : MENU[i].key = "settings" => i = 24
<1>1. DOMAIN MENU = 1..24 /\ Len(MENU) = 24 BY DEF MENU
<1>2. MENU[24].key = "settings" /\ MENU[5].key = "--" BY DEF MENU, Verb, Separator
<1>3. \A k, vs : Group(k, vs).key = k /\ Verb(k).key = k /\ Separator.key = "--" BY DEF Group, Verb, Separator
<1>4. \A i \in 1..24 : MENU[i].key = "settings" => i = 24 BY <1>3 DEF MENU
<1> QED BY <1>1, <1>2, <1>4

\* An item found by its key is one that bears it, and it is found if there is one.
LEMMA PlaceIs ==
  ASSUME NEW key
  PROVE  /\ Place(key) \in 0..24
         /\ Place(key) # 0 => MENU[Place(key)].key = key
         /\ \A i \in 1..24 : MENU[i].key = key => Place(key) # 0
<1> DEFINE I == {i \in 1..24 : MENU[i].key = key}
<1>1. Place(key) = IF I # {} THEN Min(I) ELSE 0 BY MenuKeys DEF Place, SelectInSeq
<1>2. ASSUME I # {} PROVE Min(I) \in I
  <2>1. I \subseteq Nat OBVIOUS
  <2>2. \E x \in I : \A y \in I : x <= y
    <3> HIDE DEF I
    <3> QED BY <1>2, <2>1, LeastOf
  <2> HIDE DEF I
  <2> QED BY <2>2 DEF Min
<1> QED BY <1>1, <1>2

LEMMA TailIs ==
  /\ Place("settings") = 24 /\ ~IsSeparator(24)
  /\ SomeSeparator \in DOMAIN MENU /\ IsSeparator(SomeSeparator)
<1>1. Place("settings") = 24 BY MenuKeys, PlaceIs
<1>2. ~IsSeparator(24) BY MenuKeys DEF IsSeparator
<1>3. SomeSeparator \in 1..24 /\ MENU[SomeSeparator].key = "--"
  <2>1. 5 \in 1..24 OBVIOUS
  <2>2. Place("--") \in 0..24 /\ Place("--") # 0 /\ MENU[Place("--")].key = "--" BY <2>1, MenuKeys, PlaceIs
  <2> QED BY <2>2 DEF SomeSeparator
<1> QED BY <1>1, <1>2, <1>3, MenuKeys DEF IsSeparator

\* A list of the menu that has each item of J once, and no other; dividers come as they like.
ItemsOnce(o, J) ==
  /\ o \in Seq(DOMAIN MENU)
  /\ \A i \in DOMAIN MENU : ~IsSeparator(i) => (i \in J <=> \E n \in 1..Len(o) : o[n] = i)
  /\ \A m, n \in 1..Len(o) : ~IsSeparator(o[n]) /\ o[m] = o[n] => m = n

LEMMA TreeOnce == ASSUME NEW K \in SUBSET (DOMAIN MENU) PROVE ItemsOnce(InTreeOrder(K), K)
<1>1. PICK s : s = [i \in DOMAIN MENU |-> i] OBVIOUS
<1>2. s \in Seq(DOMAIN MENU) /\ DOMAIN s = DOMAIN MENU /\ \A i \in DOMAIN MENU : s[i] = i BY <1>1, MenuKeys
<1>3. PICK o : o = InTreeOrder(K) OBVIOUS
<1>4. o = Sift(s, K) BY <1>1, <1>3 DEF InTreeOrder
<1>5. PICK p : Picks(p, o, s, K, DOMAIN MENU) BY <1>2, <1>4, SiftIs
<1>6. o \in Seq(DOMAIN MENU) /\ \A n \in 1..Len(o) : p[n] \in K /\ o[n] = p[n] BY <1>2, <1>5 DEF Picks
<1>7. \A k \in K : \E n \in 1..Len(o) : o[n] = k BY <1>5, <1>6 DEF Picks
<1>9. ASSUME NEW m \in 1..Len(o), NEW n \in 1..Len(o), o[m] = o[n] PROVE m = n
  <2>1. p[m] = p[n] BY <1>6, <1>9
  <2>2. \A a, b \in 1..Len(o) : p[a] = p[b] => a = b BY <1>5, PicksEachOnce
  <2> QED BY <2>1, <2>2
<1>10. ItemsOnce(o, K) BY <1>6, <1>7, <1>9 DEF ItemsOnce
<1> QED BY <1>3, <1>10

\* Taking dividers kept, or in, leaves the items.
LEMMA SiftOnce ==
  ASSUME NEW J, NEW s, ItemsOnce(s, J), NEW K \in SUBSET (DOMAIN s), \A n \in DOMAIN s : ~IsSeparator(s[n]) => n \in K
  PROVE  ItemsOnce(Sift(s, K), J)
<1>1. s \in Seq(DOMAIN MENU) /\ DOMAIN s = 1..Len(s) BY DEF ItemsOnce
<1>2. PICK o : o = Sift(s, K) OBVIOUS
<1>3. PICK p : Picks(p, o, s, K, DOMAIN MENU) BY <1>1, <1>2, SiftIs
<1>4. /\ o \in Seq(DOMAIN MENU) /\ \A n \in 1..Len(o) : p[n] \in K /\ p[n] \in 1..Len(s) /\ o[n] = s[p[n]]
      /\ \A k \in K : \E n \in 1..Len(o) : p[n] = k
  BY <1>1, <1>3 DEF Picks
<1>5. ASSUME NEW i \in DOMAIN MENU, ~IsSeparator(i) PROVE i \in J <=> \E n \in 1..Len(o) : o[n] = i
  <2>1. ASSUME i \in J PROVE \E n \in 1..Len(o) : o[n] = i
    <3>1. PICK k \in 1..Len(s) : s[k] = i BY <1>5, <2>1 DEF ItemsOnce
    <3>2. k \in K BY <1>1, <1>5, <3>1
    <3> QED BY <1>4, <3>1, <3>2
  <2>2. ASSUME NEW n \in 1..Len(o), o[n] = i PROVE i \in J
    BY <1>4, <1>5, <2>2 DEF ItemsOnce
  <2> QED BY <2>1, <2>2
<1>6. ASSUME NEW m \in 1..Len(o), NEW n \in 1..Len(o), ~IsSeparator(o[n]), o[m] = o[n] PROVE m = n
  <2>1. p[m] = p[n]
    <3>1. PICK a, b : a = p[m] /\ b = p[n] OBVIOUS
    <3>2. a \in 1..Len(s) /\ b \in 1..Len(s) /\ s[a] = s[b] /\ ~IsSeparator(s[b]) BY <1>4, <1>6, <3>1
    <3>3. a = b BY <3>2 DEF ItemsOnce
    <3> QED BY <3>1, <3>3
  <2> QED BY <1>3, <2>1, PicksEachOnce
<1> QED BY <1>2, <1>4, <1>5, <1>6 DEF ItemsOnce

LEMMA FrontOnce ==
  ASSUME NEW J, NEW s, ItemsOnce(s, J), s # <<>>, IsSeparator(Last(s)) PROVE ItemsOnce(Front(s), J)
<1>1. PICK o, N : o = Front(s) /\ N = Len(s) OBVIOUS
<1>2. s \in Seq(DOMAIN MENU) /\ N \in Nat /\ N # 0 BY <1>1 DEF ItemsOnce
<1>3. o \in Seq(DOMAIN MENU) /\ Len(o) = N - 1 /\ \A n \in 1..N - 1 : o[n] = s[n] BY <1>1, <1>2 DEF Front
<1>4. IsSeparator(s[N]) BY <1>1 DEF Last
<1>5. ASSUME NEW i \in DOMAIN MENU, ~IsSeparator(i)
      PROVE  (\E n \in 1..N : s[n] = i) <=> (\E n \in 1..N - 1 : o[n] = i)
  <2>1. ASSUME NEW n \in 1..N, s[n] = i PROVE n \in 1..N - 1 BY <1>2, <1>4, <1>5, <2>1
  <2>2. \A n \in 1..N - 1 : n \in 1..N BY <1>2
  <2> QED BY <1>3, <2>1, <2>2
<1>6. \A m, n \in 1..N - 1 : ~IsSeparator(o[n]) /\ o[m] = o[n] => m = n
  <2>1. \A n \in 1..N - 1 : n \in 1..N BY <1>2
  <2> QED BY <1>1, <1>3, <2>1 DEF ItemsOnce
<1>7. \A i \in DOMAIN MENU : ~IsSeparator(i) => (i \in J <=> \E n \in 1..N : s[n] = i) BY <1>1 DEF ItemsOnce
<1> QED BY <1>1, <1>3, <1>5, <1>6, <1>7 DEF ItemsOnce

LEMMA TailOnce ==
  ASSUME NEW J, NEW s, ItemsOnce(s, J), 24 \notin J PROVE ItemsOnce(s \o SettingsTail, J \union {24})
<1>1. PICK o, N : o = s \o SettingsTail /\ N = Len(s) OBVIOUS
<1>2. SettingsTail = <<SomeSeparator, 24>> BY TailIs DEF SettingsTail
<1>3. s \in Seq(DOMAIN MENU) /\ N \in Nat BY <1>1 DEF ItemsOnce
<1>4. 24 \in DOMAIN MENU BY MenuKeys
<1>5. /\ o \in Seq(DOMAIN MENU) /\ Len(o) = N + 2 /\ o[N + 1] = SomeSeparator /\ o[N + 2] = 24
      /\ \A n \in 1..N : o[n] = s[n]
  BY <1>1, <1>2, <1>3, <1>4, TailIs
<1>6. \A n \in 1..N + 2 : n \in 1..N \/ n = N + 1 \/ n = N + 2 BY <1>3
<1>7. \A n \in 1..N : n \in 1..N + 2 BY <1>3
<1>8. N + 2 \in 1..N + 2 BY <1>3
<1>9. \A n \in 1..N : s[n] # 24 BY <1>1, <1>4, TailIs DEF ItemsOnce
<1>10. ASSUME NEW i \in DOMAIN MENU, ~IsSeparator(i)
       PROVE  i \in J \union {24} <=> \E n \in 1..N + 2 : o[n] = i
  <2>1. i \in J <=> \E n \in 1..N : s[n] = i BY <1>1, <1>10 DEF ItemsOnce
  <2>2. i # SomeSeparator BY <1>10, TailIs
  <2> QED BY <1>5, <1>6, <1>7, <1>8, <2>1, <2>2
<1>11. ASSUME NEW m \in 1..N + 2, NEW n \in 1..N + 2, ~IsSeparator(o[n]), o[m] = o[n] PROVE m = n
  <2>1. m # N + 1 /\ n # N + 1 BY <1>5, <1>11, TailIs
  <2>2. CASE m = N + 2 \/ n = N + 2 BY <1>5, <1>6, <1>9, <1>11, <2>1, <2>2
  <2>3. CASE m \in 1..N /\ n \in 1..N
    <3>1. s[m] = s[n] /\ ~IsSeparator(s[n]) BY <1>5, <1>11, <2>3
    <3> QED BY <1>1, <2>3, <3>1 DEF ItemsOnce
  <2> QED BY <1>6, <2>1, <2>2, <2>3
<1>12. ItemsOnce(o, J \union {24}) BY <1>5, <1>10, <1>11 DEF ItemsOnce
<1> QED BY <1>1, <1>12

\* Of a list in which every item occurs, the first of each and the dividers.
LEMMA FirstsOnce ==
  ASSUME NEW B \in SUBSET (DOMAIN MENU), NEW s \in Seq(B),
         \A i \in B : ~IsSeparator(i) => \E n \in 1..Len(s) : s[n] = i
  PROVE  ItemsOnce(Sift(s, {n \in DOMAIN s : IsSeparator(s[n]) \/ \A m \in 1..n - 1 : s[m] # s[n]}), B)
<1>1. PICK K : K = {n \in DOMAIN s : IsSeparator(s[n]) \/ \A m \in 1..n - 1 : s[m] # s[n]} OBVIOUS
<1>2. PICK N \in Nat : N = Len(s) /\ DOMAIN s = 1..N OBVIOUS
<1>3. K \subseteq 1..N /\ K \subseteq Nat BY <1>1, <1>2
<1>4. PICK o : o = Sift(s, K) OBVIOUS
<1>5. PICK p : Picks(p, o, s, K, B) BY <1>1, <1>4, SiftIs
<1>6. /\ o \in Seq(B) /\ \A n \in 1..Len(o) : p[n] \in K /\ p[n] \in 1..N /\ o[n] = s[p[n]] /\ o[n] \in B
      /\ \A k \in K : \E n \in 1..Len(o) : p[n] = k
  <2>1. /\ o \in Seq(B) /\ \A n \in 1..Len(o) : p[n] \in K /\ o[n] = s[p[n]]
        /\ \A k \in K : \E n \in 1..Len(o) : p[n] = k
    BY <1>5 DEF Picks
  <2>2. \A n \in 1..Len(o) : o[n] \in B BY <2>1
  <2> QED BY <1>3, <2>1, <2>2
<1>7. ASSUME NEW i \in B, ~IsSeparator(i) PROVE \E n \in 1..Len(o) : o[n] = i
  <2> DEFINE T == {n \in 1..N : s[n] = i}
  <2>1. T \subseteq Nat /\ T # {} BY <1>2, <1>7
  <2>2. PICK k \in T : \A j \in T : k <= j
    <3> HIDE DEF T
    <3> QED BY <2>1, LeastOf
  <2>3. k \in 1..N /\ s[k] = i OBVIOUS
  <2>4. \A m \in 1..k - 1 : s[m] # s[k]
    <3> SUFFICES ASSUME NEW m \in 1..k - 1, s[m] = s[k] PROVE FALSE OBVIOUS
    <3>1. m \in T /\ m < k /\ m \in Nat /\ k \in Nat BY <2>3
    <3> HIDE DEF T
    <3> QED BY <2>2, <3>1
  <2>5. k \in K BY <1>1, <1>2, <2>3, <2>4
  <2> QED BY <1>6, <2>3, <2>5
<1>8. ASSUME NEW m \in 1..Len(o), NEW n \in 1..Len(o), ~IsSeparator(o[n]), o[m] = o[n] PROVE m = n
  <2>1. PICK a, b : a = p[m] /\ b = p[n] OBVIOUS
  <2>2. a \in K /\ b \in K /\ a \in Nat /\ b \in Nat /\ a \in 1..N /\ b \in 1..N /\ s[a] = s[b] /\ ~IsSeparator(s[a])
    BY <1>3, <1>6, <1>8, <2>1
  <2>3. (\A j \in 1..a - 1 : s[j] # s[a]) /\ (\A j \in 1..b - 1 : s[j] # s[b]) BY <1>1, <2>2
  <2>4. a = b
    <3>1. CASE a < b
      <4>1. a \in 1..b - 1 BY <2>2, <3>1
      <4> QED BY <2>2, <2>3, <4>1
    <3>2. CASE b < a
      <4>1. b \in 1..a - 1 BY <2>2, <3>2
      <4> QED BY <2>2, <2>3, <4>1
    <3> QED BY <2>2, <3>1, <3>2
  <2>5. p[m] = p[n] BY <2>1, <2>4
  <2>7. \A j, k \in 1..Len(o) : p[j] = p[k] => j = k BY <1>5, PicksEachOnce
  <2> QED BY <2>5, <2>7
<1>9. o \in Seq(DOMAIN MENU)
  <2>1. o \in [1..Len(o) -> DOMAIN MENU] /\ Len(o) \in Nat BY <1>6
  <2> QED BY <2>1
<1>10. ItemsOnce(o, B) BY <1>6, <1>7, <1>8, <1>9 DEF ItemsOnce
<1> QED BY <1>1, <1>4, <1>10

Movable == {i \in DOMAIN MENU : MENU[i].key # "settings"}

LEMMA MovableIs == Movable \subseteq DOMAIN MENU /\ 24 \notin Movable /\ Movable \union {24} = DOMAIN MENU
BY MenuKeys DEF Movable

\* Whatever was saved, the menu has each of its items once.
LEMMA OrderOnce == ASSUME NEW saved \in Seq(STRING) PROVE ItemsOnce(order_top_level_with(saved), DOMAIN MENU)
<1> DEFINE Found == [n \in DOMAIN saved |-> Place(saved[n])]
           Wants == {n \in DOMAIN saved : Place(saved[n]) # 0 /\ MENU[Place(saved[n])].key # "settings"}
           Known == Sift(Found, Wants)
           Rest == {i \in DOMAIN MENU : (i # 0 /\ MENU[i].key # "settings") /\ ~IsSeparator(i)}
           Wanted == Known \o InTreeOrder(Rest)
           Body == Sift(Wanted, {n \in DOMAIN Wanted :
                                    IsSeparator(Wanted[n]) \/ \A m \in 1..n - 1 : Wanted[m] # Wanted[n]})
           Neat == Sift(Body, {n \in DOMAIN Body :
                                    ~IsSeparator(Body[n]) \/ (n > 1 /\ ~IsSeparator(Body[n - 1]))})
<1>1. order_top_level_with(saved) =
        IF saved = <<>> THEN [i \in DOMAIN MENU |-> i]
        ELSE (IF Neat # <<>> /\ IsSeparator(Last(Neat)) THEN Front(Neat) ELSE Neat) \o SettingsTail
  BY Zenon DEF order_top_level_with
<1>2. Known \in Seq(Movable)
  <2>1. PICK N \in Nat : N = Len(saved) /\ DOMAIN saved = 1..N OBVIOUS
  <2>2. PICK s, K : s = Found /\ K = Wants OBVIOUS
  <2>3. \A n \in 1..N : s[n] = Place(saved[n]) /\ s[n] \in 0..24 BY <2>1, <2>2, PlaceIs
  <2>4. s \in Seq(0..24) /\ DOMAIN s = 1..N
    <3>1. s \in [1..N -> 0..24] BY <2>1, <2>2, <2>3
    <3> QED BY <3>1
  <2>5. K \in SUBSET (DOMAIN s) BY <2>1, <2>2, <2>4
  <2>6. PICK o : o = Sift(s, K) OBVIOUS
  <2>7. PICK p : Picks(p, o, s, K, 0..24) BY <2>4, <2>5, <2>6, SiftIs
  <2>8. o \in Seq(0..24) /\ \A n \in 1..Len(o) : p[n] \in K /\ o[n] = s[p[n]] BY <2>7 DEF Picks
  <2>9. ASSUME NEW n \in 1..Len(o) PROVE o[n] \in Movable
    <3>1. PICK k \in K : o[n] = s[k] BY <2>8
    <3>2. k \in 1..N /\ Place(saved[k]) # 0 /\ MENU[Place(saved[k])].key # "settings" BY <2>1, <2>2, <3>1
    <3>3. PICK i : i = s[k] OBVIOUS
    <3>4. i # 0 /\ MENU[i].key # "settings" /\ i \in 0..24 BY <2>3, <3>2, <3>3
    <3>5. i \in 1..24 BY <3>4
    <3> QED BY <3>1, <3>3, <3>4, <3>5, MenuKeys DEF Movable
  <2>10. o \in [1..Len(o) -> Movable] /\ Len(o) \in Nat BY <2>8, <2>9
  <2> QED BY <2>2, <2>6, <2>10
<1>3. ItemsOnce(InTreeOrder(Rest), Rest) BY TreeOnce
<1>4. Rest \subseteq Movable /\ (\A i \in Movable : ~IsSeparator(i) => i \in Rest)
  <2>1. \A i \in DOMAIN MENU : i # 0 BY MenuKeys
  <2> QED BY <2>1, Zenon DEF Movable
<1> HIDE DEF Known, Rest
<1>5. Wanted \in Seq(Movable) /\ \A i \in Movable : ~IsSeparator(i) => \E n \in 1..Len(Wanted) : Wanted[n] = i
  <2>1. PICK a, b, w : a = Known /\ b = InTreeOrder(Rest) /\ w = Wanted OBVIOUS
  <2>2. b \in Seq(Movable)
    <3>1. b \in Seq(DOMAIN MENU) /\ Len(b) \in Nat BY <1>3, <2>1 DEF ItemsOnce
    <3>2. ASSUME NEW n \in 1..Len(b) PROVE b[n] \in Movable
      <4>1. b[n] \in DOMAIN MENU BY <3>1
      <4>2. CASE ~IsSeparator(b[n])
        <5>1. b[n] \in Rest BY <1>3, <2>1, <4>1, <4>2 DEF ItemsOnce
        <5> QED BY <1>4, <5>1
      <4>3. CASE IsSeparator(b[n]) BY <4>1, <4>3 DEF IsSeparator, Movable
      <4> QED BY <4>2, <4>3
    <3>3. b \in [1..Len(b) -> Movable] BY <3>1, <3>2
    <3> QED BY <3>1, <3>3
  <2>3. a \in Seq(Movable) /\ w = a \o b BY <1>2, <2>1
  <2>4. w \in Seq(Movable) BY <2>2, <2>3
  <2>5. ASSUME NEW i \in Movable, ~IsSeparator(i) PROVE \E n \in 1..Len(w) : w[n] = i
    <3>1. i \in Rest BY <1>4, <2>5
    <3>2. PICK n \in 1..Len(b) : b[n] = i BY <1>3, <2>1, <2>5, <3>1, MovableIs DEF ItemsOnce
    <3>3. Len(a) + n \in 1..Len(w) /\ w[Len(a) + n] = b[n] BY <2>2, <2>3
    <3> QED BY <3>2, <3>3
  <2> QED BY <2>1, <2>4, <2>5
<1> HIDE DEF Wanted
<1>6. ItemsOnce(Body, Movable) BY <1>5, MovableIs, FirstsOnce
<1> HIDE DEF Body
<1>7. ItemsOnce(Neat, Movable)
  <2>1. PICK b, K : b = Body /\ K = {n \in DOMAIN Body : ~IsSeparator(Body[n])
                                        \/ (n > 1 /\ ~IsSeparator(Body[n - 1]))} OBVIOUS
  <2>2. K \in SUBSET (DOMAIN b) /\ \A n \in DOMAIN b : ~IsSeparator(b[n]) => n \in K BY <2>1
  <2>3. ItemsOnce(b, Movable) BY <1>6, <2>1
  <2>4. ItemsOnce(Sift(b, K), Movable) BY <2>2, <2>3, SiftOnce
  <2> QED BY <2>1, <2>4
<1> HIDE DEF Neat
<1>8. CASE saved = <<>>
  <2>1. PICK s : s = [i \in DOMAIN MENU |-> i] OBVIOUS
  <2>2. s \in Seq(DOMAIN MENU) /\ Len(s) = 24 /\ \A i \in 1..24 : s[i] = i BY <2>1, MenuKeys
  <2>3. ItemsOnce(s, DOMAIN MENU) BY <2>2, MenuKeys DEF ItemsOnce
  <2> QED BY <1>1, <1>8, <2>1, <2>3
<1>9. CASE saved # <<>>
  <2>1. PICK o : o = (IF Neat # <<>> /\ IsSeparator(Last(Neat)) THEN Front(Neat) ELSE Neat) OBVIOUS
  <2>2. ItemsOnce(o, Movable) BY <1>7, <2>1, FrontOnce
  <2>3. ItemsOnce(o \o SettingsTail, Movable \union {24}) BY <2>2, MovableIs, TailOnce
  <2> QED BY <1>1, <1>9, <2>1, <2>3, MovableIs
<1> QED BY <1>8, <1>9

AudioKeys == {"files_to_folder", "rename", "sort", "pick_color"}
CondensedKeys == {"files_to_folder", "pick_color"}

LEMMA ShortListsOnce ==
  /\ ItemsOnce(audio_top_level, WithKeys(AudioKeys) \union {24})
  /\ ItemsOnce(condensed_top_level, WithKeys(CondensedKeys) \union {24})
<1>1. ASSUME NEW keys, "settings" \notin keys
      PROVE  ItemsOnce(InTreeOrder(WithKeys(keys)) \o SettingsTail, WithKeys(keys) \union {24})
  <2>1. WithKeys(keys) \in SUBSET (DOMAIN MENU) BY DEF WithKeys
  <2>2. 24 \notin WithKeys(keys) BY <1>1, MenuKeys DEF WithKeys
  <2> QED BY <2>1, <2>2, TreeOnce, TailOnce
<1>2. "settings" \notin AudioKeys /\ "settings" \notin CondensedKeys BY DEF AudioKeys, CondensedKeys
<1>3. ItemsOnce(InTreeOrder(WithKeys(AudioKeys)) \o SettingsTail, WithKeys(AudioKeys) \union {24}) BY <1>1, <1>2
<1>4. ItemsOnce(InTreeOrder(WithKeys(CondensedKeys)) \o SettingsTail, WithKeys(CondensedKeys) \union {24})
  BY <1>1, <1>2
<1> QED BY <1>3, <1>4, Zenon DEF audio_top_level, condensed_top_level, AudioKeys, CondensedKeys

\* A list of items, each once: those of A.
Exactly(o, A) == o \in Seq(DOMAIN MENU) /\ IsInjective(o) /\ ToSet(o) = A

LEMMA OfferedExactly ==
  ASSUME NEW J, NEW s, NEW K, ItemsOnce(s, J)
  PROVE  Exactly(Offered(s, K), {i \in DOMAIN MENU : i \in J /\ i \in K /\ ~IsSeparator(i) /\ shown(i)})
<1>1. PICK A, P : /\ A = {i \in DOMAIN MENU : i \in J /\ i \in K /\ ~IsSeparator(i) /\ shown(i)}
                  /\ P = {n \in DOMAIN s : ~IsSeparator(s[n]) /\ shown(s[n]) /\ s[n] \in K}
  OBVIOUS
<1>2. s \in Seq(DOMAIN MENU) /\ DOMAIN s = 1..Len(s) BY DEF ItemsOnce
<1>3. PICK o : o = Sift(s, P) OBVIOUS
<1>4. o = Offered(s, K) BY <1>1, <1>3 DEF Offered
<1>5. P \in SUBSET (DOMAIN s) BY <1>1
<1>6. PICK p : Picks(p, o, s, P, DOMAIN MENU) BY <1>2, <1>3, <1>5, SiftIs
<1>7. /\ o \in Seq(DOMAIN MENU) /\ DOMAIN o = 1..Len(o) /\ \A n \in 1..Len(o) : p[n] \in P /\ o[n] = s[p[n]]
      /\ \A k \in P : \E n \in 1..Len(o) : p[n] = k
  BY <1>6 DEF Picks
<1>8. IsInjective(o)
  <2> SUFFICES ASSUME NEW m \in 1..Len(o), NEW n \in 1..Len(o), o[m] = o[n] PROVE m = n BY <1>7 DEF IsInjective
  <2>1. PICK a, b : a = p[m] /\ b = p[n] OBVIOUS
  <2>2. a \in P /\ b \in P /\ s[a] = s[b] BY <1>7, <2>1
  <2>3. a \in 1..Len(s) /\ b \in 1..Len(s) /\ ~IsSeparator(s[b]) BY <1>1, <1>2, <2>2
  <2>4. a = b BY <2>2, <2>3 DEF ItemsOnce
  <2>5. \A x, y \in 1..Len(o) : p[x] = p[y] => x = y BY <1>6, PicksEachOnce
  <2> QED BY <2>1, <2>4, <2>5
<1>9. ToSet(o) = A
  <2>1. ASSUME NEW i \in A PROVE \E n \in 1..Len(o) : o[n] = i
    <3>1. i \in DOMAIN MENU /\ i \in J /\ i \in K /\ ~IsSeparator(i) /\ shown(i) BY <1>1
    <3>2. PICK k \in 1..Len(s) : s[k] = i BY <3>1 DEF ItemsOnce
    <3>3. k \in P BY <1>1, <1>2, <3>1, <3>2
    <3> QED BY <1>7, <3>2, <3>3
  <2>2. ASSUME NEW n \in 1..Len(o) PROVE o[n] \in A
    <3>1. PICK k \in P : o[n] = s[k] BY <1>7
    <3>2. k \in 1..Len(s) /\ ~IsSeparator(s[k]) /\ shown(s[k]) /\ s[k] \in K BY <1>1, <1>2, <3>1
    <3>3. s[k] \in DOMAIN MENU BY <1>2, <3>2
    <3>4. s[k] \in J BY <3>2, <3>3 DEF ItemsOnce
    <3> QED BY <1>1, <3>1, <3>2, <3>3, <3>4
  <2> QED BY <1>7, <2>1, <2>2 DEF ToSet
<1>10. Exactly(o, A) BY <1>7, <1>8, <1>9 DEF Exactly
<1> QED BY <1>1, <1>4, <1>10

LEMMA ExactlyCounts == ASSUME NEW A, NEW o, Exactly(o, A) PROVE Cardinality(A) = Len(o)
<1>1. PICK N \in Nat : N = Len(o) /\ DOMAIN o = 1..N BY DEF Exactly
<1>2. o \in [1..N -> A] /\ \A a \in A : \E n \in 1..N : o[n] = a BY <1>1 DEF Exactly, ToSet
<1>3. \A m, n \in 1..N : o[m] = o[n] => m = n BY <1>1 DEF Exactly, IsInjective
<1>4. o \in Bijection(1..N, A)
  <2>1. o \in Injection(1..N, A) BY <1>2, <1>3 DEF Injection, IsInjective
  <2>2. o \in Surjection(1..N, A) BY <1>2 DEF Surjection
  <2> QED BY <2>1, <2>2 DEF Bijection
<1>5. ExistsBijection(1..N, A) BY <1>4 DEF ExistsBijection
<1>6. IsFiniteSet(1..N) /\ Cardinality(1..N) = N BY FS_Interval
<1> QED BY <1>1, <1>5, <1>6, FS_Bijection

\* The modern flyout asks each item, the classic menu takes another list: for songs it is the same.
LEMMA AudioAlike ==
  \A i \in DOMAIN MENU : ~IsSeparator(i) =>
    (i \in WithKeys(AudioKeys) \union {24} <=> top_level_audio_ok(MENU[i].key))
<1> SUFFICES ASSUME NEW i \in DOMAIN MENU
             PROVE  i \in WithKeys(AudioKeys) \union {24} <=> top_level_audio_ok(MENU[i].key)
  OBVIOUS
<1>1. i = 24 <=> MENU[i].key = "settings" BY MenuKeys
<1>2. i \in WithKeys(AudioKeys) <=> MENU[i].key \in AudioKeys BY DEF WithKeys
<1> QED BY <1>1, <1>2 DEF AudioKeys, top_level_audio_ok

LEMMA OffersAgree == ASSUME stored \in Settings, NEW sel PROVE
    LET classic == IF Adds(sel) THEN ClassicTops(sel) ELSE <<>>
    IN  \E A : Exactly(classic, A) /\ Exactly(ModernTops(sel), A)
<1>1. PICK on, tree : on = stored.on /\ tree = ordered_top_level[stored.order] OBVIOUS
<1>2. ItemsOnce(tree, DOMAIN MENU)
  <2>1. stored.order \in Orders BY DEF Settings
  <2>2. stored.order \in Seq(STRING) BY <2>1, MenuAssumption
  <2>3. tree = order_top_level_with(stored.order) BY <1>1, <2>1 DEF ordered_top_level
  <2> QED BY <2>2, <2>3, OrderOnce
<1>3. CASE ~Adds(sel)
  <2>1. ModernTops(sel) = <<>> BY <1>3 DEF Adds, ModernTops, root_state
  <2>2. Exactly(<<>>, {}) BY DEF Exactly, IsInjective, ToSet
  <2> QED BY <1>3, <2>1, <2>2
<1>4. CASE Adds(sel)
  <2>1. stored.on /\ (any_image(sel) \/ stored.all) BY <1>4 DEF Adds
  <2>2. ModernTops(sel) = EnumSubCommands(sel) BY <2>1 DEF ModernTops, root_state
  <2>3. CASE ~any_image(sel)
    <3>1. ClassicTops(sel) = Offered(condensed_top_level, DOMAIN MENU) BY <2>3 DEF ClassicTops, TopLevel
    <3>2. EnumSubCommands(sel) = Offered(condensed_top_level, {i \in DOMAIN MENU : stored.on})
      BY <2>1, <2>3 DEF EnumSubCommands
    <3>3. {i \in DOMAIN MENU : stored.on} = DOMAIN MENU BY <2>1
    <3>4. \E A : Exactly(Offered(condensed_top_level, DOMAIN MENU), A) BY ShortListsOnce, OfferedExactly
    <3> QED BY <1>4, <2>2, <3>1, <3>2, <3>3, <3>4
  <2>4. CASE any_image(sel)
    <3>1. PICK K : K = {i \in DOMAIN MENU : menu_item_state(i, sel)} OBVIOUS
    <3>2. EnumSubCommands(sel) = Offered(tree, K) BY <1>1, <2>4, <3>1 DEF EnumSubCommands
    <3>3. Exactly(Offered(tree, K), {i \in DOMAIN MENU : i \in DOMAIN MENU /\ i \in K /\ ~IsSeparator(i) /\ shown(i)})
      BY <1>2, OfferedExactly
    <3>4. CASE audio_only(sel)
      <4>1. PICK J : J = WithKeys(AudioKeys) \union {24} OBVIOUS
      <4>2. ClassicTops(sel) = Offered(audio_top_level, DOMAIN MENU) BY <2>4, <3>4 DEF ClassicTops, TopLevel
      <4>3. Exactly(Offered(audio_top_level, DOMAIN MENU),
                    {i \in DOMAIN MENU : i \in J /\ i \in DOMAIN MENU /\ ~IsSeparator(i) /\ shown(i)})
        BY <4>1, ShortListsOnce, OfferedExactly
      <4>4. \A i \in DOMAIN MENU : ~IsSeparator(i) => (i \in J <=> i \in K)
        BY <2>1, <2>4, <3>1, <3>4, <4>1, AudioAlike DEF menu_item_state
      <4>5. {i \in DOMAIN MENU : i \in J /\ i \in DOMAIN MENU /\ ~IsSeparator(i) /\ shown(i)}
             = {i \in DOMAIN MENU : i \in DOMAIN MENU /\ i \in K /\ ~IsSeparator(i) /\ shown(i)}
        BY <4>4
      <4> QED BY <1>4, <2>2, <3>2, <3>3, <4>2, <4>3, <4>5
    <3>5. CASE ~audio_only(sel)
      <4>1. ClassicTops(sel) = Offered(tree, DOMAIN MENU) BY <1>1, <2>4, <3>5 DEF ClassicTops, TopLevel
      <4>2. K = DOMAIN MENU BY <2>1, <2>4, <3>1, <3>5 DEF menu_item_state
      <4> QED BY <1>4, <2>2, <3>2, <3>3, <4>1, <4>2
    <3> QED BY <3>4, <3>5
  <2> QED BY <2>3, <2>4
<1> QED BY <1>3, <1>4

LEMMA SettingsTyped == stored \in Settings /\ [MenuNext]_menuVars => stored' \in Settings
<1> SUFFICES ASSUME stored \in Settings, [MenuNext]_menuVars PROVE stored' \in Settings OBVIOUS
<1>1. CASE SettingsChange BY <1>1 DEF SettingsChange, Settings
<1>2. CASE ~SettingsChange
  <2>1. UNCHANGED stored
    BY <1>2 DEF MenuNext, menuVars, HostInitializes, QueryContextMenu, FlyoutOpens, InvokeCommand, Dismissed
  <2> QED BY <2>1
<1> QED BY <1>1, <1>2

(* MenusAgree, for any files and selections, any tokens in the saved order,  *)
(* any items hidden and any change of the settings: contextmenu.rs picks a   *)
(* list for the selection, command.rs asks each item of the ordered one.     *)
THEOREM MenusAgreeAlways == MenuSpec => []MenusAgree
<1>1. MenuInit => stored \in Settings BY MenuAssumption DEF MenuInit
<1>2. stored \in Settings /\ [MenuNext]_menuVars => (stored \in Settings)' BY SettingsTyped
<1>3. ASSUME stored \in Settings PROVE MenusAgree
  <2> SUFFICES ASSUME NEW sel
               PROVE  LET classic == IF Adds(sel) THEN ClassicTops(sel) ELSE <<>>
                          modern == ModernTops(sel)
                      IN  ToSet(classic) = ToSet(modern) /\ Len(classic) = Len(modern) /\ IsInjective(modern)
    BY DEF MenusAgree
  <2>1. PICK classic, modern : /\ classic = IF Adds(sel) THEN ClassicTops(sel) ELSE <<>>
                               /\ modern = ModernTops(sel)
    OBVIOUS
  <2>2. PICK A : Exactly(classic, A) /\ Exactly(modern, A) BY <1>3, <2>1, OffersAgree
  <2>3. Len(classic) = Len(modern) BY <2>2, ExactlyCounts
  <2> QED BY <2>1, <2>2, <2>3 DEF Exactly
<1> QED BY <1>1, <1>2, <1>3, PTL DEF MenuSpec

-----------------------------------------------------------------------------
(* The thumbnail source                                                      *)

\* the bytes read so far are the first ones of the file
FromTheStart == out = Span(0, Len(out)) /\ Len(out) \in Nat
ThumbInv ==
  /\ source \in Streams \cup {NoStream}
  /\ stage # "idle" => source \in Streams
  /\ stage \in {"idle", "video", "audio", "exr", "archive", "rar", "head", "raw", "choose", "drain"}
  /\ FromTheStart
  /\ stage \in {"drain", "rar"} => place = Len(out)
  /\ stage \notin {"idle", "drain", "rar"} => out = <<>>
  /\ stage # "idle" => result.is # "whole"
  /\ result.is = "whole" => result.bytes = out /\ Len(out) >= source.size

LEMMA SpanIs ==
  ASSUME NEW n \in Nat, NEW a \in Nat
  PROVE  /\ Span(a, n) \in Seq(Nat) /\ Len(Span(a, n)) = n
         /\ \A i \in 1 .. n : Span(a, n)[i] = a + i - 1
  BY DEF Span

LEMMA EmptySpan == <<>> = Span(0, 0)
<1>1. Span(0, 0) \in Seq(Nat) /\ Len(Span(0, 0)) = 0 BY SpanIs
<1> QED BY <1>1, EmptySeq

LEMMA SpanGoesOn ==
  ASSUME NEW n \in Nat, NEW k \in Nat
  PROVE  Span(0, n) \o Span(n, k) = Span(0, n + k)
<1> USE 0 \in Nat, n + k \in Nat
<1>1. PICK a \in Seq(Nat) : a = Span(0, n) BY SpanIs
<1>2. PICK b \in Seq(Nat) : b = Span(n, k) BY SpanIs
<1>3. PICK c \in Seq(Nat) : c = Span(0, n + k) BY SpanIs
<1>4. Len(a) = n /\ \A i \in 1 .. n : a[i] = i - 1
  <2>1. Len(a) = n /\ \A i \in 1 .. n : a[i] = 0 + i - 1 BY <1>1, SpanIs
  <2> QED BY <2>1
<1>5. Len(b) = k /\ \A i \in 1 .. k : b[i] = n + i - 1 BY <1>2, SpanIs
<1>6. Len(c) = n + k /\ \A i \in 1 .. n + k : c[i] = i - 1
  <2>1. Len(c) = n + k /\ \A i \in 1 .. n + k : c[i] = 0 + i - 1 BY <1>3, SpanIs
  <2> QED BY <2>1
<1>7. PICK d : d = a \o b OBVIOUS
<1>8. d \in Seq(Nat) /\ Len(d) = n + k
  <2>1. d \in Seq(Nat) /\ Len(d) = Len(a) + Len(b) BY <1>7, ConcatProperties
  <2> QED BY <1>4, <1>5, <2>1
<1>9. ASSUME NEW i \in 1 .. n + k PROVE d[i] = c[i]
  <2>1. CASE i <= n
    <3>1. i \in 1 .. n BY <2>1
    <3>2. d[i] = a[i] BY <1>4, <1>5, <1>7, <3>1
    <3> QED BY <1>4, <1>6, <3>1, <3>2
  <2>2. CASE i > n
    <3>1. i - n \in 1 .. k BY <2>2
    <3>2. d[i] = b[i - n] BY <1>4, <1>5, <1>7, <2>2
    <3>3. b[i - n] = n + (i - n) - 1 BY <1>5, <3>1
    <3> QED BY <1>6, <3>2, <3>3
  <2> QED BY <2>1, <2>2
<1>10. d = c BY <1>3, <1>6, <1>8, <1>9, SeqEqual
<1> QED BY <1>1, <1>2, <1>3, <1>7, <1>10

\* a prefix starts at the first byte, however short it is
LEMMA PrefixIs ==
  ASSUME ThumbInv, NEW max \in Nat, NEW prefix \in Prefix(max)
  PROVE  prefix.bytes = Span(0, Len(prefix.bytes)) /\ Len(prefix.bytes) \in Nat
<1>1. source.size \in Nat
  <2>1. CASE source = NoStream BY <2>1 DEF NoStream
  <2>2. CASE source \in Streams BY <2>2, ThumbAssumption DEF Streams
  <2> QED BY <2>1, <2>2 DEF ThumbInv
<1>2. PICK n \in Nat : n = Fewer(source.size, max) BY <1>1 DEF Fewer
<1>3. PICK k \in Nat : prefix.bytes = Span(0, k)
  <2>1. CASE prefix = [bytes |-> Span(0, n), spent |-> 0] BY <2>1
  <2>2. CASE \E k \in 1 .. n - 1 : prefix = [bytes |-> Span(0, k), spent |-> 1]
    <3>1. PICK k \in 1 .. n - 1 : prefix = [bytes |-> Span(0, k), spent |-> 1] BY <2>2
    <3>2. k \in Nat BY <1>2
    <3> QED BY <3>1, <3>2
  <2> QED BY <1>2, <2>1, <2>2 DEF Prefix
<1> QED BY <1>3, SpanIs

\* a call that ends, with anything but the whole file
LEMMA EndsKeeps ==
  ASSUME ThumbInv, NEW spent, NEW is, is # "whole", NEW bytes, FinishAfter(spent, is, bytes)
  PROVE  ThumbInv'
  BY DEF ThumbInv, FinishAfter, Answer, FromTheStart
LEMMA MissesKeeps ==
  ASSUME ThumbInv, stage \notin {"idle", "drain", "rar"},
         NEW next \in {"audio", "exr", "archive", "rar", "head", "raw", "choose", "drain"},
         Misses(next) \/ SniffFails(next)
  PROVE  ThumbInv'
<1>1. stage' = next /\ place' = 0 /\ UNCHANGED <<source, out, result>> BY DEF Misses, SniffFails
<1>2. out = <<>> /\ Len(out) = 0 BY DEF ThumbInv
<1> QED BY <1>1, <1>2 DEF ThumbInv, FromTheStart

LEMMA ThumbInitInv == ThumbInit => ThumbInv
<1>1. Len(<<>>) = 0 OBVIOUS
<1> QED BY <1>1, EmptySpan DEF ThumbInit, ThumbInv, FromTheStart, NoResult

LEMMA ShellKeeps == ASSUME ThumbInv, ShellInitializes PROVE ThumbInv'
<1>1. source = NoStream /\ source' \in Streams /\ result'.is # "whole" /\ UNCHANGED <<stage, out>>
  BY DEF ShellInitializes, NoResult
<1>2. NoStream \notin Streams BY ThumbAssumption DEF NoStream, Streams
<1>3. stage = "idle" BY <1>1, <1>2 DEF ThumbInv
<1> QED BY <1>1, <1>3 DEF ThumbInv, FromTheStart
LEMMA GetKeeps == ASSUME ThumbInv, GetThumbnail PROVE ThumbInv'
<1>1. out' = <<>> /\ Len(out') = 0 BY DEF GetThumbnail
<1>2. FromTheStart' BY <1>1, EmptySpan DEF FromTheStart
<1>3. result'.is # "whole" BY DEF GetThumbnail, NoResult, Answer
<1>4. stage' \in {"idle", "video"} /\ source' = source /\ source \in Streams BY DEF GetThumbnail, ThumbInv
<1> QED BY <1>1, <1>2, <1>3, <1>4 DEF ThumbInv

LEMMA ProbesKeep == ASSUME ThumbInv, TryVideo \/ TryAudio \/ TryExr \/ TryArchive \/ TryHead PROVE ThumbInv'
<1>1. CASE TryVideo BY <1>1, EndsKeeps, MissesKeeps DEF TryVideo, Finish
<1>2. CASE TryAudio BY <1>2, EndsKeeps, MissesKeeps DEF TryAudio, Finish
<1>3. CASE TryExr BY <1>3, EndsKeeps, MissesKeeps DEF TryExr, Finish
<1>4. CASE TryArchive BY <1>4, EndsKeeps, MissesKeeps DEF TryArchive, Finish
<1>5. CASE TryHead BY <1>5, EndsKeeps, MissesKeeps DEF TryHead
<1> QED BY <1>1, <1>2, <1>3, <1>4, <1>5

LEMMA RawKeeps == ASSUME ThumbInv, TryRaw PROVE ThumbInv'
<1>1. CASE Finish("part", <<>>) BY <1>1, EndsKeeps DEF Finish
<1>2. CASE Misses("choose") BY <1>2, MissesKeeps DEF TryRaw
<1>3. CASE \E prefix \in Prefix(RAW_PREFIX_BYTES) :
             /\ stage' = "drain" /\ out' = prefix.bytes /\ place' = TailFrom(prefix.bytes)
             /\ errors' = errors + prefix.spent
             /\ UNCHANGED <<source, cap, result>>
  <2>1. PICK prefix \in Prefix(RAW_PREFIX_BYTES) :
             /\ stage' = "drain" /\ out' = prefix.bytes /\ place' = TailFrom(prefix.bytes)
             /\ UNCHANGED <<source, cap, result>>
    BY <1>3
  <2>2. prefix.bytes = Span(0, Len(prefix.bytes)) /\ Len(prefix.bytes) \in Nat
    BY PrefixIs, ThumbAssumption
  <2>3. FromTheStart' BY <2>1, <2>2 DEF FromTheStart
  <2>4. place' = Len(out') BY <2>1 DEF TailFrom
  <2>5. result'.is # "whole" /\ source' \in Streams BY <2>1 DEF ThumbInv, TryRaw
  <2> QED BY <2>1, <2>3, <2>4, <2>5 DEF ThumbInv
<1> QED BY <1>1, <1>2, <1>3 DEF TryRaw

LEMMA ChooseKeeps == ASSUME ThumbInv, Choose PROVE ThumbInv'
  BY EndsKeeps, MissesKeeps DEF Choose, Finish

LEMMA DrainKeeps == ASSUME ThumbInv, Drain PROVE ThumbInv'
<1>1. /\ stage \in {"drain", "rar"} /\ place = Len(out) /\ FromTheStart /\ result.is # "whole"
      /\ source \in Streams \cup {NoStream}
  BY DEF Drain, ThumbInv
<1>2. CASE stage' = "idle" /\ Answer("error", <<>>) /\ UNCHANGED <<source, out>>
  BY <1>1, <1>2 DEF ThumbInv, Answer, FromTheStart
<1>3. CASE place >= source.size /\ Finish(IF stage = "rar" THEN "read" ELSE "whole", out)
  <2>1. CASE stage = "rar"
    <3>1. FinishAfter(0, "read", out) BY <1>3, <2>1 DEF Finish
    <3> QED BY <3>1, EndsKeeps
  <2>2. CASE stage # "rar"
    <3>1. stage' = "idle" /\ result' = [is |-> "whole", bytes |-> out] /\ UNCHANGED <<source, out>>
      BY <1>3, <2>2 DEF Finish, FinishAfter, Answer
    <3> QED BY <1>1, <1>3, <3>1 DEF ThumbInv, FromTheStart
  <2> QED BY <2>1, <2>2
<1>4. CASE \E n \in 1 .. MaxSize : /\ out' = out \o Span(place, n) /\ place' = place + n
                                   /\ UNCHANGED <<stage, result, source>>
  <2>1. PICK n \in Nat : out' = out \o Span(place, n) /\ place' = place + n
    <3>1. PICK n \in 1 .. MaxSize : out' = out \o Span(place, n) /\ place' = place + n BY <1>4
    <3>2. n \in Nat BY ThumbAssumption
    <3> QED BY <3>1, <3>2
  <2>2. PICK k \in Nat : k = Len(out) BY <1>1 DEF FromTheStart
  <2>3. out = Span(0, k) BY <1>1, <2>2 DEF FromTheStart
  <2>4. out' = Span(0, k + n) BY <1>1, <2>1, <2>2, <2>3, SpanGoesOn
  <2>5. Len(out') = k + n BY <2>4, SpanIs
  <2>6. FromTheStart' BY <2>4, <2>5 DEF FromTheStart
  <2> QED BY <1>1, <1>4, <2>1, <2>2, <2>5, <2>6 DEF ThumbInv
<1> QED BY <1>1, <1>2, <1>3, <1>4 DEF Drain

LEMMA ChangesKeeps == ASSUME ThumbInv, FileChanges PROVE ThumbInv'
<1>1. PICK s \in 1 .. MaxSize : source' = [source EXCEPT !.size = s] BY DEF FileChanges
<1>2. stage # "idle" /\ UNCHANGED <<place, stage, out, result>> BY DEF FileChanges
<1>3. source' \in Streams BY <1>1, <1>2 DEF ThumbInv, Streams
<1> QED BY <1>2, <1>3 DEF ThumbInv, FromTheStart

LEMMA ThumbInvKept == ThumbInv /\ [ThumbNext]_thumbVars => ThumbInv'
<1> SUFFICES ASSUME ThumbInv, [ThumbNext]_thumbVars PROVE ThumbInv' OBVIOUS
<1>1. CASE UNCHANGED thumbVars BY <1>1 DEF thumbVars, ThumbInv, FromTheStart
<1> QED BY <1>1, ShellKeeps, GetKeeps, ProbesKeep, RawKeeps, ChooseKeeps, DrainKeeps, ChangesKeeps DEF ThumbNext

(* WholeFileInOrder, for files, prefixes and caps of any size, and any reads *)
(* that fail or answer short: what is handed on as the file is the file from *)
(* its first byte to its end.                                                *)
THEOREM WholeFileInOrderAlways == ThumbSpec => []WholeFileInOrder
<1>1. ThumbInit => ThumbInv BY ThumbInitInv
<1>2. ThumbInv /\ [ThumbNext]_thumbVars => ThumbInv' BY ThumbInvKept
<1>3. ThumbInv => WholeFileInOrder
  <2> SUFFICES ASSUME ThumbInv PROVE WholeFileInOrder OBVIOUS
  <2>1. PICK n \in Nat : n = Len(out) /\ out = Span(0, n) BY DEF ThumbInv, FromTheStart
  <2>2. \A i \in DOMAIN out : out[i] = i - 1 BY <2>1, SpanIs
  <2> QED BY <2>2 DEF WholeFileInOrder, ThumbInv
<1> QED BY <1>1, <1>2, <1>3, PTL DEF ThumbSpec

-----------------------------------------------------------------------------
(* The block stream                                                          *)

\* the bytes of a block of the source
Block(b) == [i \in 1 .. LesserOf(BLOCK, Size - b * BLOCK) |-> b * BLOCK + i - 1]
InSource(b) == b \in Nat /\ b * BLOCK < Size

BlockInv ==
  /\ pos \in Nat
  /\ \A b \in DOMAIN cache : InSource(b) /\ cache[b] = Block(b)
  /\ IsFiniteSet(DOMAIN cache) /\ Cardinality(DOMAIN cache) = blocks_read /\ blocks_read <= BUDGET_BLOCKS

LEMMA BlockNat == BLOCK \in Nat /\ BLOCK > 0 /\ Size \in Nat BY BlockStreamAssumption

LEMMA DivIs ==
  ASSUME NEW p \in Nat
  PROVE  /\ p \div BLOCK \in Nat /\ p % BLOCK \in Nat /\ p % BLOCK < BLOCK
         /\ p = (p \div BLOCK) * BLOCK + (p % BLOCK)
  BY BlockNat

LEMMA TimesGrows ==
  ASSUME NEW x \in Nat, NEW y \in Nat, x <= y
  PROVE  x * BLOCK <= y * BLOCK /\ x * BLOCK \in Nat /\ y * BLOCK \in Nat
<1>1. PICK d \in Nat : y = x + d
  <2>1. y - x \in Nat /\ y = x + (y - x) OBVIOUS
  <2> QED BY <2>1
<1>2. y * BLOCK = x * BLOCK + d * BLOCK BY <1>1, BlockNat
<1>3. d * BLOCK \in Nat /\ x * BLOCK \in Nat BY BlockNat
<1> QED BY <1>2, <1>3

LEMMA DivGrows ==
  ASSUME NEW a \in Nat, NEW b \in Nat, a <= b
  PROVE  a \div BLOCK <= b \div BLOCK
<1>1. PICK x \in Nat, r \in Nat : x = a \div BLOCK /\ a = x * BLOCK + r BY DivIs
<1>2. PICK y \in Nat, t \in Nat : y = b \div BLOCK /\ b = y * BLOCK + t /\ t < BLOCK BY DivIs
<1>3. CASE x > y
  <2>1. y + 1 \in Nat /\ y + 1 <= x BY <1>3
  <2>2. (y + 1) * BLOCK <= x * BLOCK BY <2>1, TimesGrows
  <2>3. (y + 1) * BLOCK = y * BLOCK + BLOCK BY BlockNat
  <2>4. x * BLOCK \in Nat /\ y * BLOCK \in Nat BY BlockNat
  <2> QED BY <1>1, <1>2, <2>2, <2>3, <2>4, BlockNat
<1> QED BY <1>1, <1>2, <1>3

LEMMA DivBefore ==
  ASSUME NEW p \in Nat, NEW stop \in Nat, p < stop * BLOCK
  PROVE  p \div BLOCK < stop
<1>1. PICK x \in Nat, r \in Nat : x = p \div BLOCK /\ p = x * BLOCK + r BY DivIs
<1>2. CASE x >= stop
  <2>1. stop * BLOCK <= x * BLOCK /\ stop * BLOCK \in Nat /\ x * BLOCK \in Nat BY <1>2, TimesGrows
  <2> QED BY <1>1, <2>1
<1> QED BY <1>1, <1>2

\* a byte of the source is in its block, at its place
LEMMA ByteIs ==
  ASSUME NEW p \in Nat, p < Size
  PROVE  InSource(p \div BLOCK) /\ Block(p \div BLOCK)[(p % BLOCK) + 1] = p
<1>1. PICK q \in Nat, r \in Nat : q = p \div BLOCK /\ r = p % BLOCK /\ p = q * BLOCK + r /\ r < BLOCK
  BY DivIs
<1>2. PICK m \in Nat : m = q * BLOCK BY BlockNat
<1>3. p = m + r BY <1>1, <1>2
<1>4. m < Size BY <1>3, BlockNat
<1>5. r + 1 \in 1 .. LesserOf(BLOCK, Size - m) BY <1>1, <1>3, BlockNat DEF LesserOf
<1>6. Block(q)[r + 1] = m + (r + 1) - 1 BY <1>2, <1>5 DEF Block
<1> QED BY <1>1, <1>2, <1>3, <1>4, <1>6 DEF InSource

\* the blocks read, as they are kept
LEMMA EnsureKeeps ==
  ASSUME BlockInv, NEW wanted, IsFiniteSet(wanted), \A b \in wanted : InSource(b) /\ b \notin DOMAIN cache,
         NEW stop, NEW last, NEW failed, EnsureBlocks(wanted, stop, last, failed)
  PROVE  /\ DOMAIN cache' = DOMAIN cache \cup wanted
         /\ \A b \in DOMAIN cache' : InSource(b) /\ cache'[b] = Block(b)
         /\ IsFiniteSet(DOMAIN cache') /\ Cardinality(DOMAIN cache') = blocks_read'
         /\ blocks_read' <= BUDGET_BLOCKS
<1>1. PICK new \in [wanted -> UNION {read_inner_at(b) : b \in wanted}] :
        /\ \A b \in wanted : new[b] \in read_inner_at(b)
        /\ cache' = [b \in DOMAIN cache \cup wanted |-> IF b \in wanted THEN new[b] ELSE cache[b]]
  BY DEF EnsureBlocks
<1>2. \A b \in wanted : new[b] = Block(b) BY <1>1 DEF read_inner_at, Block
<1>3. DOMAIN cache' = DOMAIN cache \cup wanted BY <1>1
<1>4. \A b \in DOMAIN cache' : InSource(b) /\ cache'[b] = Block(b) BY <1>1, <1>2, <1>3 DEF BlockInv
<1>5. blocks_read' = blocks_read + Cardinality(wanted) BY DEF EnsureBlocks
<1>6. /\ IsFiniteSet(DOMAIN cache \cup wanted)
      /\ Cardinality(DOMAIN cache \cup wanted) = Cardinality(DOMAIN cache) + Cardinality(wanted)
  <2>1. PICK D : D = DOMAIN cache OBVIOUS
  <2>2. IsFiniteSet(D) BY <2>1 DEF BlockInv
  <2>3. D \cap wanted = {} BY <2>1
  <2>4. Cardinality(D \cap wanted) = 0 BY <2>3, FS_EmptySet
  <2>5. Cardinality(D) \in Nat /\ Cardinality(wanted) \in Nat BY <2>2, FS_CardinalityType
  <2>6. /\ IsFiniteSet(D \cup wanted)
        /\ Cardinality(D \cup wanted) = Cardinality(D) + Cardinality(wanted) - Cardinality(D \cap wanted)
    BY <2>2, FS_Union
  <2>7. Cardinality(D \cup wanted) = Cardinality(D) + Cardinality(wanted) BY <2>4, <2>5, <2>6
  <2> QED BY <2>1, <2>6, <2>7
<1>7. blocks_read' <= BUDGET_BLOCKS
  <2>1. CASE wanted = {}
    <3>1. Cardinality(wanted) = 0 BY <2>1, FS_EmptySet
    <3>2. blocks_read \in Nat BY FS_CardinalityType DEF BlockInv
    <3> QED BY <1>5, <3>1, <3>2 DEF BlockInv
  <2>2. CASE wanted # {} BY <1>5, <2>2 DEF EnsureBlocks
  <2> QED BY <2>1, <2>2
<1> QED BY <1>3, <1>4, <1>5, <1>6, <1>7 DEF BlockInv

\* a read answers with the next bytes of the file
LEMMA ReadIsARead ==
  ASSUME BlockInv, NEW cb \in Asks, NEW stop \in 0 .. Size, NEW failed, Read(cb, stop, failed)
  PROVE  BlockInv' /\ \E n \in 0 .. MaxAsk : AFile!ReadSome(n)
<1>1. pos \in Nat /\ cb \in Nat /\ cb <= MaxAsk /\ MaxAsk \in Nat /\ stop \in Nat
  BY BlockStreamAssumption, BlockNat DEF BlockInv
<1>2. PICK want : want = LesserOf(cb, Remaining(pos)) OBVIOUS
<1>3. want > 0 BY <1>2 DEF Read
<1>4. want \in Nat /\ want <= cb /\ pos + want <= Size /\ want <= Remaining(pos)
  BY <1>1, <1>2, <1>3, BlockNat DEF LesserOf, Remaining
<1>5. PICK end \in Nat : end = pos + want - 1 BY <1>1, <1>3, <1>4
<1>6. PICK first \in Nat : first = pos \div BLOCK BY <1>1, DivIs
<1>7. PICK last \in Nat : last = (pos + want - 1) \div BLOCK BY <1>5, DivIs
<1>8. stop \in first .. last + 1 BY <1>2, <1>6, <1>7 DEF Read
<1>9. PICK upto \in Nat : upto = stop * BLOCK BY <1>1, BlockNat
<1>10. PICK done : done = IF stop > last THEN want ELSE upto - LesserOf(pos, upto) OBVIOUS
<1>11. PICK wanted : wanted = {b \in first .. stop - 1 : b \notin DOMAIN cache} OBVIOUS
<1>12. EnsureBlocks(wanted, stop, last, failed)
  BY <1>2, <1>6, <1>7, <1>11 DEF Read
<1>13. pos' = pos + done /\ answer' = [i \in 1 .. done |-> cache'[(pos + i - 1) \div BLOCK][((pos + i - 1) % BLOCK) + 1]]
  BY <1>2, <1>7, <1>9, <1>10 DEF Read
<1>14. \A b \in wanted : InSource(b) /\ b \notin DOMAIN cache
  <2> TAKE b \in wanted
  <2>1. b \in Nat /\ b <= last BY <1>8, <1>11
  <2>2. b * BLOCK <= last * BLOCK /\ b * BLOCK \in Nat /\ last * BLOCK \in Nat BY <2>1, TimesGrows
  <2>3. last * BLOCK <= end
    <3>1. PICK r \in Nat : end = last * BLOCK + r BY <1>5, <1>7, DivIs
    <3> QED BY <2>2, <3>1
  <2>4. end < Size BY <1>1, <1>4, <1>5, BlockNat
  <2> QED BY <1>5, <1>11, <2>1, <2>2, <2>3, <2>4, BlockNat DEF InSource
<1>15. IsFiniteSet(wanted)
  <2>1. IsFiniteSet(first .. stop - 1) BY <1>1, FS_Interval
  <2> QED BY <1>11, <2>1, FS_Subset
<1>16. /\ DOMAIN cache' = DOMAIN cache \cup wanted
       /\ \A b \in DOMAIN cache' : InSource(b) /\ cache'[b] = Block(b)
       /\ IsFiniteSet(DOMAIN cache') /\ Cardinality(DOMAIN cache') = blocks_read'
       /\ blocks_read' <= BUDGET_BLOCKS
  BY <1>12, <1>14, <1>15, EnsureKeeps
<1>17. done \in Nat /\ done <= want
  <2>1. CASE stop > last BY <1>4, <1>10, <2>1
  <2>2. CASE stop <= last
    <3>1. upto <= last * BLOCK /\ last * BLOCK \in Nat BY <1>1, <1>9, <2>2, TimesGrows
    <3>2. PICK r \in Nat : end = last * BLOCK + r BY <1>5, <1>7, DivIs
    <3>3. upto <= end BY <1>5, <1>9, <3>1, <3>2
    <3> QED BY <1>1, <1>4, <1>5, <1>9, <1>10, <2>2, <3>3 DEF LesserOf
  <2> QED BY <1>1, <1>7, <2>1, <2>2
<1>18. ASSUME NEW i \in 1 .. done
       PROVE  cache'[(pos + i - 1) \div BLOCK][((pos + i - 1) % BLOCK) + 1] = pos + i - 1
  <2>1. PICK p \in Nat : p = pos + i - 1 BY <1>1, <1>17
  <2>2. i \in Nat /\ i >= 1 /\ i <= want BY <1>4, <1>17
  <2>3. p < Size /\ p >= pos /\ p <= end BY <1>1, <1>4, <1>5, <2>1, <2>2, BlockNat
  <2>4. PICK q \in Nat : q = p \div BLOCK BY DivIs
  <2>5. q >= first BY <1>1, <1>6, <2>3, <2>4, DivGrows
  <2>6. q < stop
    <3>1. CASE stop > last
      <4>1. q <= last BY <1>5, <1>7, <2>3, <2>4, DivGrows
      <4> QED BY <1>1, <1>7, <3>1, <4>1
    <3>2. CASE stop <= last
      <4>1. done = upto - LesserOf(pos, upto) BY <1>1, <1>7, <1>10, <3>2
      <4>2. pos < upto
        <5>1. done > 0 BY <1>17, <2>2
        <5> QED BY <1>1, <1>9, <4>1, <5>1 DEF LesserOf
      <4>3. p < upto BY <1>1, <1>9, <2>1, <4>1, <4>2 DEF LesserOf
      <4> QED BY <1>1, <1>9, <2>4, <4>3, DivBefore
    <3> QED BY <1>1, <1>7, <3>1, <3>2
  <2>7. q \in DOMAIN cache' BY <1>1, <1>6, <1>11, <1>16, <2>4, <2>5, <2>6
  <2>8. cache'[q] = Block(q) BY <1>16, <2>7
  <2>9. Block(q)[(p % BLOCK) + 1] = p BY <2>3, <2>4, ByteIs
  <2> QED BY <2>1, <2>4, <2>8, <2>9
<1>19. answer' = [i \in 1 .. done |-> pos + i - 1] BY <1>13, <1>18
<1>20. AFile!ReadSome(done)
  <2>1. done <= MaxAsk BY <1>1, <1>4, <1>17
  <2>2. done <= AFile!Left(pos) BY <1>1, <1>4, <1>17, BlockNat DEF AFile!Left, Remaining
  <2> QED BY <1>13, <1>19, <2>1, <2>2 DEF AFile!ReadSome, AFile!Bytes
<1>21. done \in 0 .. MaxAsk BY <1>1, <1>4, <1>17
<1>22. pos' \in Nat BY <1>1, <1>13, <1>17
<1>23. BlockInv' BY <1>16, <1>22 DEF BlockInv
<1> QED BY <1>20, <1>21, <1>23

LEMMA BlockStepReads ==
  ASSUME BlockInv, [BlockNext]_blockVars
  PROVE  BlockInv' /\ [AFile!StreamNext]_(AFile!streamVars)
<1>1. CASE \E cb \in Asks, stop \in 0 .. Size, failed \in BOOLEAN : Read(cb, stop, failed)
  BY <1>1, ReadIsARead DEF AFile!StreamNext
<1>2. CASE \E cb \in Asks : ReadsNothing(cb)
  <2>1. answer' = <<>> /\ UNCHANGED <<pos, cache, blocks_read>> BY <1>2 DEF ReadsNothing
  <2>2. pos \in Nat /\ MaxAsk \in Nat BY BlockStreamAssumption DEF BlockInv
  <2>3. AFile!Left(pos) >= 0 BY <2>2, BlockNat DEF AFile!Left
  <2>4. answer' = [i \in 1 .. 0 |-> pos + i - 1] BY <2>1
  <2>5. AFile!ReadSome(0) BY <2>1, <2>2, <2>3, <2>4 DEF AFile!ReadSome, AFile!Bytes
  <2> QED BY <2>1, <2>2, <2>5 DEF AFile!StreamNext, BlockInv
<1>3. CASE \E p \in Positions : Seek(p)
  <2>1. PICK p \in Positions : Seek(p) BY <1>3
  <2>2. p \in Nat BY BlockStreamAssumption
  <2>3. AFile!SeekTo(p) BY <2>1 DEF Seek, AFile!SeekTo
  <2> QED BY <2>1, <2>2, <2>3 DEF Seek, BlockInv, AFile!StreamNext
<1>4. CASE UNCHANGED blockVars BY <1>4 DEF blockVars, BlockInv, AFile!streamVars
<1> QED BY <1>1, <1>2, <1>3, <1>4 DEF BlockNext

LEMMA BlockInitInv == BlockInit => BlockInv /\ AFile!StreamInit
<1> SUFFICES ASSUME BlockInit PROVE BlockInv /\ AFile!StreamInit OBVIOUS
<1>1. DOMAIN cache = {} BY DEF BlockInit
<1>2. IsFiniteSet(DOMAIN cache) /\ Cardinality(DOMAIN cache) = 0 BY <1>1, FS_EmptySet
<1> QED BY <1>1, <1>2, BlockStreamAssumption DEF BlockInit, BlockInv, AFile!StreamInit

(* BlockStream implements FileStream, for a source, blocks and a budget of   *)
(* any size: whatever is cached, refused, late or failed, every call of the  *)
(* demuxer is a read or a seek of a file.                                    *)
THEOREM ReadsLikeAFileAlways == BlockSpec => ReadsLikeAFile
<1>1. BlockInit => BlockInv /\ AFile!StreamInit BY BlockInitInv
<1>2. BlockInv /\ [BlockNext]_blockVars => BlockInv' /\ [AFile!StreamNext]_(AFile!streamVars)
  BY BlockStepReads
<1> QED BY <1>1, <1>2, PTL DEF BlockSpec, ReadsLikeAFile, AFile!StreamSpec

(* The blocks kept in memory are counted, and are never more than the budget.*)
THEOREM AlwaysWithinBudget == BlockSpec => []CacheWithinBudget
<1>1. BlockInit => BlockInv BY BlockInitInv
<1>2. BlockInv /\ [BlockNext]_blockVars => BlockInv' BY BlockStepReads
<1>3. BlockInv => CacheWithinBudget BY DEF BlockInv, CacheWithinBudget
<1> QED BY <1>1, <1>2, <1>3, PTL DEF BlockSpec
=============================================================================
