------------------------- MODULE ConvertDialog_proofs -------------------------
(* Theorems about the pool of ParallelMap, and about the Convert dialog that runs *)
(* on it.                                                                         *)
EXTENDS ConvertDialog, ListLemmas, FiniteSetTheorems, TLAPS

-----------------------------------------------------------------------------
(* The pool *)

\* What the proof needs of the types; the bound on the cursor is not needed.
PoolTypes ==
    /\ next \in [Calls -> Nat]
    /\ worker \in [Calls -> [1..W -> WorkerState]]

PoolInv == PoolTypes /\ EachOnce

\* EachOnce of one call: a step of the pool changes one call only.
Once(c) ==
    /\ \A i \in Items : (\E w \in 1..W : Holds(c, w, i)) <=> i < next[c]
    /\ \A w, v \in 1..W, i \in Items : Holds(c, w, i) /\ Holds(c, v, i) => w = v
    /\ \A w \in 1..W :
        /\ \A k, l \in DOMAIN worker[c][w].local :
            worker[c][w].local[k][1] = worker[c][w].local[l][1] => k = l
        /\ \A i \in Items : ~(InHand(c, w, i) /\ Has(c, w, i))
        /\ worker[c][w].pc = "end" => next[c] >= N

LEMMA EachOnceIsOnce == EachOnce <=> \A c \in Calls : Once(c)
  BY DEF EachOnce, Once

\* A call whose cursor and workers stay the same keeps its part of the invariant.
LEMMA OnceKept ==
    ASSUME NEW c \in Calls, Once(c), next'[c] = next[c], worker'[c] = worker[c]
    PROVE  Once(c)'
  <1>1. \A w, i : /\ InHand(c, w, i)' <=> InHand(c, w, i)
                  /\ Has(c, w, i)' <=> Has(c, w, i)
    BY DEF InHand, Has
  <1>2. \A w, i : Holds(c, w, i)' <=> Holds(c, w, i)
    BY <1>1 DEF Holds
  <1> QED BY <1>1, <1>2 DEF Once

\* Nothing has been handed out at first.
LEMMA PoolInitInv == PoolInit => PoolInv
  <1> SUFFICES ASSUME PoolInit PROVE PoolInv OBVIOUS
  <1>1. 0 \in Items
    BY PoolAssumption DEF Items
  <1>2. [pc |-> "off", i |-> 0, local |-> <<>>] \in WorkerState
    BY <1>1 DEF WorkerState
  <1>3. PoolTypes
    BY <1>2 DEF PoolInit, PoolTypes
  <1>4. ASSUME NEW c \in Calls, NEW w \in 1..W
        PROVE  worker[c][w] = [pc |-> "off", i |-> 0, local |-> <<>>]
    BY DEF PoolInit
  <1>5. ASSUME NEW c \in Calls, NEW w \in 1..W, NEW i \in Items
        PROVE  ~InHand(c, w, i) /\ ~Has(c, w, i)
    BY <1>4 DEF InHand, Has
  <1>6. ASSUME NEW c \in Calls PROVE Once(c)
    <2>1. next[c] = 0
      BY DEF PoolInit
    <2>2. \A i \in Items : ~(i < 0)
      BY PoolAssumption DEF Items
    <2> QED BY <1>4, <1>5, <2>1, <2>2 DEF Once, Holds
  <1> QED BY <1>3, <1>6 DEF PoolInv, EachOnce, Once

\* Spawning gives nobody an index.
LEMMA SpawnInv ==
    ASSUME PoolInv, NEW c \in Calls, SpawnWorkers(c) PROVE PoolInv'
  <1>1. ASSUME NEW w \in 1..W
        PROVE  /\ worker'[c][w] \in WorkerState
               /\ worker[c][w].pc = "off" /\ worker'[c][w].pc = "fetch"
               /\ worker'[c][w].local = worker[c][w].local
    <2>1. worker[c][w] \in WorkerState
      BY DEF PoolInv, PoolTypes
    <2>2. worker'[c][w] = [worker[c][w] EXCEPT !.pc = "fetch"]
      BY DEF SpawnWorkers, PoolInv, PoolTypes
    <2>3. worker[c][w].pc = "off"
      BY DEF SpawnWorkers
    <2> QED BY <2>1, <2>2, <2>3 DEF WorkerState
  <1>2. worker'[c] \in [1..W -> WorkerState]
    BY <1>1 DEF SpawnWorkers, PoolInv, PoolTypes
  <1>3. PoolTypes'
    BY <1>2 DEF SpawnWorkers, PoolInv, PoolTypes
  <1>4. ASSUME NEW d \in Calls PROVE Once(d)'
    <2>0. Once(d)
      BY EachOnceIsOnce DEF PoolInv
    <2>1. CASE d # c
      <3>1. worker'[d] = worker[d] /\ next'[d] = next[d]
        BY <2>1 DEF SpawnWorkers, PoolInv, PoolTypes
      <3> QED BY <2>0, <3>1, OnceKept
    <2>2. CASE d = c
      <3>1. next' = next
        BY DEF SpawnWorkers
      <3>2. \A w \in 1..W, i \in Items :
                /\ ~InHand(c, w, i) /\ ~InHand(c, w, i)'
                /\ Has(c, w, i)' <=> Has(c, w, i)
        BY <1>1 DEF InHand, Has
      <3>3. \A w \in 1..W, i \in Items : Holds(c, w, i)' <=> Holds(c, w, i)
        BY <3>2 DEF Holds
      <3> QED BY <1>1, <2>0, <2>2, <3>1, <3>2, <3>3 DEF Once
    <2> QED BY <2>1, <2>2
  <1> QED BY <1>3, <1>4 DEF PoolInv, EachOnce, Once

\* The index handed out was held by nobody, and is now held by one worker.
LEMMA FetchInv ==
    ASSUME PoolInv, NEW c \in Calls, NEW u \in 1..W, Fetch(c, u) PROVE PoolInv'
  <1>0. next \in [Calls -> Nat] /\ worker \in [Calls -> [1..W -> WorkerState]]
    BY DEF PoolInv, PoolTypes
  <1>1. next[c] \in Items /\ next[c] \in Nat
    BY <1>0, PoolAssumption DEF Fetch, Items
  <1>2. /\ worker'[c][u] \in WorkerState
        /\ worker[c][u].pc = "fetch" /\ worker'[c][u].pc = "f"
        /\ worker'[c][u].i = next[c]
        /\ worker'[c][u].local = worker[c][u].local
    <2>1. worker[c][u] \in WorkerState
      BY <1>0
    <2>2. worker'[c][u] = [worker[c][u] EXCEPT !.pc = "f", !.i = next[c]]
      BY <1>0 DEF Fetch
    <2>3. worker[c][u].pc = "fetch"
      BY DEF Fetch
    <2> QED BY <1>1, <2>1, <2>2, <2>3 DEF WorkerState
  <1>3. \A w \in 1..W : w # u => worker'[c][w] = worker[c][w]
    BY <1>0 DEF Fetch
  <1>4. \A d \in Calls : d # c => worker'[d] = worker[d] /\ next'[d] = next[d]
    BY <1>0 DEF Fetch
  <1>5. next'[c] = next[c] + 1
    BY <1>0 DEF Fetch
  <1>6. PoolTypes'
    <2>1. next' \in [Calls -> Nat]
      BY <1>0, <1>1 DEF Fetch
    <2>2. worker'[c] \in [1..W -> WorkerState]
      BY <1>0, <1>2, <1>3 DEF Fetch
    <2>3. worker' \in [Calls -> [1..W -> WorkerState]]
      BY <1>0, <2>2 DEF Fetch
    <2> QED BY <2>1, <2>3 DEF PoolTypes
  <1>7. ASSUME NEW d \in Calls PROVE Once(d)'
    <2>0. Once(d)
      BY EachOnceIsOnce DEF PoolInv
    <2>1. CASE d # c
      BY <1>4, <2>0, <2>1, OnceKept
    <2>2. CASE d = c
      <3>1. ASSUME NEW w \in 1..W, NEW i \in Items
            PROVE  /\ Has(c, w, i)' <=> Has(c, w, i)
                   /\ InHand(c, w, i)' <=> InHand(c, w, i) \/ (w = u /\ i = next[c])
        BY <1>2, <1>3 DEF Has, InHand
      <3>2. ASSUME NEW w \in 1..W, NEW i \in Items
            PROVE  Holds(c, w, i)' <=> Holds(c, w, i) \/ (w = u /\ i = next[c])
        BY <3>1 DEF Holds
      <3>3. \A w \in 1..W : ~Holds(c, w, next[c])
        BY <1>1, <2>0, <2>2 DEF Once
      <3>4. \A i \in Items : (\E w \in 1..W : Holds(c, w, i)') <=> i < next'[c]
        <4>1. \A i \in Items : i \in Int /\ (i < next[c] + 1 <=> i < next[c] \/ i = next[c])
          BY <1>1 DEF Items
        <4> QED BY <1>5, <2>0, <2>2, <3>2, <4>1 DEF Once
      <3>5. \A w, v \in 1..W, i \in Items : Holds(c, w, i)' /\ Holds(c, v, i)' => w = v
        BY <2>0, <2>2, <3>2, <3>3 DEF Once
      <3>6. ASSUME NEW w \in 1..W
            PROVE  /\ \A k, l \in DOMAIN worker'[c][w].local :
                        worker'[c][w].local[k][1] = worker'[c][w].local[l][1] => k = l
                   /\ \A i \in Items : ~(InHand(c, w, i)' /\ Has(c, w, i)')
                   /\ worker'[c][w].pc = "end" => next'[c] >= N
        <4>1. worker'[c][w].local = worker[c][w].local
          BY <1>2, <1>3
        <4>2. \A i \in Items : ~(InHand(c, w, i)' /\ Has(c, w, i)')
          BY <2>0, <2>2, <3>1, <3>3 DEF Once, Holds
        <4>3. worker'[c][w].pc = "end" => worker[c][w].pc = "end"
          BY <1>2, <1>3
        <4>4. worker[c][w].pc = "end" => next[c] >= N
          BY <2>0, <2>2 DEF Once
        <4>5. worker'[c][w].pc = "end" => next'[c] >= N
          BY <1>1, <1>5, <4>3, <4>4, PoolAssumption
        <4> QED BY <2>0, <2>2, <4>1, <4>2, <4>5 DEF Once
      <3> QED BY <2>2, <3>4, <3>5, <3>6 DEF Once
    <2> QED BY <2>1, <2>2
  <1> QED BY <1>6, <1>7 DEF PoolInv, EachOnce, Once

\* A cursor past the last index hands out nothing.
LEMMA ExhaustedInv ==
    ASSUME PoolInv, NEW c \in Calls, NEW u \in 1..W, Exhausted(c, u) PROVE PoolInv'
  <1>0. next \in [Calls -> Nat] /\ worker \in [Calls -> [1..W -> WorkerState]]
    BY DEF PoolInv, PoolTypes
  <1>1. next[c] \in Nat /\ next[c] >= N
    BY <1>0 DEF Exhausted
  <1>2. /\ worker'[c][u] \in WorkerState
        /\ worker[c][u].pc = "fetch" /\ worker'[c][u].pc = "end"
        /\ worker'[c][u].local = worker[c][u].local
    <2>1. worker[c][u] \in WorkerState
      BY <1>0
    <2>2. worker'[c][u] = [worker[c][u] EXCEPT !.pc = "end"]
      BY <1>0 DEF Exhausted
    <2>3. worker[c][u].pc = "fetch"
      BY DEF Exhausted
    <2> QED BY <2>1, <2>2, <2>3 DEF WorkerState
  <1>3. \A w \in 1..W : w # u => worker'[c][w] = worker[c][w]
    BY <1>0 DEF Exhausted
  <1>4. \A d \in Calls : d # c => worker'[d] = worker[d] /\ next'[d] = next[d]
    BY <1>0 DEF Exhausted
  <1>5. next'[c] = next[c] + 1
    BY <1>0 DEF Exhausted
  <1>6. PoolTypes'
    <2>1. next' \in [Calls -> Nat]
      BY <1>0, <1>1 DEF Exhausted
    <2>2. worker'[c] \in [1..W -> WorkerState]
      BY <1>0, <1>2, <1>3 DEF Exhausted
    <2>3. worker' \in [Calls -> [1..W -> WorkerState]]
      BY <1>0, <2>2 DEF Exhausted
    <2> QED BY <2>1, <2>3 DEF PoolTypes
  <1>7. ASSUME NEW d \in Calls PROVE Once(d)'
    <2>0. Once(d)
      BY EachOnceIsOnce DEF PoolInv
    <2>1. CASE d # c
      BY <1>4, <2>0, <2>1, OnceKept
    <2>2. CASE d = c
      <3>1. \A w \in 1..W, i \in Items :
                /\ Has(c, w, i)' <=> Has(c, w, i)
                /\ InHand(c, w, i)' <=> InHand(c, w, i)
        BY <1>2, <1>3 DEF Has, InHand
      <3>2. \A w \in 1..W, i \in Items : Holds(c, w, i)' <=> Holds(c, w, i)
        BY <3>1 DEF Holds
      <3>3. \A i \in Items : i < next'[c] <=> i < next[c]
        BY <1>1, <1>5, PoolAssumption DEF Items
      <3>4. \A w \in 1..W : worker'[c][w].local = worker[c][w].local
        BY <1>2, <1>3
      <3>5. next'[c] >= N
        BY <1>1, <1>5, PoolAssumption
      <3> QED BY <2>0, <2>2, <3>1, <3>2, <3>3, <3>4, <3>5 DEF Once
    <2> QED BY <2>1, <2>2
  <1> QED BY <1>6, <1>7 DEF PoolInv, EachOnce, Once

\* The index in hand becomes the last of the results.
LEMMA ComputedInv ==
    ASSUME PoolInv, NEW c \in Calls, NEW u \in 1..W, NEW r \in Results, Computed(c, u, r)
    PROVE  PoolInv'
  <1> DEFINE old == worker[c][u].local
             new == worker'[c][u].local
             pair == <<worker[c][u].i, r>>
  <1>0. next \in [Calls -> Nat] /\ worker \in [Calls -> [1..W -> WorkerState]]
    BY DEF PoolInv, PoolTypes
  <1>1. worker[c][u] \in WorkerState /\ worker[c][u].i \in Items /\ old \in Seq(Items \X Results)
    BY <1>0 DEF WorkerState
  <1>2. pair \in Items \X Results /\ pair[1] = worker[c][u].i
    BY <1>1
  <1>3. worker'[c][u] = [worker[c][u] EXCEPT !.pc = "fetch", !.local = Append(old, pair)]
    <2>1. worker' = [worker EXCEPT ![c][u] =
                [worker[c][u] EXCEPT !.pc = "fetch", !.local = Append(old, pair)]]
      BY <1>0, <1>1, Zenon DEF Computed
    <2> HIDE DEF old, pair
    <2> QED BY <1>0, <2>1
  <1>4. Append(old, pair) \in Seq(Items \X Results)
    BY <1>1, <1>2
  <1>5. /\ worker'[c][u] \in WorkerState
        /\ worker[c][u].pc = "f" /\ worker'[c][u].pc = "fetch"
        /\ new = Append(old, pair)
    <2>1. worker[c][u].pc = "f"
      BY DEF Computed
    <2> HIDE DEF pair
    <2> QED BY <1>1, <1>3, <1>4, <2>1 DEF WorkerState
  <1>6. \A w \in 1..W : w # u => worker'[c][w] = worker[c][w]
    BY <1>0 DEF Computed
  <1>7. next' = next /\ \A d \in Calls : d # c => worker'[d] = worker[d]
    BY <1>0 DEF Computed
  <1>8. PoolTypes'
    <2>1. worker'[c] \in [1..W -> WorkerState]
      BY <1>0, <1>5, <1>6 DEF Computed
    <2>2. worker' \in [Calls -> [1..W -> WorkerState]]
      BY <1>0, <2>1 DEF Computed
    <2> QED BY <1>0, <1>7, <2>2 DEF PoolTypes
  <1>9. /\ DOMAIN old = 1..Len(old) /\ Len(old) \in Nat
        /\ DOMAIN new = 1..(Len(old) + 1)
        /\ \A k \in DOMAIN old : new[k] = old[k]
        /\ new[Len(old) + 1] = pair
    <2> HIDE DEF old, new, pair
    <2> QED BY <1>1, <1>2, <1>5
  <1>10. ASSUME NEW d \in Calls PROVE Once(d)'
    <2>0. Once(d)
      BY EachOnceIsOnce DEF PoolInv
    <2>1. CASE d # c
      BY <1>7, <2>0, <2>1, OnceKept
    <2>2. CASE d = c
      <3>1. \A w \in 1..W, i \in Items : w # u =>
                /\ Has(c, w, i)' <=> Has(c, w, i)
                /\ InHand(c, w, i)' <=> InHand(c, w, i)
        BY <1>6 DEF Has, InHand
      <3>2. \A i \in Items : ~InHand(c, u, i)' /\ (InHand(c, u, i) <=> i = pair[1])
        BY <1>2, <1>5 DEF InHand
      <3>3. \A i \in Items : Has(c, u, i)' <=> Has(c, u, i) \/ i = pair[1]
        <4>1. ASSUME NEW i \in Items PROVE (\E k \in DOMAIN new : new[k][1] = i)
                    <=> (\E k \in DOMAIN old : old[k][1] = i) \/ i = pair[1]
          <5>1. \A k \in DOMAIN new : k \in DOMAIN old \/ k = Len(old) + 1
            BY <1>9
          <5>2. Len(old) + 1 \in DOMAIN new /\ \A k \in DOMAIN old : k \in DOMAIN new
            BY <1>9
          <5> QED BY <1>9, <5>1, <5>2
        <4> QED BY <4>1 DEF Has
      <3>4. \A w \in 1..W, i \in Items : Holds(c, w, i)' <=> Holds(c, w, i)
        BY <3>1, <3>2, <3>3 DEF Holds
      <3>5. \A w \in 1..W, i \in Items : ~(InHand(c, w, i)' /\ Has(c, w, i)')
        BY <2>0, <2>2, <3>1, <3>2 DEF Once
      <3>6. \A k, l \in DOMAIN new : new[k][1] = new[l][1] => k = l
        <4>1. \A k, l \in DOMAIN old : old[k][1] = old[l][1] => k = l
          BY <2>0, <2>2 DEF Once
        <4>2. ~Has(c, u, pair[1])
          BY <1>1, <1>2, <2>0, <2>2, <3>2 DEF Once
        <4>3. \A k \in DOMAIN old : old[k][1] # pair[1]
          BY <4>2 DEF Has
        <4>4. \A k \in DOMAIN new : k \in DOMAIN old \/ k = Len(old) + 1
          BY <1>9
        <4> QED BY <1>9, <4>1, <4>3, <4>4
      <3>7. ASSUME NEW w \in 1..W
            PROVE  \A k, l \in DOMAIN worker'[c][w].local :
                        worker'[c][w].local[k][1] = worker'[c][w].local[l][1] => k = l
        <4>1. CASE w = u
          BY <3>6, <4>1
        <4>2. CASE w # u
          BY <1>6, <2>0, <2>2, <4>2 DEF Once
        <4> QED BY <4>1, <4>2
      <3>8. ASSUME NEW w \in 1..W PROVE worker'[c][w].pc = "end" => next'[c] >= N
        <4>1. worker'[c][w].pc = "end" => worker[c][w].pc = "end"
          BY <1>5, <1>6
        <4> QED BY <1>7, <2>0, <2>2, <4>1 DEF Once
      <3> QED BY <1>7, <2>0, <2>2, <3>4, <3>5, <3>7, <3>8 DEF Once
    <2> QED BY <2>1, <2>2
  <1> QED BY <1>8, <1>10 DEF PoolInv, EachOnce, Once

\* A step that leaves the cursors and the workers alone.
LEMMA PoolStutterInv ==
    ASSUME PoolInv, UNCHANGED <<next, worker>> PROVE PoolInv'
  <1>1. PoolTypes'
    BY DEF PoolInv, PoolTypes
  <1>2. ASSUME NEW c \in Calls PROVE Once(c)'
    <2>1. Once(c)
      BY EachOnceIsOnce DEF PoolInv
    <2> QED BY <2>1, OnceKept
  <1> QED BY <1>1, <1>2 DEF PoolInv, EachOnce, Once

LEMMA PoolNextInv == PoolInv /\ [PoolNext]_poolVars => PoolInv'
  <1> SUFFICES ASSUME PoolInv, [PoolNext]_poolVars PROVE PoolInv' OBVIOUS
  <1>1. CASE UNCHANGED poolVars
    BY <1>1, PoolStutterInv DEF poolVars
  <1>2. ASSUME NEW c \in Calls, SpawnWorkers(c) PROVE PoolInv'
    BY <1>2, SpawnInv
  <1>3. ASSUME NEW c \in Calls, NEW w \in 1..W, Fetch(c, w) PROVE PoolInv'
    BY <1>3, FetchInv
  <1>4. ASSUME NEW c \in Calls, NEW w \in 1..W, Exhausted(c, w) PROVE PoolInv'
    BY <1>4, ExhaustedInv
  <1>5. ASSUME NEW c \in Calls, NEW w \in 1..W, NEW r \in Results, Computed(c, w, r)
        PROVE  PoolInv'
    BY <1>5, ComputedInv
  <1>6. ASSUME NEW c \in Calls, Join(c) PROVE PoolInv'
    BY <1>6, PoolStutterInv DEF Join
  <1> QED BY <1>1, <1>2, <1>3, <1>4, <1>5, <1>6 DEF PoolNext

\* In every pool, for any number of calls, items and workers, each index is handed out
\* once (parallel.rs:105).
THEOREM PoolEachOnce == PoolSpec => []EachOnce
  <1>1. PoolInv => EachOnce
    BY DEF PoolInv
  <1> QED BY PoolInitInv, PoolNextInv, <1>1, PTL DEF PoolSpec

-----------------------------------------------------------------------------
(* The join *)

\* Of the first n sequences: the pairs of f[n] are theirs, each once.
Part(f, seqs, n) ==
    /\ \A k \in 1..Len(f[n]) : \E w \in 1..n : \E l \in 1..Len(seqs[w]) : f[n][k] = seqs[w][l]
    /\ \A w \in 1..n : \A l \in 1..Len(seqs[w]) : \E k \in 1..Len(f[n]) : f[n][k] = seqs[w][l]
    /\ \A j, k \in 1..Len(f[n]) : f[n][j][1] = f[n][k][1] => j = k

\* The flattened pairs are those of the sequences, each once.
LEMMA FlatParts ==
    ASSUME NEW S, NEW m \in Nat, m # 0, NEW seqs, \A w \in 1..m : seqs[w] \in Seq(S),
           NEW f, Flat(f, seqs, m),
           \A v, w \in 1..m : \A k \in 1..Len(seqs[v]), l \in 1..Len(seqs[w]) :
                seqs[v][k][1] = seqs[w][l][1] => v = w /\ k = l
    PROVE  f[m] \in Seq(S) /\ Part(f, seqs, m)
  <1> DEFINE Bad == {n \in 1..m : ~(f[n] \in Seq(S) /\ Part(f, seqs, n))}
  <1> SUFFICES ASSUME Bad # {} PROVE FALSE OBVIOUS
  <1>a. \A n : n \in Bad <=> n \in 1..m /\ ~(f[n] \in Seq(S) /\ Part(f, seqs, n))
    OBVIOUS
  <1>b. Bad \subseteq Nat
    OBVIOUS
  <1> HIDE DEF Bad
  <1>1. PICK n \in Bad : \A y \in Bad : n <= y
    BY <1>b, LeastOf
  <1>2. n \in 1..m /\ ~(f[n] \in Seq(S) /\ Part(f, seqs, n))
    BY <1>1, <1>a
  <1>3. f[n] = IF n = 1 THEN seqs[n] ELSE f[n - 1] \o seqs[n]
    BY <1>2 DEF Flat
  <1>4. CASE n = 1
    <2>1. f[1] = seqs[1] /\ seqs[1] \in Seq(S) /\ 1 \in 1..m
      BY <1>2, <1>3, <1>4
    <2>2. \A w \in 1..1 : w = 1
      OBVIOUS
    <2>3. Part(f, seqs, 1)
      BY <2>1, <2>2 DEF Part
    <2> QED BY <1>2, <1>4, <2>1, <2>3
  <1>5. CASE n # 1
    <2>1. n - 1 \in 1..m /\ n - 1 \notin Bad /\ n - 1 < n
      <3>1. n - 1 \in 1..m /\ n - 1 < n /\ ~(n <= n - 1)
        BY <1>2, <1>5
      <3> QED BY <1>1, <3>1
    <2>2. f[n - 1] \in Seq(S) /\ Part(f, seqs, n - 1)
      BY <1>a, <2>1
    <2>a. PICK a : a = f[n - 1] OBVIOUS
    <2>b. PICK b : b = seqs[n] OBVIOUS
    <2>r. PICK r : r = f[n] OBVIOUS
    <2>3. a \in Seq(S) /\ b \in Seq(S) /\ r = a \o b
      BY <1>2, <1>3, <1>5, <2>2, <2>a, <2>b, <2>r
    <2>4. /\ Len(a) \in Nat /\ Len(b) \in Nat /\ Len(r) = Len(a) + Len(b)
          /\ \A k \in 1..Len(a) : r[k] = a[k]
          /\ \A k \in 1..Len(b) : r[Len(a) + k] = b[k]
          /\ r \in Seq(S)
      BY <2>3
    <2>5. \A k \in 1..Len(r) : k \in 1..Len(a) \/ k - Len(a) \in 1..Len(b)
      BY <2>4
    <2>6. \A k \in 1..Len(r) : k \notin 1..Len(a) => k - Len(a) \in 1..Len(b) /\ r[k] = b[k - Len(a)]
      <3>1. ASSUME NEW k \in 1..Len(r), k \notin 1..Len(a)
            PROVE  k - Len(a) \in 1..Len(b) /\ r[k] = b[k - Len(a)]
        <4>1. k - Len(a) \in 1..Len(b) /\ Len(a) + (k - Len(a)) = k
          BY <2>4, <3>1
        <4> QED BY <2>4, <4>1
      <3> QED BY <3>1
    <2>7. \A w \in 1..n : w = n \/ w \in 1..(n - 1)
      BY <1>2
    <2>8. \A w \in 1..(n - 1) : w \in 1..n /\ w \in 1..m /\ w # n
      BY <1>2
    <2>p. /\ \A k \in 1..Len(a) : \E w \in 1..(n - 1) : \E l \in 1..Len(seqs[w]) : a[k] = seqs[w][l]
          /\ \A w \in 1..(n - 1) : \A l \in 1..Len(seqs[w]) : \E k \in 1..Len(a) : a[k] = seqs[w][l]
          /\ \A j, k \in 1..Len(a) : a[j][1] = a[k][1] => j = k
      BY <2>2, <2>a DEF Part
    <2>9. \A k \in 1..Len(r) : \E w \in 1..n : \E l \in 1..Len(seqs[w]) : r[k] = seqs[w][l]
      <3>1. ASSUME NEW k \in 1..Len(r), k \in 1..Len(a)
            PROVE  \E w \in 1..n : \E l \in 1..Len(seqs[w]) : r[k] = seqs[w][l]
        <4>1. PICK w \in 1..(n - 1) : \E l \in 1..Len(seqs[w]) : a[k] = seqs[w][l]
          BY <2>p, <3>1
        <4> QED BY <2>4, <2>8, <3>1, <4>1
      <3>2. ASSUME NEW k \in 1..Len(r), k \notin 1..Len(a)
            PROVE  \E w \in 1..n : \E l \in 1..Len(seqs[w]) : r[k] = seqs[w][l]
        <4>1. k - Len(a) \in 1..Len(seqs[n]) /\ r[k] = seqs[n][k - Len(a)] /\ n \in 1..n
          BY <1>2, <2>6, <2>b, <3>2
        <4> QED BY <4>1
      <3> QED BY <3>1, <3>2
    <2>10. \A w \in 1..n : \A l \in 1..Len(seqs[w]) : \E k \in 1..Len(r) : r[k] = seqs[w][l]
      <3>1. ASSUME NEW w \in 1..(n - 1), NEW l \in 1..Len(seqs[w])
            PROVE  \E k \in 1..Len(r) : r[k] = seqs[w][l]
        <4>1. PICK k \in 1..Len(a) : a[k] = seqs[w][l]
          BY <2>p
        <4>2. k \in 1..Len(r) /\ r[k] = a[k]
          BY <2>4
        <4> QED BY <4>1, <4>2
      <3>2. ASSUME NEW l \in 1..Len(b) PROVE \E k \in 1..Len(r) : r[k] = b[l]
        <4>1. Len(a) + l \in 1..Len(r)
          <5>1. l \in Nat /\ 1 <= l /\ l <= Len(b) /\ Len(a) \in Nat /\ Len(r) = Len(a) + Len(b)
            BY <2>4
          <5> QED BY <5>1
        <4>2. r[Len(a) + l] = b[l]
          BY <2>4
        <4> QED BY <4>1, <4>2
      <3> QED BY <2>7, <2>b, <3>1, <3>2
    <2>11. \A j, k \in 1..Len(r) : r[j][1] = r[k][1] => j = k
      <3>1. ASSUME NEW j \in 1..Len(a), NEW k \in 1..Len(b) PROVE a[j][1] # b[k][1]
        <4>0. PICK w \in 1..(n - 1) : \E l \in 1..Len(seqs[w]) : a[j] = seqs[w][l]
          BY <2>p
        <4>1. PICK l \in 1..Len(seqs[w]) : a[j] = seqs[w][l]
          BY <4>0
        <4>2. w \in 1..m /\ w # n /\ n \in 1..m
          BY <1>2, <2>8
        <4> QED BY <2>b, <4>1, <4>2
      <3>2. \A j, k \in 1..Len(a) : a[j][1] = a[k][1] => j = k
        BY <2>p
      <3>3. \A j, k \in 1..Len(b) : b[j][1] = b[k][1] => j = k
        BY <1>2, <2>b
      <3>4. ASSUME NEW j \in 1..Len(r), NEW k \in 1..Len(r), r[j][1] = r[k][1] PROVE j = k
        <4>1. CASE j \in 1..Len(a) /\ k \in 1..Len(a)
          BY <2>4, <3>2, <3>4, <4>1
        <4>2. CASE j \in 1..Len(a) /\ k \notin 1..Len(a)
          <5>1. r[j] = a[j] /\ r[k] = b[k - Len(a)] /\ k - Len(a) \in 1..Len(b)
            BY <2>4, <2>6, <4>2
          <5> QED BY <3>1, <3>4, <4>2, <5>1
        <4>3. CASE j \notin 1..Len(a) /\ k \in 1..Len(a)
          <5>1. r[k] = a[k] /\ r[j] = b[j - Len(a)] /\ j - Len(a) \in 1..Len(b)
            BY <2>4, <2>6, <4>3
          <5> QED BY <3>1, <3>4, <4>3, <5>1
        <4>4. CASE j \notin 1..Len(a) /\ k \notin 1..Len(a)
          <5>1. j - Len(a) = k - Len(a)
            <6>1. /\ r[j] = b[j - Len(a)] /\ j - Len(a) \in 1..Len(b)
                  /\ r[k] = b[k - Len(a)] /\ k - Len(a) \in 1..Len(b)
              BY <2>6, <4>4
            <6> QED BY <3>3, <3>4, <6>1
          <5> QED BY <2>4, <5>1
        <4> QED BY <4>1, <4>2, <4>3, <4>4
      <3> QED BY <3>4
    <2>12. Part(f, seqs, n)
      BY <2>9, <2>10, <2>11, <2>r DEF Part
    <2> QED BY <1>2, <2>4, <2>12, <2>r
  <1> QED BY <1>4, <1>5

\* N numbers below N that rise take them all, in order.
LEMMA RisingIsCounting ==
    ASSUME NEW q, q \in [1..N -> 0..(N - 1)],
           \A k, l \in 1..N : k < l => q[k] < q[l]
    PROVE  \A k \in 1..N : q[k] = k - 1
  <1>0. N \in Nat /\ \A k \in 1..N : q[k] \in 0..(N - 1)
    BY PoolAssumption
  <1>1. \A k \in 1..N : q[k] >= k - 1
    <2>1. PICK low : low = {k \in 1..N : q[k] < k - 1}
      OBVIOUS
    <2>2. low \subseteq Nat
      BY <1>0, <2>1
    <2>3. ASSUME low # {} PROVE FALSE
      <3>4. PICK k \in low : \A y \in low : k <= y
        BY <2>2, <2>3, LeastOf
      <3>5. k \in 1..N /\ q[k] < k - 1 /\ q[k] \in 0..(N - 1)
        BY <1>0, <2>1, <3>4
      <3>6. k - 1 \in 1..N /\ k - 1 < k /\ k - 1 \notin low
        BY <1>0, <3>4, <3>5
      <3>7. q[k - 1] \in 0..(N - 1) /\ q[k - 1] >= k - 2 /\ q[k - 1] < q[k]
        BY <1>0, <2>1, <3>5, <3>6
      <3> QED BY <1>0, <3>5, <3>7
    <2>4. ASSUME NEW k \in 1..N PROVE q[k] >= k - 1
      <3>1. ~(q[k] < k - 1)
        BY <2>1, <2>3
      <3> QED BY <1>0, <3>1
    <2> QED BY <2>4
  <1>2. \A k \in 1..N : q[k] <= k - 1
    <2>1. PICK high : high = {m \in 0..(N - 1) : q[N - m] > N - m - 1}
      OBVIOUS
    <2>2. high \subseteq Nat
      BY <1>0, <2>1
    <2>3. ASSUME high # {} PROVE FALSE
      <3>1. PICK m \in high : \A y \in high : m <= y
        BY <2>2, <2>3, LeastOf
      <3>2. m \in 0..(N - 1) /\ q[N - m] > N - m - 1
        BY <1>0, <2>1, <3>1
      <3>3. N - m \in 1..N /\ q[N - m] \in 0..(N - 1)
        BY <1>0, <3>2
      <3>4. m # 0
        BY <1>0, <3>2, <3>3
      <3>5. m - 1 \in 0..(N - 1) /\ m - 1 \notin high /\ N - (m - 1) \in 1..N /\ N - m < N - (m - 1)
        BY <1>0, <3>1, <3>2, <3>4
      <3>6. /\ q[N - (m - 1)] \in 0..(N - 1) /\ q[N - (m - 1)] <= N - (m - 1) - 1
            /\ q[N - m] < q[N - (m - 1)]
        <4>1. q[N - (m - 1)] \in 0..(N - 1)
          BY <1>0, <3>5
        <4>2. ~(q[N - (m - 1)] > N - (m - 1) - 1)
          BY <1>0, <2>1, <3>5
        <4>3. q[N - m] < q[N - (m - 1)]
          BY <1>0, <3>3, <3>5
        <4> QED BY <1>0, <3>2, <4>1, <4>2, <4>3
      <3> QED BY <1>0, <3>2, <3>3, <3>6
    <2>4. ASSUME NEW k \in 1..N PROVE q[k] <= k - 1
      <3>1. N - k \in 0..(N - 1) /\ N - (N - k) = k /\ q[k] \in 0..(N - 1)
        BY <1>0
      <3>2. ~(q[N - (N - k)] > N - (N - k) - 1)
        BY <2>1, <2>3, <3>1
      <3> QED BY <1>0, <3>1, <3>2
    <2> QED BY <2>4
  <1> QED BY <1>0, <1>1, <1>2

\* Pairs that have each index once are as many as the indices.
LEMMA AsManyAsItems ==
    ASSUME NEW pairs \in Seq(Items \X Results),
           \A j, k \in 1..Len(pairs) : pairs[j][1] = pairs[k][1] => j = k,
           \A i \in Items : \E k \in 1..Len(pairs) : pairs[k][1] = i
    PROVE  Len(pairs) = N
  <1>1. PICK n \in Nat : n = Len(pairs)
    OBVIOUS
  <1>2. PICK f : f = [k \in 1..n |-> pairs[k][1]]
    OBVIOUS
  <1>3. f \in Bijection(1..n, Items)
    <2>1. f \in [1..n -> Items]
      BY <1>1, <1>2
    <2>2. f \in Injection(1..n, Items)
      BY <1>1, <1>2, <2>1 DEF Injection, IsInjective
    <2>3. f \in Surjection(1..n, Items)
      BY <1>1, <1>2, <2>1 DEF Surjection
    <2> QED BY <2>2, <2>3 DEF Bijection
  <1>4. ExistsBijection(1..n, Items)
    BY <1>3 DEF ExistsBijection
  <1>5. Cardinality(Items) = n
    BY <1>4, FS_CountingElements
  <1>6. N - 1 \in Int /\ 0 \in Int /\ N \in Nat
    BY PoolAssumption
  <1>7. Cardinality(0..(N - 1)) = IF 0 > N - 1 THEN 0 ELSE (N - 1) - 0 + 1
    BY <1>6, FS_Interval
  <1>8. Cardinality(Items) = N
    BY <1>6, <1>7 DEF Items
  <1> QED BY <1>1, <1>5, <1>8

\* The sort puts the result of item i at place i + 1.
LEMMA SortedByIndex ==
    ASSUME NEW pairs \in Seq(Items \X Results),
           \A j, k \in 1..Len(pairs) : pairs[j][1] = pairs[k][1] => j = k,
           \A i \in Items : \E k \in 1..Len(pairs) : pairs[k][1] = i
    PROVE  /\ ByIndex(pairs) \in [1..N -> 1..N]
           /\ \A k \in 1..N : pairs[ByIndex(pairs)[k]][1] = k - 1
  <1>1. Len(pairs) = N /\ DOMAIN pairs = 1..N /\ N \in Nat
    BY AsManyAsItems, PoolAssumption
  <1>2. \A k \in 1..N : pairs[k] \in Items \X Results /\ pairs[k][1] \in Items
    BY <1>1
  <1>i. \A k \in 1..N : k - 1 \in Items
    BY <1>1 DEF Items
  <1> DEFINE Sorts(p) == \A k, l \in 1..N : k < l =>
                \/ pairs[p[k]][1] < pairs[p[l]][1]
                \/ pairs[p[k]][1] = pairs[p[l]][1] /\ p[k] < p[l]
  <1>3. \E p \in Bijection(1..N, 1..N) : Sorts(p)
    <2>1. PICK p : p = [k \in 1..N |-> CHOOSE j \in 1..N : pairs[j][1] = k - 1]
      OBVIOUS
    <2>2. ASSUME NEW k \in 1..N PROVE p[k] \in 1..N /\ pairs[p[k]][1] = k - 1
      <3>1. \E j \in 1..N : pairs[j][1] = k - 1
        BY <1>1, <1>i
      <3> QED BY <2>1, <3>1
    <2>3. p \in [1..N -> 1..N]
      BY <2>1, <2>2
    <2>4. \A k, l \in 1..N : p[k] = p[l] => k = l
      <3>1. ASSUME NEW k \in 1..N, NEW l \in 1..N, p[k] = p[l] PROVE k = l
        <4>1. k - 1 = l - 1
          BY <2>2, <3>1
        <4> QED BY <1>1, <4>1
      <3> QED BY <3>1
    <2>5. \A j \in 1..N : \E k \in 1..N : p[k] = j
      <3>1. ASSUME NEW j \in 1..N PROVE \E k \in 1..N : p[k] = j
        <4>i. PICK i \in Items : i = pairs[j][1]
          BY <1>2
        <4>1. PICK k : k = i + 1
          OBVIOUS
        <4>2. k \in 1..N /\ pairs[j][1] = k - 1
          BY <1>1, <4>i, <4>1 DEF Items
        <4>3. p[k] \in 1..N /\ pairs[p[k]][1] = pairs[j][1]
          BY <2>2, <4>2
        <4> QED BY <1>1, <4>2, <4>3
      <3> QED BY <3>1
    <2>6. p \in Bijection(1..N, 1..N)
      BY <2>3, <2>4, <2>5 DEF Bijection, Injection, Surjection, IsInjective
    <2>7. Sorts(p)
      BY <1>1, <2>2
    <2> QED BY <2>6, <2>7
  <1>p. PICK p : p = ByIndex(pairs)
    OBVIOUS
  <1>4. p \in Bijection(1..N, 1..N) /\ Sorts(p)
    <2>1. ByIndex(pairs) = CHOOSE x \in Bijection(1..N, 1..N) : Sorts(x)
      BY <1>1 DEF ByIndex
    <2> HIDE DEF Sorts
    <2> QED BY <1>3, <1>p, <2>1
  <1>5. p \in [1..N -> 1..N] /\ \A k, l \in 1..N : p[k] = p[l] => k = l
    BY <1>4 DEF Bijection, Injection, IsInjective
  <1>q. PICK q : q = [k \in 1..N |-> pairs[p[k]][1]]
    OBVIOUS
  <1>6. q \in [1..N -> 0..(N - 1)]
    BY <1>2, <1>5, <1>q DEF Items
  <1>7. \A k, l \in 1..N : k < l => q[k] < q[l]
    <2>1. ASSUME NEW k \in 1..N, NEW l \in 1..N, k < l PROVE q[k] < q[l]
      <3>1. p[k] # p[l] /\ p[k] \in 1..N /\ p[l] \in 1..N /\ k # l
        BY <1>1, <1>5, <2>1
      <3>2. pairs[p[k]][1] # pairs[p[l]][1]
        BY <1>1, <3>1
      <3> QED BY <1>4, <1>q, <2>1, <3>2
    <2> QED BY <2>1
  <1>8. \A k \in 1..N : q[k] = k - 1
    BY <1>6, <1>7, RisingIsCounting, Zenon
  <1> QED BY <1>5, <1>8, <1>p, <1>q

-----------------------------------------------------------------------------
(* The pool implements InOrderMap *)

\* The results of a call, and the value of item i.
Pairs(c) == UNION {Range(worker[c][w].local) : w \in 1..W}
ValueOf(c, i) ==
    IF \E p \in Pairs(c) : p[1] = i THEN (CHOOSE p \in Pairs(c) : p[1] = i)[2] ELSE None

\* The refinement mapping of ParallelMap.
Values == [c \in Calls |-> [i \in Items |->
    LET pairs == UNION {{worker[c][w].local[k] : k \in DOMAIN worker[c][w].local} : w \in 1..W}
    IN  IF \E p \in pairs : p[1] = i THEN (CHOOSE p \in pairs : p[1] = i)[2] ELSE None]]

LEMMA ValuesAre == Values = [c \in Calls |-> [i \in Items |-> ValueOf(c, i)]]
  BY Zenon DEF Values, ValueOf, Pairs, Range

LEMMA ValuesNext == Values' = [c \in Calls |-> [i \in Items |-> ValueOf(c, i)']]
  BY Zenon DEF Values, ValueOf, Pairs, Range

\* The actions of InOrderMap, under the mapping.
LEMMA OrderedActions ==
    /\ \A c, i, r : Ordered!Evaluate(c, i, r) <=>
            /\ Values[c][i] = None
            /\ Values' = [Values EXCEPT ![c][i] = r]
            /\ UNCHANGED answer
    /\ \A c : Ordered!Return(c) <=>
            /\ answer[c] = None
            /\ \A i \in Items : Values[c][i] # None
            /\ answer' = [answer EXCEPT ![c] = [k \in 1..N |-> Values[c][k - 1]]]
            /\ UNCHANGED Values
  BY Zenon DEF Ordered!Evaluate, Ordered!Return, Ordered!Items, Items, Values

\* The results of a worker of the pool.
LEMMA LocalTypes ==
    ASSUME PoolInv, NEW c \in Calls, NEW w \in 1..W
    PROVE  /\ worker[c][w].local \in Seq(Items \X Results)
           /\ DOMAIN worker[c][w].local = 1..Len(worker[c][w].local)
           /\ Len(worker[c][w].local) \in Nat
  <1>1. worker[c][w] \in WorkerState
    BY DEF PoolInv, PoolTypes
  <1>2. worker[c][w].local \in Seq(Items \X Results)
    BY <1>1 DEF WorkerState
  <1> QED BY <1>2

\* No index is twice among the results of a call.
LEMMA LocalsApart ==
    ASSUME PoolInv, NEW c \in Calls, NEW v \in 1..W, NEW w \in 1..W,
           NEW k \in DOMAIN worker[c][v].local, NEW l \in DOMAIN worker[c][w].local,
           worker[c][v].local[k][1] = worker[c][w].local[l][1]
    PROVE  v = w /\ k = l
  <1>1. Once(c)
    BY EachOnceIsOnce DEF PoolInv
  <1>2. PICK i \in Items : i = worker[c][v].local[k][1]
    <2>1. worker[c][v].local[k] \in Items \X Results
      BY LocalTypes
    <2> QED BY <2>1
  <1>3. Has(c, v, i) /\ Has(c, w, i)
    BY <1>2 DEF Has
  <1>4. v = w
    BY <1>1, <1>3 DEF Once, Holds
  <1> QED BY <1>1, <1>4 DEF Once

\* After the last worker every index is among the results.
LEMMA EveryItemHad ==
    ASSUME PoolInv, NEW c \in Calls, \A w \in 1..W : worker[c][w].pc = "end", NEW i \in Items
    PROVE  \E w \in 1..W : Has(c, w, i)
  <1>1. Once(c)
    BY EachOnceIsOnce DEF PoolInv
  <1>2. 1 \in 1..W /\ next[c] \in Nat
    BY PoolAssumption DEF PoolInv, PoolTypes
  <1>3. next[c] >= N
    BY <1>1, <1>2 DEF Once
  <1>4. i < next[c]
    BY <1>2, <1>3, PoolAssumption DEF Items
  <1>5. PICK w \in 1..W : Holds(c, w, i)
    BY <1>1, <1>4 DEF Once
  <1>6. Has(c, w, i)
    BY <1>5 DEF Holds, InHand
  <1> QED BY <1>6

\* The join answers with the value of item i at place i + 1.
LEMMA JoinAnswers ==
    ASSUME PoolInv, NEW c \in Calls, \A w \in 1..W : worker[c][w].pc = "end"
    PROVE  /\ InOrder(Joined(c)) = [k \in 1..N |-> InOrder(Joined(c))[k]]
           /\ \A k \in 1..N : \E w \in 1..W : \E l \in DOMAIN worker[c][w].local :
                worker[c][w].local[l] = <<k - 1, InOrder(Joined(c))[k]>>
  <1>s. PICK seqs : seqs = [w \in 1..W |-> worker[c][w].local]
    OBVIOUS
  <1>w. W \in Nat /\ W # 0 /\ N \in Nat
    BY PoolAssumption
  <1>1. \A w \in 1..W : seqs[w] = worker[c][w].local /\ seqs[w] \in Seq(Items \X Results)
    BY <1>s, LocalTypes
  <1>2. seqs \in Seq(Seq(Items \X Results)) /\ Len(seqs) = W
    BY <1>s, <1>w, <1>1
  <1>3. PICK f : Flat(f, seqs, W) /\ FlattenSeq(seqs) = f[W]
    BY <1>2, <1>w, FlattenIsFlat
  <1>4. \A v, w \in 1..W : \A k \in 1..Len(seqs[v]), l \in 1..Len(seqs[w]) :
            seqs[v][k][1] = seqs[w][l][1] => v = w /\ k = l
    <2>1. ASSUME NEW v \in 1..W, NEW w \in 1..W, NEW k \in 1..Len(seqs[v]),
                 NEW l \in 1..Len(seqs[w]), seqs[v][k][1] = seqs[w][l][1]
          PROVE  v = w /\ k = l
      <3>1. /\ k \in DOMAIN worker[c][v].local /\ l \in DOMAIN worker[c][w].local
            /\ worker[c][v].local[k][1] = worker[c][w].local[l][1]
        BY <1>1, <2>1, LocalTypes
      <3> QED BY <3>1, LocalsApart
    <2> QED BY <2>1
  <1>p. PICK pairs : pairs = Joined(c)
    OBVIOUS
  <1>5. pairs = f[W]
    BY <1>3, <1>p, <1>s DEF Joined
  <1>6. f[W] \in Seq(Items \X Results) /\ Part(f, seqs, W)
    BY <1>w, <1>1, <1>3, <1>4, FlatParts
  <1>7. /\ pairs \in Seq(Items \X Results)
        /\ \A j, k \in 1..Len(pairs) : pairs[j][1] = pairs[k][1] => j = k
        /\ \A k \in 1..Len(pairs) : \E w \in 1..W : \E l \in 1..Len(seqs[w]) : pairs[k] = seqs[w][l]
        /\ \A w \in 1..W : \A l \in 1..Len(seqs[w]) : \E k \in 1..Len(pairs) : pairs[k] = seqs[w][l]
    BY <1>5, <1>6 DEF Part
  <1>8. \A i \in Items : \E k \in 1..Len(pairs) : pairs[k][1] = i
    <2>1. ASSUME NEW i \in Items PROVE \E k \in 1..Len(pairs) : pairs[k][1] = i
      <3>1. PICK w \in 1..W : Has(c, w, i)
        BY EveryItemHad
      <3>2. PICK l \in 1..Len(seqs[w]) : seqs[w][l][1] = i
        BY <1>1, <3>1, LocalTypes DEF Has
      <3>3. PICK k \in 1..Len(pairs) : pairs[k] = seqs[w][l]
        BY <1>7
      <3> QED BY <3>2, <3>3
    <2> QED BY <2>1
  <1>9. /\ ByIndex(pairs) \in [1..N -> 1..N]
        /\ \A k \in 1..N : pairs[ByIndex(pairs)[k]][1] = k - 1
    BY <1>7, <1>8, SortedByIndex
  <1>10. DOMAIN pairs = 1..N /\ Len(pairs) = N
    <2>1. Len(pairs) = N
      BY <1>7, <1>8, AsManyAsItems
    <2> QED BY <1>7, <2>1
  <1>11. InOrder(pairs) = [k \in 1..N |-> pairs[ByIndex(pairs)[k]][2]]
    BY <1>10 DEF InOrder
  <1>12. ASSUME NEW k \in 1..N
         PROVE  \E w \in 1..W : \E l \in DOMAIN worker[c][w].local :
                    worker[c][w].local[l] = <<k - 1, InOrder(pairs)[k]>>
    <2>1. PICK j \in 1..N : j = ByIndex(pairs)[k]
      BY <1>9
    <2>2. pairs[j] \in Items \X Results /\ pairs[j][1] = k - 1 /\ pairs[j][2] = InOrder(pairs)[k]
      BY <1>7, <1>9, <1>10, <1>11, <2>1
    <2>3. pairs[j] = <<k - 1, InOrder(pairs)[k]>>
      BY <2>2
    <2>4. PICK w \in 1..W : \E l \in 1..Len(seqs[w]) : pairs[j] = seqs[w][l]
      BY <1>7, <1>10
    <2>5. \E l \in DOMAIN worker[c][w].local : pairs[j] = worker[c][w].local[l]
      BY <1>1, <2>4, LocalTypes
    <2> QED BY <2>3, <2>5
  <1> QED BY <1>11, <1>12, <1>p

\* The value of an item that one worker has, and of one that none has.
LEMMA ValueIsTheResult ==
    ASSUME PoolInv, NEW c \in Calls, NEW w \in 1..W, NEW l \in DOMAIN worker[c][w].local
    PROVE  /\ ValueOf(c, worker[c][w].local[l][1]) = worker[c][w].local[l][2]
           /\ worker[c][w].local[l][2] \in Results
  <1>p. PICK p : p = worker[c][w].local[l]
    OBVIOUS
  <1>1. p \in Items \X Results
    BY <1>p, LocalTypes
  <1>2. p \in Pairs(c)
    BY <1>p DEF Pairs, Range
  <1>3. ASSUME NEW q \in Pairs(c), q[1] = p[1] PROVE q = p
    <2>1. PICK v \in 1..W : \E k \in DOMAIN worker[c][v].local : q = worker[c][v].local[k]
      BY DEF Pairs, Range
    <2>2. PICK k \in DOMAIN worker[c][v].local : q = worker[c][v].local[k]
      BY <2>1
    <2>3. v = w /\ k = l
      BY <1>3, <1>p, <2>2, LocalsApart
    <2> QED BY <1>p, <2>2, <2>3
  <1>4. (CHOOSE q \in Pairs(c) : q[1] = p[1]) = p
    BY <1>2, <1>3
  <1>5. ValueOf(c, p[1]) = p[2]
    BY <1>2, <1>4 DEF ValueOf
  <1> QED BY <1>1, <1>5, <1>p

LEMMA NoValueYet ==
    ASSUME NEW c \in Calls, NEW i, \A w \in 1..W : ~Has(c, w, i) PROVE ValueOf(c, i) = None
  <1>1. ASSUME NEW p \in Pairs(c), p[1] = i PROVE FALSE
    <2>1. PICK w \in 1..W : \E k \in DOMAIN worker[c][w].local : p = worker[c][w].local[k]
      BY DEF Pairs, Range
    <2> QED BY <1>1, <2>1 DEF Has
  <1> QED BY <1>1 DEF ValueOf

\* A call whose workers keep their results keeps its values.
LEMMA ValuesKept ==
    ASSUME NEW c \in Calls, \A w \in 1..W : worker'[c][w].local = worker[c][w].local, NEW i
    PROVE  ValueOf(c, i)' = ValueOf(c, i)
  <1>1. \A w \in 1..W : Range(worker[c][w].local)' = Range(worker[c][w].local)
    BY DEF Range
  <1>2. Pairs(c)' = Pairs(c)
    BY <1>1 DEF Pairs
  <1> QED BY <1>2 DEF ValueOf

\* A result that is pushed is the value of the item it is for, which had none.
LEMMA ComputedValues ==
    ASSUME PoolInv, NEW c \in Calls, NEW u \in 1..W, NEW r \in Results, Computed(c, u, r)
    PROVE  /\ worker[c][u].i \in Items /\ ValueOf(c, worker[c][u].i) = None /\ answer' = answer
           /\ \A d \in Calls, j \in Items : ValueOf(d, j)' =
                IF d = c /\ j = worker[c][u].i THEN r ELSE ValueOf(d, j)
  <1>i. PICK i : i = worker[c][u].i
    OBVIOUS
  <1>o. PICK old : old = worker[c][u].local
    OBVIOUS
  <1>0. /\ worker \in [Calls -> [1..W -> WorkerState]]
        /\ worker[c][u] \in WorkerState /\ i \in Items /\ old \in Seq(Items \X Results)
    <2>1. worker[c][u] \in WorkerState
      BY DEF PoolInv, PoolTypes
    <2> QED BY <1>i, <1>o, <2>1 DEF PoolInv, PoolTypes, WorkerState
  <1>p. PICK pair : pair = <<i, r>>
    OBVIOUS
  <1>1. /\ worker' = [worker EXCEPT ![c][u] = [worker[c][u] EXCEPT !.pc = "fetch", !.local = Append(old, pair)]]
        /\ worker[c][u].pc = "f" /\ answer' = answer
    BY <1>0, <1>i, <1>o, <1>p, Zenon DEF Computed
  <1>2. /\ worker'[c][u].local = Append(old, pair)
        /\ \A d \in Calls, w \in 1..W : (d # c \/ w # u) => worker'[d][w] = worker[d][w]
    BY <1>0, <1>1 DEF WorkerState
  <1>3. \A w \in 1..W : ~Has(c, w, i)
    <2>1. Once(c)
      BY EachOnceIsOnce DEF PoolInv
    <2>2. InHand(c, u, i)
      BY <1>1, <1>i DEF InHand
    <2> QED BY <1>0, <2>1, <2>2 DEF Once, Holds
  <1>4. ValueOf(c, i) = None
    BY <1>3, NoValueYet
  <1>5. Range(worker[c][u].local)' = Range(worker[c][u].local) \union {pair}
    <2>1. /\ DOMAIN old = 1..Len(old) /\ Len(old) \in Nat
          /\ DOMAIN Append(old, pair) = 1..(Len(old) + 1)
          /\ \A k \in 1..Len(old) : Append(old, pair)[k] = old[k]
          /\ Append(old, pair)[Len(old) + 1] = pair
      BY <1>0, <1>p
    <2>2. \A k \in 1..(Len(old) + 1) : k \in 1..Len(old) \/ k = Len(old) + 1
      BY <2>1
    <2>3. Len(old) + 1 \in 1..(Len(old) + 1) /\ \A k \in 1..Len(old) : k \in 1..(Len(old) + 1)
      BY <2>1
    <2>n. PICK new : new = Append(old, pair)
      OBVIOUS
    <2>4. {new[k] : k \in DOMAIN new} = {old[k] : k \in DOMAIN old} \union {pair}
      <3>1. ASSUME NEW x PROVE (\E k \in DOMAIN new : x = new[k]) <=> (\E k \in DOMAIN old : x = old[k]) \/ x = pair
        BY <2>1, <2>2, <2>3, <2>n
      <3> QED BY <3>1
    <2>5. /\ Range(worker[c][u].local)' = {worker'[c][u].local[k] : k \in DOMAIN worker'[c][u].local}
          /\ Range(worker[c][u].local) = {worker[c][u].local[k] : k \in DOMAIN worker[c][u].local}
      BY DEF Range
    <2>6. worker'[c][u].local = new /\ worker[c][u].local = old
      BY <1>2, <1>o, <2>n
    <2>7. Range(worker[c][u].local)' = {new[k] : k \in DOMAIN new}
      BY <2>5, <2>6
    <2>8. Range(worker[c][u].local) = {old[k] : k \in DOMAIN old}
      BY <2>5, <2>6
    <2> QED BY <2>4, <2>7, <2>8
  <1>6. \A w \in 1..W : w # u => Range(worker[c][w].local)' = Range(worker[c][w].local)
    BY <1>2 DEF Range
  <1>7. Pairs(c)' = Pairs(c) \union {pair}
    <2>1. ASSUME NEW x PROVE (\E w \in 1..W : x \in Range(worker[c][w].local)')
                            <=> (\E w \in 1..W : x \in Range(worker[c][w].local)) \/ x = pair
      BY <1>5, <1>6
    <2> QED BY <2>1 DEF Pairs
  <1>8. \A q \in Pairs(c) : q[1] # i
    <2>1. ASSUME NEW q \in Pairs(c), q[1] = i PROVE FALSE
      <3>1. PICK w \in 1..W : \E k \in DOMAIN worker[c][w].local : q = worker[c][w].local[k]
        BY DEF Pairs, Range
      <3> QED BY <1>3, <2>1, <3>1 DEF Has
    <2> QED BY <2>1
  <1>9. ValueOf(c, i)' = r
    <2>1. pair \in Pairs(c)' /\ pair[1] = i /\ pair[2] = r
      BY <1>7, <1>p
    <2>2. \A q \in Pairs(c)' : q[1] = i => q = pair
      BY <1>7, <1>8
    <2>3. (CHOOSE q \in Pairs(c)' : q[1] = i) = pair
      BY <2>1, <2>2
    <2> QED BY <2>1, <2>3 DEF ValueOf
  <1>10. ASSUME NEW j \in Items, j # i PROVE ValueOf(c, j)' = ValueOf(c, j)
    <2>1. {q \in Pairs(c)' : q[1] = j} = {q \in Pairs(c) : q[1] = j}
      BY <1>7, <1>10, <1>p
    <2>2. (\E q \in Pairs(c)' : q[1] = j) <=> \E q \in Pairs(c) : q[1] = j
      BY <2>1
    <2>3. ASSUME NEW q PROVE (q \in Pairs(c)' /\ q[1] = j) <=> (q \in Pairs(c) /\ q[1] = j)
      BY <2>1
    <2>4. (CHOOSE q \in Pairs(c)' : q[1] = j) = (CHOOSE q \in Pairs(c) : q[1] = j)
      BY <2>3
    <2> QED BY <2>2, <2>4 DEF ValueOf
  <1>11. ASSUME NEW d \in Calls, d # c, NEW j \in Items PROVE ValueOf(d, j)' = ValueOf(d, j)
    BY <1>2, <1>11, ValuesKept
  <1>12. ASSUME NEW d \in Calls, NEW j \in Items
         PROVE  ValueOf(d, j)' = IF d = c /\ j = i THEN r ELSE ValueOf(d, j)
    BY <1>9, <1>10, <1>11
  <1> QED BY <1>0, <1>1, <1>4, <1>12, <1>i

LEMMA ComputedEvaluates ==
    ASSUME PoolInv, NEW c \in Calls, NEW u \in 1..W, NEW r \in Results, Computed(c, u, r)
    PROVE  \E i \in Items : Ordered!Evaluate(c, i, r)
  <1> DEFINE v == [d \in Calls |-> [j \in Items |-> ValueOf(d, j)]]
             v1 == [d \in Calls |-> [j \in Items |-> ValueOf(d, j)']]
  <1>i. PICK i \in Items : i = worker[c][u].i
    BY ComputedValues
  <1>1. ValueOf(c, i) = None /\ answer' = answer
    BY <1>i, ComputedValues
  <1>2. ASSUME NEW d \in Calls, NEW j \in Items
        PROVE  ValueOf(d, j)' = IF d = c /\ j = i THEN r ELSE ValueOf(d, j)
    BY <1>i, ComputedValues
  <1>3. v1 = [v EXCEPT ![c][i] = r]
    <2>1. \A d \in Calls : \A j \in Items : v1[d][j] = [v EXCEPT ![c][i] = r][d][j]
      BY <1>2
    <2> QED BY <1>2
  <1>4. v[c][i] = None
    BY <1>1
  <1>5. Values = v /\ Values' = v1
    BY ValuesAre, ValuesNext
  <1> HIDE DEF v, v1
  <1>6. Values[c][i] = None /\ Values' = [Values EXCEPT ![c][i] = r] /\ UNCHANGED answer
    BY <1>1, <1>3, <1>4, <1>5
  <1>7. Ordered!Evaluate(c, i, r)
    BY <1>6, OrderedActions
  <1> QED BY <1>7

\* The join answers with the values, in order, once every item has one.
LEMMA JoinReturns ==
    ASSUME PoolInv, NEW c \in Calls, Join(c) PROVE Ordered!Return(c)
  <1>1. /\ answer[c] = None /\ \A w \in 1..W : worker[c][w].pc = "end"
        /\ answer' = [answer EXCEPT ![c] = InOrder(Joined(c))]
        /\ worker' = worker
    BY DEF Join
  <1>2. ASSUME NEW i \in Items PROVE ValueOf(c, i) \in Results
    <2>1. PICK w \in 1..W : Has(c, w, i)
      BY <1>1, EveryItemHad
    <2>2. PICK l \in DOMAIN worker[c][w].local : worker[c][w].local[l][1] = i
      BY <2>1 DEF Has
    <2> QED BY <2>2, ValueIsTheResult
  <1>3. ASSUME NEW k \in 1..N PROVE InOrder(Joined(c))[k] = ValueOf(c, k - 1)
    <2>1. PICK w \in 1..W : \E l \in DOMAIN worker[c][w].local :
            worker[c][w].local[l] = <<k - 1, InOrder(Joined(c))[k]>>
      BY <1>1, JoinAnswers
    <2>2. PICK l \in DOMAIN worker[c][w].local :
            worker[c][w].local[l] = <<k - 1, InOrder(Joined(c))[k]>>
      BY <2>1
    <2>3. ValueOf(c, worker[c][w].local[l][1]) = worker[c][w].local[l][2]
      BY ValueIsTheResult
    <2> QED BY <2>2, <2>3
  <1>k. \A k \in 1..N : k - 1 \in Items
    BY PoolAssumption DEF Items
  <1> DEFINE v == [d \in Calls |-> [j \in Items |-> ValueOf(d, j)]]
  <1>4. InOrder(Joined(c)) = [k \in 1..N |-> v[c][k - 1]]
    <2>1. InOrder(Joined(c)) = [k \in 1..N |-> InOrder(Joined(c))[k]]
      BY <1>1, JoinAnswers
    <2>2. \A k \in 1..N : InOrder(Joined(c))[k] = v[c][k - 1]
      BY <1>3, <1>k
    <2> QED BY <2>1, <2>2
  <1>5. \A i \in Items : v[c][i] # None
    BY <1>2, PoolAssumption
  <1>6. ASSUME NEW d \in Calls, NEW j \in Items PROVE ValueOf(d, j)' = ValueOf(d, j)
    BY <1>1, ValuesKept
  <1>7. v' = v
    BY <1>6
  <1>8. Values = v /\ Values' = v'
    BY ValuesAre, ValuesNext
  <1> HIDE DEF v
  <1>9. /\ \A i \in Items : Values[c][i] # None
        /\ answer' = [answer EXCEPT ![c] = [k \in 1..N |-> Values[c][k - 1]]]
        /\ Values' = Values
    BY <1>1, <1>4, <1>5, <1>7, <1>8
  <1> QED BY <1>1, <1>9, OrderedActions

\* Every step of the pools evaluates an item, returns, or is seen by no caller.
LEMMA PoolImplements ==
    PoolInv /\ [PoolNext]_poolVars => [Ordered!Next]_<<Values, answer>>
  <1> SUFFICES ASSUME PoolInv, [PoolNext]_poolVars PROVE Ordered!Next \/ UNCHANGED <<Values, answer>>
    OBVIOUS
  <1>0. worker \in [Calls -> [1..W -> WorkerState]]
    BY DEF PoolInv, PoolTypes
  <1>1. ASSUME answer' = answer,
               \A c \in Calls, w \in 1..W : worker'[c][w].local = worker[c][w].local
        PROVE  UNCHANGED <<Values, answer>>
    <2>1. \A c \in Calls, i \in Items : ValueOf(c, i)' = ValueOf(c, i)
      BY <1>1, ValuesKept
    <2> QED BY <1>1, <2>1, ValuesAre, ValuesNext
  <1>2. CASE UNCHANGED poolVars
    BY <1>1, <1>2 DEF poolVars
  <1>3. ASSUME NEW c \in Calls, SpawnWorkers(c) PROVE UNCHANGED <<Values, answer>>
    <2>1. ASSUME NEW d \in Calls, NEW w \in 1..W
          PROVE  worker'[d][w].local = worker[d][w].local
      <3>1. worker[d][w] \in WorkerState
        BY <1>0
      <3>2. CASE d = c
        <4>1. worker'[d][w] = [worker[d][w] EXCEPT !.pc = "fetch"]
          BY <1>0, <1>3, <3>2 DEF SpawnWorkers
        <4> QED BY <3>1, <4>1 DEF WorkerState
      <3>3. CASE d # c
        BY <1>0, <1>3, <3>3 DEF SpawnWorkers
      <3> QED BY <3>2, <3>3
    <2> QED BY <1>1, <1>3, <2>1 DEF SpawnWorkers
  <1>4. ASSUME NEW c \in Calls, NEW u \in 1..W, Fetch(c, u) PROVE UNCHANGED <<Values, answer>>
    <2>1. ASSUME NEW d \in Calls, NEW w \in 1..W
          PROVE  worker'[d][w].local = worker[d][w].local
      <3>1. worker[d][w] \in WorkerState
        BY <1>0
      <3>2. CASE d = c /\ w = u
        <4>1. worker'[d][w] = [worker[d][w] EXCEPT !.pc = "f", !.i = next[c]]
          BY <1>0, <1>4, <3>2 DEF Fetch
        <4> QED BY <3>1, <4>1 DEF WorkerState
      <3>3. CASE d # c \/ w # u
        BY <1>0, <1>4, <3>3 DEF Fetch
      <3> QED BY <3>2, <3>3
    <2> QED BY <1>1, <1>4, <2>1 DEF Fetch
  <1>5. ASSUME NEW c \in Calls, NEW u \in 1..W, Exhausted(c, u) PROVE UNCHANGED <<Values, answer>>
    <2>1. ASSUME NEW d \in Calls, NEW w \in 1..W
          PROVE  worker'[d][w].local = worker[d][w].local
      <3>1. worker[d][w] \in WorkerState
        BY <1>0
      <3>2. CASE d = c /\ w = u
        <4>1. worker'[d][w] = [worker[d][w] EXCEPT !.pc = "end"]
          BY <1>0, <1>5, <3>2 DEF Exhausted
        <4> QED BY <3>1, <4>1 DEF WorkerState
      <3>3. CASE d # c \/ w # u
        BY <1>0, <1>5, <3>3 DEF Exhausted
      <3> QED BY <3>2, <3>3
    <2> QED BY <1>1, <1>5, <2>1 DEF Exhausted
  <1>6. ASSUME NEW c \in Calls, NEW u \in 1..W, NEW r \in Results, Computed(c, u, r)
        PROVE  Ordered!Next
    <2>1. \E i \in Items : Ordered!Evaluate(c, i, r)
      BY <1>6, ComputedEvaluates
    <2> QED BY <2>1 DEF Ordered!Next, Ordered!Items, Items
  <1>7. ASSUME NEW c \in Calls, Join(c) PROVE Ordered!Next
    BY <1>7, JoinReturns DEF Ordered!Next
  <1> QED BY <1>2, <1>3, <1>4, <1>5, <1>6, <1>7 DEF PoolNext

LEMMA PoolInitImplements == PoolInit => Ordered!Init
  <1> SUFFICES ASSUME PoolInit PROVE Ordered!Init
    OBVIOUS
  <1>1. ASSUME NEW c \in Calls, NEW i \in Items PROVE ValueOf(c, i) = None
    <2>1. \A w \in 1..W : worker[c][w].local = <<>>
      BY DEF PoolInit
    <2>2. \A w \in 1..W : ~Has(c, w, i)
      BY <2>1 DEF Has
    <2> QED BY <2>2, NoValueYet
  <1>2. Ordered!Items = Items
    BY DEF Ordered!Items, Items
  <1> QED BY <1>1, <1>2 DEF PoolInit, Ordered!Init

\* Any number of calls, of any numbers of items and workers, in any interleaving, return
\* the results of their items in the order of the items (parallel.rs:4).
THEOREM PoolMapsInOrder == PoolSpec => MapsInOrder
  <1> QED BY PoolInitInv, PoolNextInv, PoolInitImplements, PoolImplements, PTL
          DEF PoolSpec, MapsInOrder, Ordered!Spec, Values

-----------------------------------------------------------------------------
(* The dialog runs pools: each of its steps is a step of one, or leaves them alone. *)

LEMMA DialogStepsPool == [Next]_vars => [PoolNext]_poolVars
  <1> SUFFICES ASSUME [Next]_vars PROVE [PoolNext]_poolVars OBVIOUS
  <1>1. CASE UNCHANGED vars
    BY <1>1 DEF vars
  <1>2. ASSUME NEW c \in Calls, start_convert(c) PROVE PoolNext
    BY <1>2 DEF start_convert, PoolNext
  <1>3. ASSUME NEW c \in Calls, RunStep(c) PROVE [PoolNext]_poolVars
    <2>1. ASSUME NEW w \in 1..W, TakeIndex(c, w) PROVE PoolNext
      BY <2>1 DEF TakeIndex, PoolNext
    <2>2. ASSUME NEW w \in 1..W, SkipFile(c, w) PROVE PoolNext
      BY <2>2, OptionAssumption DEF SkipFile, PoolNext
    <2>3. ASSUME NEW w \in 1..W, StartFile(c, w) PROVE UNCHANGED poolVars
      BY <2>3 DEF StartFile
    <2>4. ASSUME NEW w \in 1..W, NEW r \in Results, FinishFile(c, w, r) PROVE PoolNext
      BY <2>4 DEF FinishFile, PoolNext
    <2>5. MapReturns(c) => PoolNext
      BY DEF MapReturns, PoolNext
    <2>6. RememberOutput(c) \/ PostDone(c) => UNCHANGED poolVars
      BY DEF RememberOutput, PostDone
    <2> QED BY <1>3, <2>1, <2>2, <2>3, <2>4, <2>5, <2>6 DEF RunStep
  <1>4. update_ok_enabled \/ CancelRun \/ CancelDialog \/ CloseWindow \/ HandleDone
            \/ HandleDoneInBox \/ AnswerBox => UNCHANGED poolVars
    BY DEF update_ok_enabled, CancelRun, CancelDialog, CloseWindow, HandleDone,
           HandleDoneInBox, AnswerBox
  <1> QED BY <1>1, <1>2, <1>3, <1>4 DEF Next

\* However many runs overlap, and cancelled or not, each run takes each of its files once.
THEOREM DialogEachOnce == Spec => []EachOnce
  <1>1. Init => PoolInv
    BY PoolInitInv DEF Init
  <1>2. PoolInv /\ [Next]_vars => PoolInv'
    BY DialogStepsPool, PoolNextInv
  <1>3. PoolInv => EachOnce
    BY DEF PoolInv
  <1> QED BY <1>1, <1>2, <1>3, PTL DEF Spec

\* So do the runs of a dialog, cancelled or not, however they overlap.
THEOREM DialogMapsInOrder == Spec => MapsInOrder
  <1>1. Init => PoolInv /\ Ordered!Init
    BY PoolInitInv, PoolInitImplements DEF Init
  <1>2. PoolInv /\ [Next]_vars => PoolInv'
    BY DialogStepsPool, PoolNextInv
  <1>3. PoolInv /\ [Next]_vars => [Ordered!Next]_<<Values, answer>>
    BY DialogStepsPool, PoolImplements
  <1> QED BY <1>1, <1>2, <1>3, PTL DEF Spec, MapsInOrder, Ordered!Spec, Values

-----------------------------------------------------------------------------
(* A single run and the end of the process *)

Busy == {"map", "count", "post"}
Messages == [call : Calls, ok : Nat]

\* The fields the argument reads, and nothing it does not need.
RunTypes ==
    /\ run \in [Calls -> {"off", "map", "count", "post", "done"}]
    /\ posted \in Seq(Messages)
    /\ converting \subseteq Calls \X (1..W)

\* Workers work while their run maps, and convert the file they have in hand.
ConvertingMaps ==
    \A c \in Calls, w \in 1..W :
        /\ worker[c][w].pc \in {"fetch", "f"} => run[c] = "map"
        /\ <<c, w>> \in converting => worker[c][w].pc = "f"

\* A run that has posted its end, and one whose end the box reports, has no thread left.
PostedAreDone == \A k \in 1..Len(posted) : run[posted[k].call] = "done"
BoxIsDone == ui \in {"box", "stuck"} => box.call \in Calls /\ run[box.call] = "done"

\* CONVERT_RUNNING tells the truth about a single run.
FlagOfOneRun == OneRun => \A c \in Calls : run[c] \in Busy => running

GoneIsGone == gone_by \in {"cancel", "answer"} => ui = "gone"

RunInv ==
    /\ RunTypes
    /\ ConvertingMaps
    /\ PostedAreDone
    /\ BoxIsDone
    /\ FlagOfOneRun
    /\ GoneIsGone
    /\ InFlightFinish

LEMMA RunInitInv == Init => RunInv
  <1> SUFFICES ASSUME Init PROVE RunInv OBVIOUS
  <1>1. RunTypes
    BY DEF Init, RunTypes
  <1>2. ConvertingMaps
    <2>1. \A c \in Calls, w \in 1..W : worker[c][w].pc = "off"
      BY DEF Init, PoolInit
    <2> QED BY <2>1 DEF Init, ConvertingMaps
  <1>4. PostedAreDone /\ BoxIsDone /\ GoneIsGone /\ InFlightFinish
    BY NoneAssumption DEF Init, PostedAreDone, BoxIsDone, GoneIsGone, InFlightFinish
  <1>3. FlagOfOneRun
    BY DEF Init, FlagOfOneRun, Busy
  <1> QED BY <1>1, <1>2, <1>3, <1>4 DEF RunInv

\* The count a run posts is a number.
LEMMA OkIsCounted == \A c \in Calls : Cardinality(Ok(c)) \in Nat
  <1> SUFFICES ASSUME NEW c \in Calls PROVE Cardinality(Ok(c)) \in Nat OBVIOUS
  <1>1. Ok(c) \subseteq 1..N
    BY DEF Ok
  <1>2. IsFiniteSet(1..N)
    BY FS_Interval, PoolAssumption
  <1> QED BY <1>1, <1>2, FS_Subset, FS_CardinalityType

\* A run that starts is the only one, if there is one only, and sets the flag.
LEMMA StartRunInv ==
    ASSUME RunInv, PoolInv, NEW c \in Calls, start_convert(c) PROVE RunInv'
  <1>0. /\ run[c] = "off" /\ run' = [run EXCEPT ![c] = "map"]
        /\ ui = "open" /\ ui' = "open" /\ running' = TRUE
        /\ UNCHANGED <<gone_by, posted, converting>>
        /\ SpawnWorkers(c)
    BY DEF start_convert, files
  <1>1. RunTypes'
    BY <1>0 DEF RunInv, RunTypes
  <1>2. ConvertingMaps'
    <2>1. ASSUME NEW d \in Calls, NEW w \in 1..W
          PROVE  /\ worker'[d][w].pc \in {"fetch", "f"} => run'[d] = "map"
                 /\ <<d, w>> \in converting => worker'[d][w].pc = "f"
      <3>0. /\ worker[d][w].pc \in {"fetch", "f"} => run[d] = "map"
            /\ <<d, w>> \in converting => worker[d][w].pc = "f"
        BY DEF RunInv, ConvertingMaps
      <3>1. CASE d = c
        BY <1>0, <3>0, <3>1 DEF RunInv, RunTypes
      <3>2. CASE d # c
        BY <1>0, <3>0, <3>2 DEF RunInv, RunTypes, SpawnWorkers, PoolInv, PoolTypes
      <3> QED BY <3>1, <3>2
    <2> QED BY <1>0, <2>1 DEF ConvertingMaps
  <1>3. PostedAreDone'
    <2>1. ASSUME NEW k \in 1..Len(posted) PROVE run'[posted[k].call] = "done"
      <3>1. run[posted[k].call] = "done" /\ posted[k].call \in Calls
        <4>1. posted \in Seq(Messages)
          BY DEF RunInv, RunTypes
        <4>2. posted[k] \in Messages
          BY <4>1
        <4> QED BY <4>2 DEF RunInv, PostedAreDone, Messages
      <3> QED BY <1>0, <3>1 DEF RunInv, RunTypes
    <2> QED BY <1>0, <2>1 DEF PostedAreDone
  <1>4. BoxIsDone' /\ FlagOfOneRun'
    BY <1>0 DEF BoxIsDone, FlagOfOneRun
  <1>5. GoneIsGone' /\ InFlightFinish'
    BY <1>0 DEF RunInv, GoneIsGone, InFlightFinish
  <1> QED BY <1>1, <1>2, <1>3, <1>4, <1>5 DEF RunInv

\* A step that moves no run, no message, no conversion and no worker.
LEMMA UserInv ==
    ASSUME RunInv, UNCHANGED <<run, running, posted, converting, worker>>,
           BoxIsDone', GoneIsGone', InFlightFinish'
    PROVE  RunInv'
  <1>1. RunTypes' /\ ConvertingMaps' /\ PostedAreDone'
    BY DEF RunInv, RunTypes, ConvertingMaps, PostedAreDone
  <1>2. FlagOfOneRun'
    BY DEF RunInv, FlagOfOneRun, OneRun, Started
  <1> QED BY <1>1, <1>2 DEF RunInv

\* Cancel closes the dialog only when no run is busy, and then no file is converted.
LEMMA CancelDialogInv ==
    ASSUME RunInv, CancelDialog PROVE RunInv'
  <1>0. /\ UNCHANGED <<run, running, posted, converting, worker>>
        /\ running = FALSE /\ ui' = "gone" /\ gone_by' = "cancel"
    BY DEF CancelDialog, Destroy, flags, files, poolVars
  <1>1. OneRun => converting = {}
    <2>1. ASSUME OneRun, NEW p \in converting PROVE FALSE
      <3>1. PICK c \in Calls, w \in 1..W : p = <<c, w>>
        BY <2>1 DEF RunInv, RunTypes
      <3>2. run[c] = "map"
        BY <2>1, <3>1 DEF RunInv, ConvertingMaps
      <3> QED BY <1>0, <2>1, <3>2 DEF RunInv, FlagOfOneRun, Busy
    <2> QED BY <2>1
  <1>2. BoxIsDone' /\ GoneIsGone' /\ InFlightFinish'
    BY <1>0, <1>1 DEF BoxIsDone, GoneIsGone, InFlightFinish, OneRun, Started
  <1> QED BY <1>0, <1>2, UserInv

\* The run the box reports is over, and if it is the only one nothing is converted.
LEMMA AnswerBoxInv ==
    ASSUME RunInv, AnswerBox PROVE RunInv'
  <1>0. /\ UNCHANGED <<run, running, posted, converting, worker>>
        /\ ui = "box" /\ ui' = "gone" /\ gone_by' = "answer"
    BY DEF AnswerBox, Destroy, flags, files, poolVars
  <1>1. OneRun => converting = {}
    <2>1. ASSUME OneRun, NEW p \in converting PROVE FALSE
      <3>1. PICK c \in Calls, w \in 1..W : p = <<c, w>>
        BY <2>1 DEF RunInv, RunTypes
      <3>2. run[c] = "map"
        BY <2>1, <3>1 DEF RunInv, ConvertingMaps
      <3>3. box.call \in Calls /\ run[box.call] = "done"
        BY <1>0 DEF RunInv, BoxIsDone
      <3> QED BY <2>1, <3>2, <3>3 DEF OneRun, Started
    <2> QED BY <2>1
  <1>2. BoxIsDone' /\ GoneIsGone' /\ InFlightFinish'
    BY <1>0, <1>1 DEF BoxIsDone, GoneIsGone, InFlightFinish, OneRun, Started
  <1> QED BY <1>0, <1>2, UserInv

\* The other steps of the user.
LEMMA OtherUserInv ==
    ASSUME RunInv, update_ok_enabled \/ CancelRun \/ CloseWindow PROVE RunInv'
  <1>1. UNCHANGED <<run, running, posted, converting, worker>>
    BY DEF update_ok_enabled, CancelRun, CloseWindow, flags, files, poolVars
  <1>2. CASE update_ok_enabled \/ CancelRun
    <2>1. UNCHANGED <<ui, gone_by, box>>
      BY <1>2 DEF update_ok_enabled, CancelRun
    <2> QED BY <1>1, <2>1, UserInv DEF RunInv, BoxIsDone, GoneIsGone, InFlightFinish, OneRun, Started
  <1>3. CASE CloseWindow
    <2>1. ui' = "gone" /\ gone_by' = "x"
      BY <1>3 DEF CloseWindow, Destroy
    <2> QED BY <1>1, <2>1, UserInv DEF BoxIsDone, GoneIsGone, InFlightFinish
  <1> QED BY <1>2, <1>3

\* The message that clears the flag comes from a run that is over.
LEMMA HandleDoneInv ==
    ASSUME RunInv, HandleDone \/ HandleDoneInBox PROVE RunInv'
  <1>0. /\ posted # <<>> /\ posted' = Tail(posted)
        /\ UNCHANGED <<run, converting, worker, gone_by>>
        /\ ui \in {"open", "box"}
    BY DEF HandleDone, HandleDoneInBox, files, poolVars
  <1>1. /\ posted \in Seq(Messages) /\ Len(posted) \in Nat \ {0}
        /\ posted' \in Seq(Messages)
        /\ Len(posted') = Len(posted) - 1
        /\ \A k \in 1..Len(posted') : posted'[k] = posted[k + 1]
        /\ Head(posted) = posted[1] /\ posted[1].call \in Calls
    <2>1. posted \in Seq(Messages)
      BY DEF RunInv, RunTypes
    <2>2. Len(posted) \in Nat \ {0}
      BY <1>0, <2>1
    <2>3. /\ Tail(posted) \in Seq(Messages) /\ Len(Tail(posted)) = Len(posted) - 1
          /\ \A k \in 1..(Len(posted) - 1) : Tail(posted)[k] = posted[k + 1]
          /\ Head(posted) = posted[1] /\ posted[1] \in Messages
      BY <1>0, <2>1, <2>2
    <2>4. posted[1].call \in Calls
      BY <2>3 DEF Messages
    <2> QED BY <1>0, <2>1, <2>2, <2>3, <2>4
  <1>2. run[Head(posted).call] = "done"
    BY <1>1 DEF RunInv, PostedAreDone
  <1>3. RunTypes' /\ ConvertingMaps'
    BY <1>0, <1>1 DEF RunInv, RunTypes, ConvertingMaps
  <1>4. PostedAreDone'
    <2>1. \A k \in 1..Len(posted') : k + 1 \in 1..Len(posted)
      BY <1>1
    <2> QED BY <1>0, <1>1, <2>1 DEF RunInv, PostedAreDone
  <1>5. BoxIsDone'
    <2>1. CASE HandleDone
      <3>1. box'.call = Head(posted).call
        BY <2>1 DEF HandleDone
      <3> QED BY <1>0, <1>1, <1>2, <3>1 DEF BoxIsDone
    <2>2. CASE HandleDoneInBox
      <3>1. ui = "box" /\ box' = box
        BY <2>2 DEF HandleDoneInBox
      <3> QED BY <1>0, <3>1 DEF RunInv, BoxIsDone
    <2> QED BY <2>1, <2>2
  <1>6. FlagOfOneRun'
    <2>1. ASSUME OneRun, NEW c \in Calls PROVE run[c] \notin Busy
      BY <1>1, <1>2, <2>1 DEF OneRun, Started, Busy
    <2> QED BY <1>0, <2>1 DEF FlagOfOneRun, OneRun, Started
  <1>7. GoneIsGone' /\ InFlightFinish'
    BY <1>0 DEF RunInv, GoneIsGone, InFlightFinish
  <1> QED BY <1>3, <1>4, <1>5, <1>6, <1>7 DEF RunInv

\* A step of a worker, which no other thread and no message notices.
LEMMA WorkerInv ==
    ASSUME RunInv, ui # "gone", UNCHANGED <<run, running, posted, ui, gone_by, box>>,
           converting' \subseteq Calls \X (1..W), ConvertingMaps'
    PROVE  RunInv'
  <1>1. RunTypes' /\ PostedAreDone' /\ BoxIsDone' /\ GoneIsGone'
    BY DEF RunInv, RunTypes, PostedAreDone, BoxIsDone, GoneIsGone
  <1>2. FlagOfOneRun'
    BY DEF RunInv, FlagOfOneRun, OneRun, Started
  <1>3. InFlightFinish'
    BY DEF RunInv, GoneIsGone, InFlightFinish
  <1> QED BY <1>1, <1>2, <1>3 DEF RunInv

\* The workers of the steps below are at the cursor or hold a file.
LEMMA WorkersInv ==
    ASSUME RunInv, PoolInv, ui # "gone", NEW c \in Calls, NEW w \in 1..W,
           \/ TakeIndex(c, w)
           \/ SkipFile(c, w)
           \/ StartFile(c, w)
           \/ \E r \in Results : FinishFile(c, w, r)
    PROVE  RunInv'
  <1>0. UNCHANGED <<run, running, posted, ui, gone_by, box>>
    BY DEF TakeIndex, SkipFile, StartFile, FinishFile, window, flags
  <1>1. worker \in [Calls -> [1..W -> WorkerState]]
    BY DEF PoolInv, PoolTypes
  <1>2. worker[c][w].pc \in {"fetch", "f"}
    BY DEF TakeIndex, SkipFile, StartFile, FinishFile, Fetch, Exhausted, Computed
  <1>3. run[c] = "map"
    BY <1>2 DEF RunInv, ConvertingMaps
  <1>4. ASSUME NEW d \in Calls, NEW v \in 1..W, <<d, v>> # <<c, w>>
        PROVE  /\ worker'[d][v] = worker[d][v]
               /\ <<d, v>> \in converting' <=> <<d, v>> \in converting
    <2>1. worker'[d][v] = worker[d][v]
      <3>1. CASE TakeIndex(c, w)
        <4>1. CASE Fetch(c, w)
          BY <1>1, <1>4, <4>1 DEF Fetch
        <4>2. CASE Exhausted(c, w)
          BY <1>1, <1>4, <4>2 DEF Exhausted
        <4> QED BY <3>1, <4>1, <4>2 DEF TakeIndex
      <3>2. CASE SkipFile(c, w)
        BY <1>1, <1>4, <3>2 DEF SkipFile, Computed
      <3>3. CASE StartFile(c, w)
        BY <3>3 DEF StartFile, poolVars
      <3>4. CASE \E r \in Results : FinishFile(c, w, r)
        <4>1. PICK r \in Results : Computed(c, w, r)
          BY <3>4 DEF FinishFile
        <4> QED BY <1>1, <1>4, <4>1 DEF Computed
      <3> QED BY <3>1, <3>2, <3>3, <3>4
    <2>2. <<d, v>> \in converting' <=> <<d, v>> \in converting
      BY <1>4 DEF TakeIndex, SkipFile, StartFile, FinishFile, files
    <2> QED BY <2>1, <2>2
  <1>5. converting' \subseteq Calls \X (1..W)
    BY DEF TakeIndex, SkipFile, StartFile, FinishFile, files, RunInv, RunTypes
  <1>6. <<c, w>> \in converting' => worker'[c][w].pc = "f"
    <2>1. CASE TakeIndex(c, w)
      <3>1. worker[c][w].pc = "fetch" /\ converting' = converting
        BY <2>1 DEF TakeIndex, Fetch, Exhausted, files
      <3> QED BY <3>1 DEF RunInv, ConvertingMaps
    <2>2. CASE SkipFile(c, w)
      BY <2>2 DEF SkipFile, files
    <2>3. CASE StartFile(c, w)
      BY <2>3 DEF StartFile, poolVars
    <2>4. CASE \E r \in Results : FinishFile(c, w, r)
      BY <2>4 DEF FinishFile
    <2> QED BY <2>1, <2>2, <2>3, <2>4
  <1>7. ConvertingMaps'
    <2>1. ASSUME NEW d \in Calls, NEW v \in 1..W
          PROVE  /\ worker'[d][v].pc \in {"fetch", "f"} => run[d] = "map"
                 /\ <<d, v>> \in converting' => worker'[d][v].pc = "f"
      <3>1. CASE <<d, v>> = <<c, w>>
        BY <1>3, <1>6, <3>1
      <3>2. CASE <<d, v>> # <<c, w>>
        BY <1>4, <3>2 DEF RunInv, ConvertingMaps
      <3> QED BY <3>1, <3>2
    <2> QED BY <1>0, <2>1 DEF ConvertingMaps
  <1> QED BY <1>0, <1>5, <1>7, WorkerInv

\* A step of a run's own thread, which leaves it started and moves no worker.
LEMMA ThreadInv ==
    ASSUME RunInv, PoolInv, NEW c \in Calls, NEW to \in {"count", "post", "done"}, ui # "gone",
           run[c] \in Busy, run' = [run EXCEPT ![c] = to],
           \A w \in 1..W : worker[c][w].pc \notin {"fetch", "f"},
           UNCHANGED <<ui, gone_by, box, running, converting, worker>>,
           posted' \in Seq(Messages), PostedAreDone'
    PROVE  RunInv'
  <1>1. RunTypes'
    BY DEF RunInv, RunTypes
  <1>2. ASSUME NEW d \in Calls PROVE run'[d] = IF d = c THEN to ELSE run[d]
    BY DEF RunInv, RunTypes
  <1>3. ConvertingMaps'
    BY <1>2 DEF RunInv, ConvertingMaps
  <1>4. BoxIsDone'
    BY <1>2 DEF RunInv, BoxIsDone, Busy
  <1>5. \A d \in Calls : d \in Started' <=> d \in Started
    BY <1>2 DEF Started, Busy
  <1>6. OneRun' <=> OneRun
    BY <1>5 DEF OneRun, Started
  <1>7. FlagOfOneRun'
    BY <1>2, <1>6 DEF RunInv, FlagOfOneRun, Busy
  <1>8. GoneIsGone' /\ InFlightFinish'
    BY DEF RunInv, GoneIsGone, InFlightFinish
  <1> QED BY <1>1, <1>3, <1>4, <1>7, <1>8 DEF RunInv

\* The messages in the queue come from runs that stay over.
LEMMA PostedKept ==
    ASSUME RunInv, NEW c \in Calls, NEW to, run[c] \in Busy, run' = [run EXCEPT ![c] = to],
           NEW k \in 1..Len(posted)
    PROVE  run'[posted[k].call] = "done"
  <1>1. posted \in Seq(Messages)
    BY DEF RunInv, RunTypes
  <1>2. posted[k].call \in Calls
    <2>1. posted[k] \in Messages
      BY <1>1
    <2> QED BY <2>1 DEF Messages
  <1>3. run[posted[k].call] = "done"
    BY DEF RunInv, PostedAreDone
  <1> QED BY <1>2, <1>3 DEF Busy, RunInv, RunTypes

\* The join, the note of the first output and the post come after the last worker.
LEMMA RunThreadInv ==
    ASSUME RunInv, PoolInv, ui # "gone", NEW c \in Calls,
           MapReturns(c) \/ RememberOutput(c) \/ PostDone(c)
    PROVE  RunInv'
  <1>0. posted \in Seq(Messages)
    BY DEF RunInv, RunTypes
  <1>1. CASE MapReturns(c)
    <2>1. /\ run[c] \in Busy /\ run' = [run EXCEPT ![c] = "count"]
          /\ UNCHANGED <<ui, gone_by, box, running, converting, worker, posted>>
      BY <1>1 DEF MapReturns, Join, Busy, window, flags, files
    <2>2. \A w \in 1..W : worker[c][w].pc \notin {"fetch", "f"}
      BY <1>1 DEF MapReturns, Join
    <2>3. PostedAreDone'
      BY <2>1, PostedKept DEF PostedAreDone
    <2> QED BY <1>0, <2>1, <2>2, <2>3, ThreadInv
  <1>2. CASE RememberOutput(c)
    <2>1. /\ run[c] = "count" /\ run' = [run EXCEPT ![c] = "post"]
          /\ UNCHANGED <<ui, gone_by, box, running, converting, worker, posted>>
      BY <1>2 DEF RememberOutput, window, files, poolVars
    <2>2. \A w \in 1..W : worker[c][w].pc \notin {"fetch", "f"}
      BY <2>1 DEF RunInv, ConvertingMaps
    <2>3. PostedAreDone'
      BY <2>1, PostedKept DEF PostedAreDone, Busy
    <2> QED BY <1>0, <2>1, <2>2, <2>3, ThreadInv DEF Busy
  <1>3. CASE PostDone(c)
    <2> DEFINE m == [call |-> c, ok |-> Cardinality(Ok(c))]
    <2>1. /\ run[c] = "post" /\ run' = [run EXCEPT ![c] = "done"]
          /\ UNCHANGED <<ui, gone_by, box, running, converting, worker>>
          /\ posted' = Append(posted, m)
      BY <1>3 DEF PostDone, window, flags, files, poolVars
    <2>2. \A w \in 1..W : worker[c][w].pc \notin {"fetch", "f"}
      BY <2>1 DEF RunInv, ConvertingMaps
    <2>3. m \in Messages /\ m.call = c
      BY OkIsCounted DEF Messages
    <2>4. run'[c] = "done"
      BY <2>1 DEF RunInv, RunTypes
    <2> HIDE DEF m
    <2>5. posted' \in Seq(Messages)
      BY <1>0, <2>1, <2>3
    <2>6. PostedAreDone'
      <3>1. ASSUME NEW k \in 1..Len(posted') PROVE k \in 1..Len(posted) \/ k = Len(posted) + 1
        BY <1>0, <2>1
      <3>2. /\ \A k \in 1..Len(posted) : posted'[k] = posted[k]
            /\ posted'[Len(posted) + 1] = m
        BY <1>0, <2>1
      <3>3. \A k \in 1..Len(posted) : run'[posted[k].call] = "done"
        <4>1. run[c] \in Busy /\ run' = [run EXCEPT ![c] = "done"]
          BY <2>1 DEF Busy
        <4>2. ASSUME NEW k \in 1..Len(posted) PROVE run'[posted[k].call] = "done"
          BY <4>1, PostedKept
        <4> QED BY <4>2
      <3> QED BY <2>3, <2>4, <3>1, <3>2, <3>3 DEF PostedAreDone
    <2> QED BY <2>1, <2>2, <2>5, <2>6, ThreadInv DEF Busy
  <1> QED BY <1>1, <1>2, <1>3

LEMMA RunNextInv == RunInv /\ PoolInv /\ [Next]_vars => RunInv'
  <1> SUFFICES ASSUME RunInv, PoolInv, [Next]_vars PROVE RunInv' OBVIOUS
  <1>1. CASE UNCHANGED vars
    <2>1. UNCHANGED <<run, running, posted, converting, worker, ui, gone_by, box>>
      BY <1>1 DEF vars, window, flags, files, poolVars
    <2> QED BY <2>1, UserInv DEF RunInv, BoxIsDone, GoneIsGone, InFlightFinish, OneRun, Started
  <1>2. ASSUME NEW c \in Calls, start_convert(c) PROVE RunInv'
    BY <1>2, StartRunInv
  <1>3. ASSUME NEW c \in Calls, RunStep(c) PROVE RunInv'
    BY <1>3, WorkersInv, RunThreadInv DEF RunStep
  <1>4. CASE update_ok_enabled \/ CancelRun \/ CloseWindow
    BY <1>4, OtherUserInv
  <1>5. CASE CancelDialog
    BY <1>5, CancelDialogInv
  <1>6. CASE HandleDone \/ HandleDoneInBox
    BY <1>6, HandleDoneInv
  <1>7. CASE AnswerBox
    BY <1>7, AnswerBoxInv
  <1> QED BY <1>1, <1>2, <1>3, <1>4, <1>5, <1>6, <1>7 DEF Next

\* Of a single run, neither Cancel nor the end of the run ends the process over a file
\* being converted (convert.rs:72), for any number of files and workers.
THEOREM InFlightFinishAlways == Spec => []InFlightFinish
  <1>1. Init => RunInv /\ PoolInv
    BY RunInitInv, PoolInitInv DEF Init
  <1>2. RunInv /\ PoolInv /\ [Next]_vars => (RunInv /\ PoolInv)'
    BY RunNextInv, DialogStepsPool, PoolNextInv
  <1>3. RunInv => InFlightFinish
    BY DEF RunInv
  <1> QED BY <1>1, <1>2, <1>3, PTL DEF Spec

-----------------------------------------------------------------------------
(* What the box says of a run *)

Over == {"count", "post", "done"}

\* A file is written when its value says so, and the call answers with the values.
WrittenIsSome == \A c \in Calls, i \in Items : <<c, i>> \in written <=> ValueOf(c, i) = Some
AnsweredInOrder ==
    /\ DOMAIN answer = Calls
    /\ \A c \in Calls : run[c] \in Over => \A k \in 1..N : answer[c][k] = ValueOf(c, k - 1)

\* What the box ought to offer of a run.
FirstOf(c) ==
    IF Indices(c) = {} THEN None
    ELSE <<c, CHOOSE i \in Indices(c) : \A j \in Indices(c) : i <= j>>

\* The posted counts, LAST_OUTPUT of a single run, and the box.
PostedCounts == \A k \in 1..Len(posted) : posted[k].ok = Cardinality(Indices(posted[k].call))
LastOfOneRun ==
    OneRun => \A c \in Calls :
        /\ run[c] \in {"map", "count"} => last = None
        /\ run[c] \in {"post", "done"} => last = FirstOf(c)
BoxCounts ==
    box # None =>
        /\ box.call \in Calls /\ run[box.call] = "done"
        /\ box.ok = Cardinality(Indices(box.call))
        /\ OneRun => box.reveal = FirstOf(box.call)

ReportInv ==
    /\ WrittenIsSome
    /\ AnsweredInOrder
    /\ PostedCounts
    /\ LastOfOneRun
    /\ BoxCounts

LEMMA ReportInitInv == Init => ReportInv
  <1> SUFFICES ASSUME Init PROVE ReportInv
    OBVIOUS
  <1>1. WrittenIsSome
    <2>1. ASSUME NEW c \in Calls, NEW i \in Items PROVE ValueOf(c, i) = None
      <3>1. \A w \in 1..W : ~Has(c, w, i)
        BY DEF Init, PoolInit, Has
      <3> QED BY <3>1, NoValueYet
    <2>2. None # Some
      BY PoolAssumption, OptionAssumption
    <2> QED BY <2>1, <2>2 DEF Init, WrittenIsSome
  <1>2. AnsweredInOrder
    BY DEF Init, PoolInit, AnsweredInOrder, Over
  <1>3. PostedCounts /\ LastOfOneRun /\ BoxCounts
    BY DEF Init, PostedCounts, LastOfOneRun, BoxCounts
  <1> QED BY <1>1, <1>2, <1>3 DEF ReportInv

\* The places of the answer that hold an output are those of the written files.
LEMMA OkIsWritten ==
    ASSUME ReportInv, NEW c \in Calls, run[c] \in Over
    PROVE  /\ Indices(c) = {k - 1 : k \in Ok(c)}
           /\ Ok(c) = {i + 1 : i \in Indices(c)}
  <1>n. N \in Nat
    BY PoolAssumption
  <1>1. \A k \in 1..N : k \in Ok(c) <=> k - 1 \in Indices(c)
    <2>1. ASSUME NEW k \in 1..N PROVE k \in Ok(c) <=> k - 1 \in Indices(c)
      <3>1. k - 1 \in Items
        BY <1>n DEF Items
      <3>2. answer[c][k] = ValueOf(c, k - 1)
        BY DEF ReportInv, AnsweredInOrder
      <3>3. <<c, k - 1>> \in written <=> ValueOf(c, k - 1) = Some
        BY <3>1 DEF ReportInv, WrittenIsSome
      <3>4. k \in Ok(c) <=> answer[c][k] = Some
        BY DEF Ok
      <3>5. k - 1 \in Indices(c) <=> <<c, k - 1>> \in written
        BY <3>1 DEF Indices
      <3> QED BY <3>2, <3>3, <3>4, <3>5
    <2> QED BY <2>1
  <1>2. Ok(c) \subseteq 1..N /\ Indices(c) \subseteq Items
    BY DEF Ok, Indices
  <1>3. \A i \in Items : i + 1 \in 1..N /\ (i + 1) - 1 = i
    BY <1>n DEF Items
  <1>4. \A k \in 1..N : k - 1 \in Items /\ (k - 1) + 1 = k
    BY <1>n DEF Items
  <1>o. PICK ok : ok = Ok(c) OBVIOUS
  <1>d. PICK ind : ind = Indices(c) OBVIOUS
  <1>5. ind = {k - 1 : k \in ok}
    <2>1. ASSUME NEW i \in ind PROVE i + 1 \in ok /\ i = (i + 1) - 1
      BY <1>1, <1>2, <1>3, <1>o, <1>d
    <2>2. ASSUME NEW k \in ok PROVE k - 1 \in ind
      BY <1>1, <1>2, <1>o, <1>d
    <2> QED BY <2>1, <2>2
  <1>6. ok = {i + 1 : i \in ind}
    <2>1. ASSUME NEW i \in ind PROVE i + 1 \in ok
      BY <1>1, <1>2, <1>3, <1>o, <1>d
    <2>2. ASSUME NEW k \in ok PROVE k - 1 \in ind /\ k = (k - 1) + 1
      BY <1>1, <1>2, <1>4, <1>o, <1>d
    <2> QED BY <2>1, <2>2
  <1> QED BY <1>5, <1>6, <1>o, <1>d

LEMMA OkCounts ==
    ASSUME ReportInv, NEW c \in Calls, run[c] \in Over
    PROVE  Cardinality(Ok(c)) = Cardinality(Indices(c))
  <1>o. PICK ok : ok = Ok(c) OBVIOUS
  <1>d. PICK ind : ind = Indices(c) OBVIOUS
  <1>1. ind = {k - 1 : k \in ok}
    BY <1>o, <1>d, OkIsWritten
  <1>2. ok \subseteq 1..N /\ N \in Nat
    BY <1>o, PoolAssumption DEF Ok
  <1>3. IsFiniteSet(ok)
    <2>1. IsFiniteSet(1..N)
      BY <1>2, FS_Interval
    <2> QED BY <1>2, <2>1, FS_Subset
  <1>f. PICK f : f = [k \in ok |-> k - 1] OBVIOUS
  <1>4. f \in [ok -> ind]
    BY <1>1, <1>f
  <1>5. \A j, k \in ok : f[j] = f[k] => j = k
    <2>1. ASSUME NEW j \in ok, NEW k \in ok, f[j] = f[k] PROVE j = k
      <3>1. j - 1 = k - 1 /\ j \in Int /\ k \in Int
        BY <1>2, <1>f, <2>1
      <3> QED BY <3>1
    <2> QED BY <2>1
  <1>6. \A i \in ind : \E k \in ok : f[k] = i
    BY <1>1, <1>f
  <1>7. f \in Bijection(ok, ind)
    BY <1>4, <1>5, <1>6 DEF Bijection, Injection, Surjection, IsInjective
  <1>8. ExistsBijection(ok, ind)
    BY <1>7 DEF ExistsBijection
  <1> QED BY <1>3, <1>8, <1>o, <1>d, FS_Bijection

\* The first output of the answer is the first file of the selection that was written.
LEMMA FirstIsFirst ==
    ASSUME ReportInv, NEW c \in Calls, run[c] \in Over
    PROVE  FirstOf(c) = IF Ok(c) # {} THEN <<c, first_output(c) - 1>> ELSE None
  <1>o. PICK ok : ok = Ok(c) OBVIOUS
  <1>d. PICK ind : ind = Indices(c) OBVIOUS
  <1>1. ind = {k - 1 : k \in ok} /\ ok = {i + 1 : i \in ind}
    BY <1>o, <1>d, OkIsWritten
  <1>2. ok \subseteq Nat /\ ind \subseteq Int /\ \A i \in ind : i + 1 \in ok
    <2>1. ok \subseteq Nat
      BY <1>o, PoolAssumption DEF Ok
    <2>2. ind \subseteq Int
      BY <1>d, PoolAssumption DEF Indices, Items
    <2> QED BY <1>1, <2>1, <2>2
  <1>3. ASSUME ok # {}
        PROVE  (CHOOSE i \in ind : \A j \in ind : i <= j) = (CHOOSE k \in ok : \A l \in ok : k <= l) - 1
    <2>1. PICK k \in ok : \A l \in ok : k <= l
      BY <1>2, <1>3, LeastOf
    <2>2. \A l \in ok : (\A m \in ok : l <= m) => l = k
      BY <1>2, <2>1
    <2>3. (CHOOSE x \in ok : \A l \in ok : x <= l) = k
      BY <2>1, <2>2
    <2>4. k - 1 \in ind /\ \A j \in ind : k - 1 <= j
      <3>1. k - 1 \in ind
        BY <1>1
      <3>2. ASSUME NEW j \in ind PROVE k - 1 <= j
        <4>1. k <= j + 1 /\ j \in Int /\ k \in Int
          BY <1>2, <2>1
        <4> QED BY <4>1
      <3> QED BY <3>1, <3>2
    <2>5. \A i \in ind : (\A j \in ind : i <= j) => i = k - 1
      <3>1. ASSUME NEW i \in ind, \A j \in ind : i <= j PROVE i = k - 1
        <4>1. i <= k - 1 /\ k - 1 <= i /\ i \in Int /\ k \in Int
          BY <1>2, <2>4, <3>1
        <4> QED BY <4>1
      <3> QED BY <3>1
    <2>6. (CHOOSE i \in ind : \A j \in ind : i <= j) = k - 1
      BY <2>4, <2>5
    <2> QED BY <2>3, <2>6
  <1>4. ind = {} <=> ok = {}
    BY <1>1
  <1>5. FirstOf(c) = IF ind = {} THEN None ELSE <<c, CHOOSE i \in ind : \A j \in ind : i <= j>>
    BY <1>d DEF FirstOf
  <1>6. first_output(c) = CHOOSE k \in ok : \A l \in ok : k <= l
    BY <1>o DEF first_output
  <1> QED BY <1>3, <1>4, <1>5, <1>6, <1>o, Zenon

\* What a run has written, and its values, stay when no worker of it pushes a result.
SameRun(c) ==
    /\ Indices(c)' = Indices(c)
    /\ \A i \in Items : ValueOf(c, i)' = ValueOf(c, i)

LEMMA SameRunKeeps ==
    ASSUME NEW c \in Calls, SameRun(c)
    PROVE  /\ FirstOf(c)' = FirstOf(c)
           /\ \A i \in Items : <<c, i>> \in written' <=> <<c, i>> \in written
  <1>1. Indices(c)' = Indices(c)
    BY DEF SameRun
  <1>2. FirstOf(c)' = FirstOf(c)
    BY <1>1 DEF FirstOf
  <1>3. ASSUME NEW i \in Items PROVE <<c, i>> \in written' <=> <<c, i>> \in written
    <2>1. (i \in Indices(c) <=> <<c, i>> \in written) /\ (i \in Indices(c)' <=> <<c, i>> \in written')
      BY DEF Indices
    <2> QED BY <1>1, <2>1
  <1> QED BY <1>2, <1>3

\* A step that moves no run, message, box or result.
LEMMA QuietReport ==
    ASSUME ReportInv, UNCHANGED <<run, answer, posted, box, last, written>>,
           \A c \in Calls, w \in 1..W : worker'[c][w].local = worker[c][w].local
    PROVE  ReportInv'
  <1>1. ASSUME NEW c \in Calls, NEW i \in Items PROVE ValueOf(c, i)' = ValueOf(c, i)
    BY ValuesKept
  <1>2. ASSUME NEW c PROVE Indices(c)' = Indices(c) /\ FirstOf(c)' = FirstOf(c)
    BY DEF Indices, FirstOf
  <1>3. WrittenIsSome'
    BY <1>1 DEF ReportInv, WrittenIsSome
  <1>4. AnsweredInOrder'
    <2>1. \A k \in 1..N : k - 1 \in Items
      BY PoolAssumption DEF Items
    <2> QED BY <1>1, <2>1 DEF ReportInv, AnsweredInOrder
  <1>5. PostedCounts'
    BY <1>2 DEF ReportInv, PostedCounts
  <1>6. (OneRun' <=> OneRun) /\ run' = run /\ last' = last /\ box' = box
    BY DEF OneRun, Started
  <1>7. LastOfOneRun'
    BY <1>2, <1>6 DEF ReportInv, LastOfOneRun
  <1>8. BoxCounts'
    BY <1>2, <1>6 DEF ReportInv, BoxCounts
  <1> QED BY <1>3, <1>4, <1>5, <1>7, <1>8 DEF ReportInv

\* Only a run that maps has results pushed.
LEMMA PushedWhileMapping ==
    ASSUME RunInv, NEW c \in Calls, NEW w \in 1..W, NEW r \in Results, Computed(c, w, r)
    PROVE  run[c] = "map"
  BY DEF RunInv, ConvertingMaps, Computed

\* A result that is pushed is written exactly if it is an output.
LEMMA PushReport ==
    ASSUME ReportInv, RunInv, PoolInv, NEW c \in Calls, NEW w \in 1..W, NEW r \in Results,
           Computed(c, w, r), UNCHANGED <<run, posted, box, last>>,
           written' = IF r = Some THEN written \union {<<c, worker[c][w].i>>} ELSE written
    PROVE  ReportInv'
  <1>i. PICK i : i = worker[c][w].i
    OBVIOUS
  <1>1. i \in Items /\ ValueOf(c, i) = None
    BY <1>i, ComputedValues
  <1>2. answer' = answer
    BY ComputedValues
  <1>3. ASSUME NEW d \in Calls, NEW j \in Items
        PROVE  ValueOf(d, j)' = IF d = c /\ j = i THEN r ELSE ValueOf(d, j)
    BY <1>i, ComputedValues
  <1>4. ValueOf(c, i) = None /\ None # Some
    BY <1>1, PoolAssumption, OptionAssumption
  <1>5. ASSUME NEW d, NEW j
        PROVE  <<d, j>> \in written' <=> <<d, j>> \in written \/ (r = Some /\ d = c /\ j = i)
    BY <1>i
  <1>6. WrittenIsSome'
    <2>1. ASSUME NEW d \in Calls, NEW j \in Items PROVE <<d, j>> \in written' <=> ValueOf(d, j)' = Some
      <3>1. <<d, j>> \in written <=> ValueOf(d, j) = Some
        BY DEF ReportInv, WrittenIsSome
      <3> QED BY <1>3, <1>4, <1>5, <3>1
    <2> QED BY <2>1 DEF WrittenIsSome
  <1>7. run[c] = "map"
    BY PushedWhileMapping
  <1>8. ASSUME NEW d, d # c PROVE Indices(d)' = Indices(d) /\ FirstOf(d)' = FirstOf(d)
    <2>1. Indices(d)' = Indices(d)
      BY <1>5, <1>8 DEF Indices
    <2> QED BY <2>1 DEF FirstOf
  <1>9. AnsweredInOrder'
    <2>1. ASSUME NEW d \in Calls, run'[d] \in Over, NEW k \in 1..N
          PROVE  answer'[d][k] = ValueOf(d, k - 1)'
      <3>1. d # c /\ run[d] \in Over /\ k - 1 \in Items
        BY <1>7, <2>1, PoolAssumption DEF Over, Items
      <3> QED BY <1>2, <1>3, <3>1 DEF ReportInv, AnsweredInOrder
    <2> QED BY <1>2, <2>1 DEF ReportInv, AnsweredInOrder
  <1>10. PostedCounts'
    <2>1. ASSUME NEW k \in 1..Len(posted) PROVE posted[k].ok = Cardinality(Indices(posted[k].call)')
      <3>1. posted[k].call # c
        BY <1>7 DEF RunInv, PostedAreDone
      <3> QED BY <1>8, <3>1 DEF ReportInv, PostedCounts
    <2> QED BY <2>1 DEF PostedCounts
  <1>11. (OneRun' <=> OneRun) /\ run' = run /\ last' = last /\ box' = box
    BY DEF OneRun, Started
  <1>12. LastOfOneRun'
    <2>1. ASSUME OneRun, NEW d \in Calls
          PROVE  /\ run[d] \in {"map", "count"} => last = None
                 /\ run[d] \in {"post", "done"} => last = FirstOf(d)'
      <3>1. run[d] \in {"post", "done"} => d # c
        BY <1>7
      <3> QED BY <1>8, <2>1, <3>1 DEF ReportInv, LastOfOneRun
    <2> QED BY <1>11, <2>1 DEF LastOfOneRun
  <1>13. BoxCounts'
    <2>1. box # None => box.call # c
      BY <1>7 DEF ReportInv, BoxCounts
    <2> QED BY <1>8, <1>11, <2>1 DEF ReportInv, BoxCounts
  <1> QED BY <1>6, <1>9, <1>10, <1>12, <1>13 DEF ReportInv

\* A run that starts ends the time of the run before it.
LEMMA StartReport ==
    ASSUME ReportInv, RunInv, PoolInv, NEW c \in Calls, start_convert(c) PROVE ReportInv'
  <1>1. /\ run[c] = "off" /\ run' = [run EXCEPT ![c] = "map"] /\ last' = None
        /\ UNCHANGED <<posted, box, written, answer>>
        /\ run \in [Calls -> {"off", "map", "count", "post", "done"}]
    BY DEF start_convert, SpawnWorkers, files, RunInv, RunTypes
  <1>2. ASSUME NEW d \in Calls, NEW w \in 1..W PROVE worker'[d][w].local = worker[d][w].local
    <2>0. worker \in [Calls -> [1..W -> WorkerState]]
      BY DEF PoolInv, PoolTypes
    <2>1. worker[d][w] \in WorkerState
      BY <2>0
    <2>2. CASE d = c
      <3>1. worker'[d][w] = [worker[d][w] EXCEPT !.pc = "fetch"]
        BY <2>0, <2>2 DEF start_convert, SpawnWorkers
      <3> QED BY <2>1, <3>1 DEF WorkerState
    <2>3. CASE d # c
      BY <2>0, <2>3 DEF start_convert, SpawnWorkers
    <2> QED BY <2>2, <2>3
  <1>3. ASSUME NEW d \in Calls, NEW i \in Items PROVE ValueOf(d, i)' = ValueOf(d, i)
    BY <1>2, ValuesKept
  <1>4. ASSUME NEW d PROVE Indices(d)' = Indices(d) /\ FirstOf(d)' = FirstOf(d)
    BY <1>1 DEF Indices, FirstOf
  <1>5. ASSUME NEW d \in Calls PROVE run'[d] = IF d = c THEN "map" ELSE run[d]
    BY <1>1
  <1>6. WrittenIsSome'
    BY <1>1, <1>3 DEF ReportInv, WrittenIsSome
  <1>7. AnsweredInOrder'
    <2>1. ASSUME NEW d \in Calls, run'[d] \in Over, NEW k \in 1..N
          PROVE  answer'[d][k] = ValueOf(d, k - 1)'
      <3>1. d # c /\ run[d] \in Over /\ k - 1 \in Items
        BY <1>5, <2>1, PoolAssumption DEF Over, Items
      <3> QED BY <1>1, <1>3, <3>1 DEF ReportInv, AnsweredInOrder
    <2> QED BY <1>1, <2>1 DEF ReportInv, AnsweredInOrder
  <1>8. PostedCounts'
    BY <1>1, <1>4 DEF ReportInv, PostedCounts
  <1>9. ASSUME OneRun', NEW d \in Calls, run'[d] # "off" PROVE d = c
    BY <1>5, <1>9 DEF OneRun, Started
  <1>10. LastOfOneRun'
    BY <1>1, <1>5, <1>9 DEF LastOfOneRun
  <1>11. BoxCounts'
    <2>1. SUFFICES ASSUME box # None
          PROVE  /\ box.call \in Calls /\ run'[box.call] = "done"
                 /\ box.ok = Cardinality(Indices(box.call)')
                 /\ OneRun' => box.reveal = FirstOf(box.call)'
      BY <1>1 DEF BoxCounts
    <2>2. box.call \in Calls /\ run[box.call] = "done" /\ box.call # c
      BY <1>1, <2>1 DEF ReportInv, BoxCounts
    <2>3. run'[box.call] = "done" /\ ~OneRun'
      BY <1>5, <1>9, <2>2
    <2>4. Indices(box.call)' = Indices(box.call)
      BY <1>1 DEF Indices
    <2>5. box.ok = Cardinality(Indices(box.call))
      BY <2>1 DEF ReportInv, BoxCounts
    <2> QED BY <2>2, <2>3, <2>4, <2>5, Zenon
  <1> QED BY <1>6, <1>7, <1>8, <1>10, <1>11 DEF ReportInv

\* A step of a run's own thread moves that run on and pushes and writes nothing.
LEMMA ThreadReport ==
    ASSUME ReportInv, RunInv, PoolInv, NEW c \in Calls, NEW to \in Over, run[c] \in Busy,
           run' = [run EXCEPT ![c] = to], UNCHANGED <<worker, box, written>>,
           AnsweredInOrder', PostedCounts', LastOfOneRun'
    PROVE  ReportInv'
  <1>1. ASSUME NEW d \in Calls, NEW i PROVE ValueOf(d, i)' = ValueOf(d, i)
    BY ValuesKept
  <1>2. WrittenIsSome'
    BY <1>1 DEF ReportInv, WrittenIsSome
  <1>3. run \in [Calls -> {"off", "map", "count", "post", "done"}]
    BY DEF RunInv, RunTypes
  <1>4. OneRun' => OneRun
    <2>1. \A d \in Calls : run[d] # "off" => run'[d] # "off"
      BY <1>3 DEF Over
    <2> QED BY <2>1 DEF OneRun, Started
  <1>5. BoxCounts'
    <2>1. SUFFICES ASSUME box # None
          PROVE  /\ box.call \in Calls /\ run'[box.call] = "done"
                 /\ box.ok = Cardinality(Indices(box.call)')
                 /\ OneRun' => box.reveal = FirstOf(box.call)'
      BY DEF BoxCounts
    <2>2. box.call \in Calls /\ run[box.call] = "done" /\ run'[box.call] = "done"
      BY <1>3, <2>1 DEF ReportInv, BoxCounts, Busy
    <2>3. Indices(box.call)' = Indices(box.call) /\ FirstOf(box.call)' = FirstOf(box.call)
      BY DEF Indices, FirstOf
    <2>4. box.ok = Cardinality(Indices(box.call)) /\ (OneRun => box.reveal = FirstOf(box.call))
      BY <2>1 DEF ReportInv, BoxCounts
    <2> QED BY <1>4, <2>2, <2>3, <2>4, Zenon
  <1> QED BY <1>2, <1>5 DEF ReportInv

\* The join answers with the values.
LEMMA MapReturnsReport ==
    ASSUME ReportInv, RunInv, PoolInv, NEW c \in Calls, MapReturns(c) PROVE ReportInv'
  <1>1. /\ run[c] = "map" /\ Join(c) /\ run' = [run EXCEPT ![c] = "count"]
        /\ UNCHANGED <<worker, box, written, posted, last>>
        /\ run \in [Calls -> {"off", "map", "count", "post", "done"}]
    BY DEF MapReturns, Join, window, flags, files, RunInv, RunTypes
  <1> DEFINE v == [d \in Calls |-> [j \in Items |-> ValueOf(d, j)]]
  <1>2. answer' = [answer EXCEPT ![c] = [k \in 1..N |-> v[c][k - 1]]]
    <2>1. Values = v
      BY ValuesAre
    <2> HIDE DEF v
    <2> QED BY <1>1, <2>1, JoinReturns, OrderedActions
  <1>3. ASSUME NEW d \in Calls, NEW i \in Items
        PROVE  ValueOf(d, i)' = ValueOf(d, i) /\ v[d][i] = ValueOf(d, i)
    BY <1>1, ValuesKept
  <1>4. ASSUME NEW d PROVE Indices(d)' = Indices(d) /\ FirstOf(d)' = FirstOf(d)
    BY <1>1 DEF Indices, FirstOf
  <1>k. \A k \in 1..N : k - 1 \in Items
    BY PoolAssumption DEF Items
  <1>d. DOMAIN answer = Calls
    BY DEF ReportInv, AnsweredInOrder
  <1> HIDE DEF v
  <1>5. AnsweredInOrder'
    <2>1. DOMAIN answer' = Calls
      BY <1>2, <1>d
    <2>2. ASSUME NEW d \in Calls, run'[d] \in Over, NEW k \in 1..N
          PROVE  answer'[d][k] = ValueOf(d, k - 1)'
      <3>1. CASE d = c
        <4>1. answer'[d][k] = v[d][k - 1]
          BY <1>2, <1>d, <3>1
        <4> QED BY <1>3, <1>k, <4>1
      <3>2. CASE d # c
        <4>1. run[d] \in Over /\ answer'[d] = answer[d]
          BY <1>1, <1>2, <1>d, <2>2, <3>2
        <4>2. answer[d][k] = ValueOf(d, k - 1)
          BY <4>1 DEF ReportInv, AnsweredInOrder
        <4> QED BY <1>3, <1>k, <4>1, <4>2
      <3> QED BY <3>1, <3>2
    <2> QED BY <2>1, <2>2 DEF AnsweredInOrder
  <1>6. PostedCounts'
    BY <1>1, <1>4 DEF ReportInv, PostedCounts
  <1>7. LastOfOneRun'
    <2>1. OneRun' => OneRun
      BY <1>1 DEF OneRun, Started
    <2>2. \A d \in Calls : /\ run'[d] \in {"map", "count"} => run[d] \in {"map", "count"}
                           /\ run'[d] \in {"post", "done"} => run[d] \in {"post", "done"}
      BY <1>1
    <2> QED BY <1>1, <1>4, <2>1, <2>2 DEF ReportInv, LastOfOneRun
  <1> QED BY <1>1, <1>5, <1>6, <1>7, ThreadReport DEF Over, Busy

\* LAST_OUTPUT is the first of the outputs, or stays empty.
LEMMA RememberReport ==
    ASSUME ReportInv, RunInv, PoolInv, NEW c \in Calls, RememberOutput(c) PROVE ReportInv'
  <1>1. /\ run[c] = "count" /\ run' = [run EXCEPT ![c] = "post"]
        /\ UNCHANGED <<worker, box, written, posted, answer>>
        /\ last' = IF Ok(c) # {} THEN <<c, first_output(c) - 1>> ELSE last
        /\ run \in [Calls -> {"off", "map", "count", "post", "done"}]
    BY DEF RememberOutput, window, files, poolVars, RunInv, RunTypes
  <1>2. ASSUME NEW d \in Calls, NEW i PROVE ValueOf(d, i)' = ValueOf(d, i)
    BY <1>1, ValuesKept
  <1>3. ASSUME NEW d PROVE Indices(d)' = Indices(d) /\ FirstOf(d)' = FirstOf(d)
    BY <1>1 DEF Indices, FirstOf
  <1>4. AnsweredInOrder'
    <2>1. \A d \in Calls : run'[d] \in Over => run[d] \in Over
      BY <1>1 DEF Over
    <2> QED BY <1>1, <1>2, <2>1 DEF ReportInv, AnsweredInOrder
  <1>5. PostedCounts'
    BY <1>1, <1>3 DEF ReportInv, PostedCounts
  <1>6. LastOfOneRun'
    <2>1. SUFFICES ASSUME OneRun', NEW d \in Calls, run'[d] # "off"
          PROVE  run'[d] = "post" /\ last' = FirstOf(d)'
      <3>1. \A x \in {"map", "count", "post", "done"} : x # "off"
        OBVIOUS
      <3> QED BY <3>1 DEF LastOfOneRun
    <2>2. d = c /\ OneRun
      BY <1>1, <2>1 DEF OneRun, Started
    <2>3. last = None
      BY <1>1, <2>2 DEF ReportInv, LastOfOneRun
    <2>4. FirstOf(c) = IF Ok(c) # {} THEN <<c, first_output(c) - 1>> ELSE None
      BY <1>1, FirstIsFirst DEF Over
    <2>5. last' = FirstOf(c)
      BY <1>1, <2>3, <2>4
    <2> QED BY <1>1, <1>3, <2>2, <2>5
  <1> QED BY <1>1, <1>4, <1>5, <1>6, ThreadReport DEF Over, Busy

\* The count that is posted is that of the files written.
LEMMA PostReport ==
    ASSUME ReportInv, RunInv, PoolInv, NEW c \in Calls, PostDone(c) PROVE ReportInv'
  <1>m. PICK m : m = [call |-> c, ok |-> Cardinality(Ok(c))]
    OBVIOUS
  <1>1. /\ run[c] = "post" /\ run' = [run EXCEPT ![c] = "done"]
        /\ UNCHANGED <<worker, box, written, answer, last>>
        /\ posted' = Append(posted, m)
        /\ run \in [Calls -> {"off", "map", "count", "post", "done"}]
        /\ posted \in Seq(Messages)
    BY <1>m DEF PostDone, window, flags, files, poolVars, RunInv, RunTypes
  <1>2. ASSUME NEW d \in Calls, NEW i PROVE ValueOf(d, i)' = ValueOf(d, i)
    BY <1>1, ValuesKept
  <1>3. ASSUME NEW d PROVE Indices(d)' = Indices(d) /\ FirstOf(d)' = FirstOf(d)
    BY <1>1 DEF Indices, FirstOf
  <1>4. AnsweredInOrder'
    <2>1. \A d \in Calls : run'[d] \in Over => run[d] \in Over
      BY <1>1 DEF Over
    <2> QED BY <1>1, <1>2, <2>1 DEF ReportInv, AnsweredInOrder
  <1>5. PostedCounts'
    <2>1. m.call = c /\ m.ok = Cardinality(Indices(c))
      BY <1>1, <1>m, OkCounts DEF Over
    <2>2. m \in Messages
      BY <1>m, OkIsCounted DEF Messages
    <2>3. /\ Len(posted) \in Nat /\ Len(posted') = Len(posted) + 1
          /\ \A k \in 1..Len(posted) : posted'[k] = posted[k]
          /\ posted'[Len(posted) + 1] = m
      BY <1>1, <2>2
    <2>4. ASSUME NEW k \in 1..Len(posted'), NEW d, d = posted'[k].call
          PROVE  posted'[k].ok = Cardinality(Indices(d)')
      <3>1. Indices(d)' = Indices(d)
        BY <1>3
      <3>2. CASE k = Len(posted) + 1
        BY <2>1, <2>3, <2>4, <3>1, <3>2
      <3>3. CASE k # Len(posted) + 1
        <4>1. k \in 1..Len(posted)
          BY <2>3, <3>3
        <4>2. posted[k].ok = Cardinality(Indices(posted[k].call)) /\ posted'[k] = posted[k]
          BY <2>3, <4>1 DEF ReportInv, PostedCounts
        <4> QED BY <2>4, <3>1, <4>2
      <3> QED BY <3>2, <3>3
    <2> QED BY <2>4 DEF PostedCounts
  <1>6. LastOfOneRun'
    <2>1. OneRun' => OneRun
      BY <1>1 DEF OneRun, Started
    <2>2. \A d \in Calls : /\ run'[d] \in {"map", "count"} => run[d] \in {"map", "count"}
                           /\ run'[d] \in {"post", "done"} => run[d] \in {"post", "done"}
      BY <1>1
    <2> QED BY <1>1, <1>3, <2>1, <2>2 DEF ReportInv, LastOfOneRun
  <1> QED BY <1>1, <1>4, <1>5, <1>6, ThreadReport DEF Over, Busy

\* The box says what was posted, and offers LAST_OUTPUT if there is an output.
LEMMA HandleDoneReport ==
    ASSUME ReportInv, RunInv, HandleDone \/ HandleDoneInBox PROVE ReportInv'
  <1>1. /\ posted # <<>> /\ posted' = Tail(posted)
        /\ UNCHANGED <<run, answer, worker, written, last>>
        /\ posted \in Seq(Messages)
    BY DEF HandleDone, HandleDoneInBox, files, poolVars, RunInv, RunTypes
  <1>2. /\ Len(posted) \in Nat \ {0} /\ Len(posted') = Len(posted) - 1
        /\ \A k \in 1..Len(posted') : posted'[k] = posted[k + 1] /\ k + 1 \in 1..Len(posted)
        /\ Head(posted) = posted[1] /\ posted[1] \in Messages
    <2>1. Len(posted) \in Nat \ {0}
      BY <1>1
    <2>2. /\ Len(Tail(posted)) = Len(posted) - 1
          /\ \A k \in 1..(Len(posted) - 1) : Tail(posted)[k] = posted[k + 1]
          /\ Head(posted) = posted[1] /\ posted[1] \in Messages
      BY <1>1, <2>1
    <2>3. \A k \in 1..(Len(posted) - 1) : k + 1 \in 1..Len(posted)
      BY <2>1
    <2> QED BY <1>1, <2>1, <2>2, <2>3
  <1>3. ASSUME NEW d \in Calls, NEW i PROVE ValueOf(d, i)' = ValueOf(d, i)
    BY <1>1, ValuesKept
  <1>4. ASSUME NEW d PROVE Indices(d)' = Indices(d) /\ FirstOf(d)' = FirstOf(d)
    BY <1>1 DEF Indices, FirstOf
  <1>5. WrittenIsSome' /\ AnsweredInOrder'
    BY <1>1, <1>3 DEF ReportInv, WrittenIsSome, AnsweredInOrder
  <1>6. PostedCounts'
    BY <1>2, <1>4 DEF ReportInv, PostedCounts
  <1>7. OneRun' <=> OneRun
    BY <1>1 DEF OneRun, Started
  <1>8. LastOfOneRun'
    BY <1>1, <1>4, <1>7 DEF ReportInv, LastOfOneRun
  <1>9. BoxCounts'
    <2>1. CASE HandleDoneInBox
      <3>1. box' = box
        BY <2>1 DEF HandleDoneInBox
      <3> QED BY <1>1, <1>4, <1>7, <3>1 DEF ReportInv, BoxCounts
    <2>2. CASE HandleDone
      <3>m. PICK m : m = Head(posted)
        OBVIOUS
      <3>1. box' = [call |-> m.call, ok |-> m.ok, reveal |-> IF m.ok > 0 THEN last ELSE None]
        BY <2>2, <3>m DEF HandleDone
      <3>2. m.call \in Calls /\ m.ok \in Nat /\ run[m.call] = "done"
        BY <1>2, <3>m DEF Messages, RunInv, PostedAreDone
      <3>3. m.ok = Cardinality(Indices(m.call))
        BY <1>2, <3>m DEF ReportInv, PostedCounts
      <3>4. ASSUME OneRun PROVE (IF m.ok > 0 THEN last ELSE None) = FirstOf(m.call)
        <4>1. last = FirstOf(m.call)
          BY <3>2, <3>4 DEF ReportInv, LastOfOneRun
        <4>2. ASSUME ~(m.ok > 0) PROVE Indices(m.call) = {}
          <5>1. Cardinality(Indices(m.call)) = 0
            BY <3>2, <3>3, <4>2
          <5>2. Indices(m.call) \subseteq 0..(N - 1) /\ N - 1 \in Int /\ 0 \in Int
            BY PoolAssumption DEF Indices, Items
          <5>3. IsFiniteSet(0..(N - 1))
            BY <5>2, FS_Interval
          <5>4. IsFiniteSet(Indices(m.call))
            BY <5>2, <5>3, FS_Subset
          <5> QED BY <5>1, <5>4, FS_EmptySet
        <4>3. CASE m.ok > 0
          BY <4>1, <4>3
        <4>4. CASE ~(m.ok > 0)
          BY <4>2, <4>4 DEF FirstOf
        <4> QED BY <4>3, <4>4
      <3>5. /\ box'.call = m.call /\ box'.ok = m.ok
            /\ box'.reveal = IF m.ok > 0 THEN last ELSE None
        BY <3>1
      <3>6. /\ m.call \in Calls /\ run'[m.call] = "done"
            /\ m.ok = Cardinality(Indices(m.call)')
            /\ OneRun' => box'.reveal = FirstOf(m.call)'
        <4>1. Indices(m.call)' = Indices(m.call) /\ FirstOf(m.call)' = FirstOf(m.call)
          BY <1>4
        <4> QED BY <1>1, <1>7, <3>2, <3>3, <3>4, <3>5, <4>1
      <3> QED BY <3>5, <3>6 DEF BoxCounts
    <2> QED BY <2>1, <2>2
  <1> QED BY <1>5, <1>6, <1>8, <1>9 DEF ReportInv

\* A worker that takes an index, skips a file, starts one or finishes it.
LEMMA WorkersReport ==
    ASSUME ReportInv, RunInv, PoolInv, NEW c \in Calls, NEW w \in 1..W,
           \/ TakeIndex(c, w)
           \/ SkipFile(c, w)
           \/ StartFile(c, w)
           \/ \E r \in Results : FinishFile(c, w, r)
    PROVE  ReportInv'
  <1>0. worker \in [Calls -> [1..W -> WorkerState]]
    BY DEF PoolInv, PoolTypes
  <1>1. CASE TakeIndex(c, w)
    <2>1. UNCHANGED <<run, answer, posted, box, last, written>>
      BY <1>1 DEF TakeIndex, Fetch, Exhausted, window, flags, files
    <2>2. ASSUME NEW d \in Calls, NEW u \in 1..W PROVE worker'[d][u].local = worker[d][u].local
      <3>1. worker[d][u] \in WorkerState
        BY <1>0
      <3>2. CASE Fetch(c, w)
        <4>1. CASE d = c /\ u = w
          <5>1. worker'[d][u] = [worker[d][u] EXCEPT !.pc = "f", !.i = next[c]]
            BY <1>0, <3>2, <4>1 DEF Fetch
          <5> QED BY <3>1, <5>1 DEF WorkerState
        <4>2. CASE d # c \/ u # w
          BY <1>0, <3>2, <4>2 DEF Fetch
        <4> QED BY <4>1, <4>2
      <3>3. CASE Exhausted(c, w)
        <4>1. CASE d = c /\ u = w
          <5>1. worker'[d][u] = [worker[d][u] EXCEPT !.pc = "end"]
            BY <1>0, <3>3, <4>1 DEF Exhausted
          <5> QED BY <3>1, <5>1 DEF WorkerState
        <4>2. CASE d # c \/ u # w
          BY <1>0, <3>3, <4>2 DEF Exhausted
        <4> QED BY <4>1, <4>2
      <3> QED BY <1>1, <3>2, <3>3 DEF TakeIndex
    <2> QED BY <2>1, <2>2, QuietReport
  <1>2. CASE SkipFile(c, w)
    <2>1. Computed(c, w, Skip) /\ UNCHANGED <<run, posted, box, last, written>>
      BY <1>2 DEF SkipFile, window, flags, files
    <2>2. Skip \in Results /\ Skip # Some
      BY OptionAssumption
    <2> QED BY <2>1, <2>2, PushReport
  <1>3. CASE StartFile(c, w)
    <2>1. UNCHANGED <<run, answer, posted, box, last, written, worker>>
      BY <1>3 DEF StartFile, window, flags, poolVars
    <2> QED BY <2>1, QuietReport
  <1>4. CASE \E r \in Results : FinishFile(c, w, r)
    <2>1. PICK r \in Results : FinishFile(c, w, r)
      BY <1>4
    <2>2. /\ Computed(c, w, r) /\ UNCHANGED <<run, posted, box, last>>
          /\ written' = IF r = Some THEN written \union {<<c, worker[c][w].i>>} ELSE written
      BY <2>1 DEF FinishFile, window, flags
    <2> QED BY <2>2, PushReport
  <1> QED BY <1>1, <1>2, <1>3, <1>4

LEMMA ReportNextInv == ReportInv /\ RunInv /\ PoolInv /\ [Next]_vars => ReportInv'
  <1> SUFFICES ASSUME ReportInv, RunInv, PoolInv, [Next]_vars PROVE ReportInv'
    OBVIOUS
  <1>1. CASE \/ UNCHANGED vars
             \/ update_ok_enabled \/ CancelRun \/ CancelDialog \/ CloseWindow \/ AnswerBox
    <2>1. UNCHANGED <<run, answer, posted, box, last, written, worker>>
      BY <1>1 DEF vars, window, flags, files, poolVars, update_ok_enabled, CancelRun,
                  CancelDialog, CloseWindow, AnswerBox
    <2> QED BY <2>1, QuietReport
  <1>2. ASSUME NEW c \in Calls, start_convert(c) PROVE ReportInv'
    BY <1>2, StartReport
  <1>3. ASSUME NEW c \in Calls, RunStep(c) PROVE ReportInv'
    BY <1>3, WorkersReport, MapReturnsReport, RememberReport, PostReport DEF RunStep
  <1>4. CASE HandleDone \/ HandleDoneInBox
    BY <1>4, HandleDoneReport
  <1> QED BY <1>1, <1>2, <1>3, <1>4 DEF Next

\* The box counts the files its run wrote and, of a single run, offers the first of the
\* selection that was written (convert.rs:766), for any number of files and workers.
THEOREM ReportsTrulyAlways == Spec => []ReportsTruly
  <1>1. Init => ReportInv /\ RunInv /\ PoolInv
    BY ReportInitInv, RunInitInv, PoolInitInv DEF Init
  <1>2. ReportInv /\ RunInv /\ PoolInv /\ [Next]_vars => (ReportInv /\ RunInv /\ PoolInv)'
    BY ReportNextInv, RunNextInv, DialogStepsPool, PoolNextInv
  <1>3. ReportInv => ReportsTruly
    BY DEF ReportInv, BoxCounts, ReportsTruly, FirstOf
  <1> QED BY <1>1, <1>2, <1>3, PTL DEF Spec
=============================================================================
