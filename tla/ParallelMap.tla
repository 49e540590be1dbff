----------------------------- MODULE ParallelMap -----------------------------
(* The work-stealing pool of parallel.rs: map_indexed spawns its workers, which   *)
(* take indices from one atomic cursor, and puts the results back in order after  *)
(* the join. Several calls may be running at once; each has a pool of its own.    *)
EXTENDS Integers, Sequences, SequencesExt

CONSTANTS
    Calls,    \* the calls of map_indexed, each made at most once
    N,        \* the number of items of a call
    W,        \* the number of workers: the wanted one, clamped to 1..N
    Results,  \* what the closure may return
    None

ASSUME PoolAssumption == N \in Nat /\ W \in 1..N /\ None \notin Results

Items == 0..(N - 1)

VARIABLES
    next,    \* the cursor of each call: the next index to hand out
    worker,  \* the workers of each call, see WorkerState
    answer   \* the vector each call has returned, or None

poolVars == <<next, worker, answer>>

WorkerState == [
    pc    : {"off", "fetch", "f", "end"},  \* not spawned, at the cursor, in f, finished
    i     : Items,                         \* the index in hand
    local : Seq(Items \X Results)]         \* what it has computed

PoolInit ==
    /\ next = [c \in Calls |-> 0]
    /\ worker = [c \in Calls |-> [w \in 1..W |-> [pc |-> "off", i |-> 0, local |-> <<>>]]]
    /\ answer = [c \in Calls |-> None]

SpawnWorkers(c) ==
    /\ \A w \in 1..W : worker[c][w].pc = "off"
    /\ worker' = [worker EXCEPT ![c] = [w \in 1..W |-> [worker[c][w] EXCEPT !.pc = "fetch"]]]
    /\ UNCHANGED <<next, answer>>


\* fetch_add below n
Fetch(c, w) ==
    /\ worker[c][w].pc = "fetch"
    /\ next[c] < N
    /\ next' = [next EXCEPT ![c] = @ + 1]
    /\ worker' = [worker EXCEPT ![c][w] = [@ EXCEPT !.pc = "f", !.i = next[c]]]
    /\ UNCHANGED answer


\* fetch_add at or beyond n: the worker ends, and the cursor has moved all the same
Exhausted(c, w) ==
    /\ worker[c][w].pc = "fetch"
    /\ next[c] >= N
    /\ next' = [next EXCEPT ![c] = @ + 1]
    /\ worker' = [worker EXCEPT ![c][w].pc = "end"]
    /\ UNCHANGED answer

\* f has returned r; on_each is called and the pair pushed, which only this worker sees
Computed(c, w, r) ==
    /\ worker[c][w].pc = "f"
    /\ worker' = [worker EXCEPT ![c][w] =
            [@ EXCEPT !.pc = "fetch", !.local = Append(worker[c][w].local, <<worker[c][w].i, r>>)]]
    /\ UNCHANGED <<next, answer>>

\* The locals, joined in the order the workers were spawned.
Joined(c) == FlattenSeq([w \in 1..W |-> worker[c][w].local])

\* mutant: the sort is forgotten
AsJoined(pairs) == [k \in DOMAIN pairs |-> pairs[k][2]]

\* sort_by_key on the index, which is stable: the place each result comes from
ByIndex(pairs) == CHOOSE p \in Bijection(DOMAIN pairs, DOMAIN pairs) :
    \A k, l \in DOMAIN pairs : k < l =>
        \/ pairs[p[k]][1] < pairs[p[l]][1]
        \/ pairs[p[k]][1] = pairs[p[l]][1] /\ p[k] < p[l]

\* The index is then dropped.
InOrder(pairs) == [k \in DOMAIN pairs |-> pairs[ByIndex(pairs)[k]][2]]

Join(c) ==
    /\ answer[c] = None
    /\ \A w \in 1..W : worker[c][w].pc = "end"
    /\ answer' = [answer EXCEPT ![c] = InOrder(Joined(c))]
    /\ UNCHANGED <<next, worker>>

PoolNext ==
    \E c \in Calls :
        \/ SpawnWorkers(c)
        \/ \E w \in 1..W :
            \/ Fetch(c, w)
            \/ Exhausted(c, w)
            \/ \E r \in Results : Computed(c, w, r)
        \/ Join(c)

PoolSpec == PoolInit /\ [][PoolNext]_poolVars

-----------------------------------------------------------------------------
(* Properties *)

\* The cursor moves once for each index and once more for each worker that ends.
PoolTypeOK ==
    /\ next \in [Calls -> 0..(N + W)]
    /\ worker \in [Calls -> [1..W -> WorkerState]]
    /\ \A c \in Calls : answer[c] \in {None} \union [1..N -> Results]

\* Index i of call c is in the hand of worker w, or among its results.
InHand(c, w, i) == worker[c][w].pc = "f" /\ worker[c][w].i = i
Has(c, w, i) == \E k \in DOMAIN worker[c][w].local : worker[c][w].local[k][1] = i
Holds(c, w, i) == InHand(c, w, i) \/ Has(c, w, i)

\* Every index the cursor has passed was given to one worker, once: nothing is skipped,
\* no two workers evaluate one item, none evaluates an item twice, and none ends before
\* the items do, whatever the interleaving (parallel.rs:55, "exactly once per completed
\* item").
EachOnce ==
    \A c \in Calls :
        /\ \A i \in Items : (\E w \in 1..W : Holds(c, w, i)) <=> i < next[c]
        /\ \A w, v \in 1..W, i \in Items : Holds(c, w, i) /\ Holds(c, v, i) => w = v
        /\ \A w \in 1..W :
            LET local == worker[c][w].local IN
            /\ \A k, l \in DOMAIN local : local[k][1] = local[l][1] => k = l
            /\ \A i \in Items : ~(InHand(c, w, i) /\ Has(c, w, i))
            /\ worker[c][w].pc = "end" => next[c] >= N

\* Each call returns the values of its items in the order of its items, and no item is
\* evaluated twice (parallel.rs:4, "returns the results in input order").
Ordered == INSTANCE InOrderMap WITH
    value <- [c \in Calls |-> [i \in Items |->
        LET pairs == UNION {{worker[c][w].local[k] : k \in DOMAIN worker[c][w].local} : w \in 1..W}
        IN  IF \E p \in pairs : p[1] = i THEN (CHOOSE p \in pairs : p[1] = i)[2] ELSE None]]

MapsInOrder == Ordered!Spec
=============================================================================
