----------------------------- MODULE ListLemmas -----------------------------
(* What FlattenSeq and SumFunctionOnSet of the community modules do with a   *)
(* list of lists and with a finite set of numbers, for proofs about the      *)
(* models.  Their recursions are functions; a statement about them is proved *)
(* by the least place at which it would fail.                                *)
EXTENDS Sifting, SequencesExt, SequenceTheorems, FiniteSetTheorems, WellFoundedInduction, TLAPS

\* A set of numbers that is not empty has a least one.
LEMMA LeastOf ==
    ASSUME NEW T, T \subseteq Nat, T # {} PROVE \E x \in T : \A y \in T : x <= y
  <1>1. PICK R : R = OpToRel(<, Nat) OBVIOUS
  <1>2. IsWellFoundedOn(R, Nat)
    BY <1>1, NatLessThanWellFounded
  <1>3. PICK x \in T : \A y \in T : <<y, x>> \notin R
    BY <1>2, WFMin
  <1>4. ASSUME NEW y \in T PROVE x <= y
    <2>1. SUFFICES ASSUME y < x PROVE FALSE
      BY <1>4
    <2>2. <<y, x>> \in Nat \X Nat /\ <<y, x>>[1] < <<y, x>>[2]
      BY <2>1
    <2>3. <<y, x>> \in R
      BY <1>1, <2>2 DEF OpToRel
    <2> QED BY <1>3, <2>3
  <1> QED BY <1>4

\* The recursion of FlattenSeq, up to the m-th sequence.
Flat(f, seqs, m) == f = [i \in 1..m |-> IF i = 1 THEN seqs[i] ELSE f[i - 1] \o seqs[i]]

\* There is such a function.
LEMMA FlatExists ==
    ASSUME NEW seqs, NEW m \in Nat, m # 0 PROVE \E f : Flat(f, seqs, m)
  <1> DEFINE None0 == {n \in Nat : n # 0 /\ ~\E f : Flat(f, seqs, n)}
  <1> SUFFICES ASSUME None0 # {} PROVE FALSE OBVIOUS
  <1>1. PICK n \in None0 : \A y \in None0 : n <= y
    BY LeastOf
  <1>2. CASE n = 1
    <2>1. Flat([i \in 1..1 |-> seqs[1]], seqs, 1)
      BY DEF Flat
    <2> QED BY <1>1, <1>2, <2>1
  <1>3. CASE n # 1
    <2>1. n - 1 \in Nat /\ n - 1 # 0 /\ n \in Nat /\ n - 1 \notin None0
      BY <1>1, <1>3
    <2>2. PICK f : Flat(f, seqs, n - 1)
      BY <2>1
    <2>f. PICK g : g = [i \in 1..n |-> IF i = n THEN f[n - 1] \o seqs[n] ELSE f[i]]
      OBVIOUS
    <2>3. Flat(g, seqs, n)
      <3>1. ASSUME NEW i \in 1..n
            PROVE g[i] = IF i = 1 THEN seqs[i] ELSE g[i - 1] \o seqs[i]
        <4>1. CASE i = n
          <5>1. n \in 1..n /\ n - 1 \in 1..n /\ n - 1 # n
            BY <2>1
          <5>2. g[n] = f[n - 1] \o seqs[n] /\ g[n - 1] = f[n - 1]
            BY <2>f, <5>1
          <5> QED BY <1>3, <4>1, <5>2
        <4>2. CASE i # n
          <5>1. i \in 1..(n - 1) /\ (i # 1 => i - 1 \in 1..n /\ i - 1 # n)
            BY <2>1, <4>2
          <5>2. g[i] = f[i] /\ (i # 1 => g[i - 1] = f[i - 1])
            BY <2>f, <4>2, <5>1
          <5>3. f[i] = IF i = 1 THEN seqs[i] ELSE f[i - 1] \o seqs[i]
            BY <2>2, <5>1 DEF Flat
          <5> QED BY <5>2, <5>3, <5>1
        <4> QED BY <4>1, <4>2
      <3>2. g = [i \in 1..n |-> g[i]]
        BY <2>f
      <3> QED BY <3>1, <3>2 DEF Flat
    <2> QED BY <1>1, <2>3
  <1> QED BY <1>2, <1>3

\* FlattenSeq is its last value.
LEMMA FlattenIsFlat ==
    ASSUME NEW S, NEW seqs \in Seq(S), Len(seqs) # 0
    PROVE  \E f : Flat(f, seqs, Len(seqs)) /\ FlattenSeq(seqs) = f[Len(seqs)]
  <1> DEFINE g == CHOOSE f : Flat(f, seqs, Len(seqs))
  <1>1. Flat(g, seqs, Len(seqs))
    BY FlatExists
  <1>2. g = CHOOSE f : f = [i \in 1..Len(seqs) |-> IF i = 1 THEN seqs[i] ELSE f[i - 1] \o seqs[i]]
    BY DEF Flat
  <1>3. FlattenSeq(seqs) = g[Len(seqs)]
    BY <1>2 DEF FlattenSeq
  <1> QED BY <1>1, <1>3


\* Two such functions agree as far as their sequences do.
Agree(s, t, m) == \A k \in 1..m : s[k] = t[k]

LEMMA FlatAgree ==
    ASSUME NEW s, NEW t, NEW m \in Nat, NEW n \in Nat, m <= n, NEW f, NEW g, Flat(f, s, m), Flat(g, t, n),
           Agree(s, t, m)
    PROVE  Agree(f, g, m)
<1> USE DEF Agree
<1> DEFINE Bad == {k \in 1..m : f[k] # g[k]}
<1> SUFFICES ASSUME Bad # {} PROVE FALSE OBVIOUS
<1>1. PICK k \in Bad : \A j \in Bad : k <= j
  <2>1. Bad \subseteq Nat OBVIOUS
  <2> HIDE DEF Bad
  <2> QED BY <2>1, LeastOf
<1>2. k \in 1..m /\ k \in 1..n /\ f[k] # g[k] BY <1>1
<1>3. /\ f[k] = IF k = 1 THEN s[k] ELSE f[k - 1] \o s[k]
      /\ g[k] = IF k = 1 THEN t[k] ELSE g[k - 1] \o t[k]
  BY <1>2 DEF Flat
<1>4. CASE k = 1 BY <1>2, <1>3, <1>4
<1>5. CASE k # 1
  <2>1. k - 1 \in 1..m /\ k - 1 \notin Bad BY <1>1, <1>2, <1>5
  <2>2. f[k - 1] = g[k - 1] BY <2>1
  <2> QED BY <1>2, <1>3, <1>5, <2>2
<1> QED BY <1>4, <1>5

\* where the i-th sequence begins
StartIn(f, i) == IF i = 1 THEN 0 ELSE Len(f[i - 1])

\* a list of lists, of which the recursion makes lists
AllLists(V, N, S) == \A k \in 1..N : V[k] \in Seq(S)

LEMMA FlatTyped ==
    ASSUME NEW S, NEW N \in Nat, NEW V, AllLists(V, N, S), NEW f, Flat(f, V, N)
    PROVE  \A m \in 1..N : f[m] \in Seq(S)
<1> USE DEF AllLists
<1> DEFINE Bad == {k \in 1..N : f[k] \notin Seq(S)}
<1> SUFFICES ASSUME Bad # {} PROVE FALSE OBVIOUS
<1>1. PICK k \in Bad : \A j \in Bad : k <= j
  <2>1. Bad \subseteq Nat OBVIOUS
  <2> HIDE DEF Bad
  <2> QED BY <2>1, LeastOf
<1>2. k \in 1..N BY <1>1
<1>3. f[k] = IF k = 1 THEN V[k] ELSE f[k - 1] \o V[k] BY <1>2 DEF Flat
<1>4. CASE k = 1 BY <1>1, <1>2, <1>3, <1>4
<1>5. CASE k # 1
  <2>1. k - 1 \in 1..N /\ k - 1 \notin Bad BY <1>1, <1>2, <1>5
  <2>2. f[k - 1] \in Seq(S) /\ V[k] \in Seq(S) BY <1>2, <2>1
  <2>3. f[k - 1] \o V[k] \in Seq(S) BY <2>2
  <2> QED BY <1>1, <1>3, <1>5, <2>3
<1> QED BY <1>4, <1>5

\* the n-th element of the i-th list is where it was put
Stays(f, V, N, i, n) ==
    /\ StartIn(f, i) \in Nat /\ StartIn(f, i) + n \in 1..Len(f[N])
    /\ f[N][StartIn(f, i) + n] = V[i][n]

\* The i-th sequence stays where it began, whatever follows.
LEMMA FlatPlaced ==
    ASSUME NEW S, NEW N \in Nat, NEW V, AllLists(V, N, S), NEW f, Flat(f, V, N),
           NEW i \in 1..N, NEW n \in 1..Len(V[i])
    PROVE  Stays(f, V, N, i, n)
<1> DEFINE At(m) == StartIn(f, i) + n \in 1..Len(f[m]) /\ f[m][StartIn(f, i) + n] = V[i][n]
           Bad == {m \in i..N : ~At(m)}
<1>1. \A m \in 1..N : f[m] \in Seq(S) /\ Len(f[m]) \in Nat BY FlatTyped
<1>2. StartIn(f, i) \in Nat BY <1>1 DEF StartIn
<1>3. i \in 1..N /\ n \in Nat /\ n > 0 /\ n <= Len(V[i]) /\ V[i] \in Seq(S)
  <2>1. V[i] \in Seq(S) BY DEF AllLists
  <2>2. Len(V[i]) \in Nat BY <2>1
  <2> QED BY <2>1, <2>2
<1>4. At(i)
  <2>1. f[i] = IF i = 1 THEN V[i] ELSE f[i - 1] \o V[i] BY DEF Flat
  <2>2. CASE i = 1
    <3>1. f[i] = V[i] /\ StartIn(f, i) = 0 BY <2>1, <2>2 DEF StartIn
    <3> QED BY <1>3, <3>1
  <2>3. CASE i # 1
    <3>1. f[i] = f[i - 1] \o V[i] /\ StartIn(f, i) = Len(f[i - 1]) BY <2>1, <2>3 DEF StartIn
    <3>2. i - 1 \in 1..N BY <2>3
    <3>3. PICK p : p = f[i - 1] OBVIOUS
    <3>4. PICK q : q = V[i] OBVIOUS
    <3>5. p \in Seq(S) /\ q \in Seq(S) /\ f[i] = p \o q /\ StartIn(f, i) = Len(p) /\ Len(p) \in Nat /\ n <= Len(q)
          /\ Len(q) \in Nat
      BY <1>1, <1>3, <3>1, <3>2, <3>3, <3>4
    <3>6. Len(p) + n \in 1..Len(p \o q) /\ (p \o q)[Len(p) + n] = q[n] BY <1>3, <3>5
    <3> QED BY <3>4, <3>5, <3>6
  <2> QED BY <2>2, <2>3
<1>5. At(N)
  <2> SUFFICES ASSUME Bad # {} PROVE FALSE BY <1>3
  <2>1. PICK m \in Bad : \A j \in Bad : m <= j
    <3>1. Bad \subseteq Nat BY <1>3
    <3> HIDE DEF Bad
    <3> QED BY <3>1, LeastOf
  <2>2. m \in i..N /\ ~At(m) BY <2>1
  <2>3. m # i BY <1>4, <2>2
  <2>4. m - 1 \in i..N /\ m - 1 \in 1..N /\ m \in 1..N /\ m # 1 BY <1>3, <2>2, <2>3
  <2>5. At(m - 1)
    <3>1. m - 1 \notin Bad
      <4> HIDE DEF Bad
      <4> QED BY <2>1, <2>2, <2>4
    <3> QED BY <2>4, <3>1
  <2>6. f[m] = f[m - 1] \o V[m] BY <2>4 DEF Flat
  <2>7. PICK p : p = f[m - 1] OBVIOUS
  <2>8. PICK q : q = V[m] OBVIOUS
  <2>9. PICK x : x = StartIn(f, i) + n OBVIOUS
  <2>10. p \in Seq(S) /\ q \in Seq(S) /\ f[m] = p \o q /\ x \in 1..Len(p) /\ p[x] = V[i][n]
    BY <1>1, <2>4, <2>5, <2>6, <2>7, <2>8, <2>9 DEF AllLists
  <2>11. x \in 1..Len(p \o q) /\ (p \o q)[x] = p[x] BY <2>10
  <2> QED BY <2>2, <2>9, <2>10, <2>11
<1> QED BY <1>2, <1>5 DEF Stays

\* FlattenSeq of the first sequences is what the recursion has so far.
LEMMA FlattenSoFar ==
    ASSUME NEW S, NEW N \in Nat, NEW V \in Seq(Seq(S)), Len(V) = N, NEW f, Flat(f, V, N), NEW m \in 0..N
    PROVE  FlattenSeq([k \in 1..m |-> V[k]]) = IF m = 0 THEN <<>> ELSE f[m]
<1> DEFINE W == [k \in 1..m |-> V[k]]
<1>1. m \in Nat /\ \A k \in 1..m : k \in 1..N /\ V[k] \in Seq(S) BY DEF Flat
<1>2. W \in Seq(Seq(S)) /\ Len(W) = m
  <2>1. W \in [1..m -> Seq(S)] BY <1>1
  <2> QED BY <1>1, <2>1
<1>3. CASE m = 0
  <2>1. W = <<>> BY <1>3
  <2>2. Len(W) = 0 BY <1>2, <1>3
  <2> QED BY <1>3, <2>1, <2>2 DEF FlattenSeq
<1>4. CASE m # 0
  <2>1. PICK g : Flat(g, W, Len(W)) /\ FlattenSeq(W) = g[Len(W)]
    <3> HIDE DEF W
    <3>1. Len(W) # 0 BY <1>2, <1>4
    <3>2. W \in Seq(Seq(S)) BY <1>2
    <3> QED BY <3>1, <3>2, FlattenIsFlat
  <2>2. Flat(g, W, m) /\ FlattenSeq(W) = g[m] BY <1>2, <2>1
  <2>3. \A k \in 1..m : W[k] = V[k] OBVIOUS
  <2>4. m <= N /\ m \in 1..m BY <1>1, <1>4
  <2>5. \A k \in 1..m : g[k] = f[k]
    <3> HIDE DEF W
    <3>1. Agree(W, V, m) BY <2>3 DEF Agree
    <3>2. m \in Nat /\ N \in Nat /\ m <= N BY <1>1, <2>4
    <3>3. Agree(g, f, m) BY <2>2, <3>1, <3>2, FlatAgree, Zenon
    <3> QED BY <3>3 DEF Agree
  <2>6. g[m] = f[m] BY <2>4, <2>5
  <2> QED BY <1>4, <2>2, <2>6
<1> QED BY <1>3, <1>4

\* FlattenSeq keeps every sequence whole, behind the ones before it.
LEMMA FlattenPlaces ==
    ASSUME NEW S, NEW V \in Seq(Seq(S)), NEW i \in 1..Len(V), NEW n \in 1..Len(V[i])
    PROVE  LET start == Len(FlattenSeq([k \in 1..i - 1 |-> V[k]]))
           IN  /\ start \in Nat /\ start + n \in 1..Len(FlattenSeq(V))
               /\ FlattenSeq(V)[start + n] = V[i][n]
<1>1. PICK N \in Nat : N = Len(V) OBVIOUS
<1>2. AllLists(V, N, S) BY <1>1 DEF AllLists
<1>3. i \in 1..N /\ N # 0 BY <1>1
<1>4. PICK f : Flat(f, V, N) /\ FlattenSeq(V) = f[N]
  <2>1. Len(V) # 0 BY <1>1, <1>3
  <2> QED BY <1>1, <2>1, FlattenIsFlat
<1>5. PICK start : start = Len(FlattenSeq([k \in 1..i - 1 |-> V[k]])) OBVIOUS
<1>6. start = StartIn(f, i)
  <2>1. PICK m : m = i - 1 OBVIOUS
  <2>2. m \in 0..N BY <1>3, <2>1
  <2>3. FlattenSeq([k \in 1..m |-> V[k]]) = IF m = 0 THEN <<>> ELSE f[m]
    <3>1. Len(V) = N /\ Flat(f, V, N) BY <1>1, <1>4
    <3> QED BY <1>1, <2>2, <3>1, FlattenSoFar, SMT
  <2>4. Len(<<>>) = 0 OBVIOUS
  <2>5. m = 0 <=> i = 1 BY <1>3, <2>1
  <2> QED BY <1>5, <2>1, <2>3, <2>4, <2>5 DEF StartIn
<1>7. Stays(f, V, N, i, n) BY <1>1, <1>2, <1>3, <1>4, FlatPlaced
<1> QED BY <1>4, <1>5, <1>6, <1>7 DEF Stays

\* What is left of s when only the places in K stay: p says which place each item had.
Picks(p, kept, s, K, S) ==
    /\ K \subseteq Nat /\ kept \in Seq(S) /\ p \in [1..Len(kept) -> K]
    /\ \A i \in 1..Len(kept) : kept[i] = s[p[i]]
    /\ \A i, j \in 1..Len(kept) : i < j => p[i] < p[j]
    /\ \A n \in K : \E i \in 1..Len(kept) : p[i] = n

LEMMA PicksNone == ASSUME NEW S, NEW s PROVE Picks(<<>>, <<>>, s, {}, S)
BY DEF Picks

LEMMA PicksOne ==
    ASSUME NEW S, NEW s, NEW K, NEW n \in Nat, \A k \in K : k < n, s[n] \in S,
           NEW p, NEW kept, Picks(p, kept, s, K, S)
    PROVE  Picks([i \in 1..Len(kept) + 1 |-> IF i <= Len(kept) THEN p[i] ELSE n], kept \o <<s[n]>>, s,
                 K \union {n}, S)
<1> DEFINE q == [i \in 1..Len(kept) + 1 |-> IF i <= Len(kept) THEN p[i] ELSE n]
<1>1. PICK l \in Nat : l = Len(kept) BY DEF Picks
<1>4. PICK long : long = kept \o <<s[n]>> OBVIOUS
<1>5. long \in Seq(S) /\ Len(long) = l + 1 /\ long[l + 1] = s[n] /\ \A i \in 1..l : long[i] = kept[i]
  BY <1>1, <1>4 DEF Picks
<1>6. q \in [1..l + 1 -> K \union {n}] /\ q[l + 1] = n /\ \A i \in 1..l : q[i] = p[i] /\ p[i] \in K
  BY <1>1 DEF Picks
<1> HIDE DEF q
<1>7. \A i \in 1..l + 1 : long[i] = s[q[i]]
  BY <1>1, <1>5, <1>6 DEF Picks
<1>8. \A i, j \in 1..l + 1 : i < j => q[i] < q[j]
  <2> SUFFICES ASSUME NEW i \in 1..l + 1, NEW j \in 1..l + 1, i < j PROVE q[i] < q[j] OBVIOUS
  <2>1. i \in 1..l OBVIOUS
  <2>2. CASE j \in 1..l BY <1>1, <1>6, <2>1, <2>2 DEF Picks
  <2>3. CASE j = l + 1 BY <1>6, <2>1, <2>3
  <2> QED BY <2>2, <2>3
<1>9. \A k \in K \union {n} : \E i \in 1..l + 1 : q[i] = k
  <2> SUFFICES ASSUME NEW k \in K \union {n} PROVE \E i \in 1..l + 1 : q[i] = k OBVIOUS
  <2>1. CASE k = n BY <1>6, <2>1
  <2>2. CASE k \in K
    <3>1. PICK i \in 1..l : p[i] = k BY <1>1, <2>2 DEF Picks
    <3> QED BY <1>6, <3>1
  <2> QED BY <2>1, <2>2
<1> QED BY <1>1, <1>4, <1>5, <1>6, <1>7, <1>8, <1>9 DEF Picks, q

LEMMA SiftIs ==
    ASSUME NEW S, NEW s \in Seq(S), NEW K \in SUBSET (DOMAIN s)
    PROVE  \E p : Picks(p, Sift(s, K), s, K, S)
<1>1. PICK N \in Nat : N = Len(s) /\ DOMAIN s = 1..N OBVIOUS
<1>2. PICK V : V = [n \in DOMAIN s |-> IF n \in K THEN <<s[n]>> ELSE <<>>] /\ Sift(s, K) = FlattenSeq(V) BY DEF Sift
<1>3. V \in Seq(Seq(S)) /\ Len(V) = N /\ \A n \in 1..N : V[n] = IF n \in K THEN <<s[n]>> ELSE <<>>
  <2>1. \A n \in 1..N : (IF n \in K THEN <<s[n]>> ELSE <<>>) \in Seq(S) BY <1>1
  <2>2. V \in [1..N -> Seq(S)] BY <1>1, <1>2, <2>1
  <2> QED BY <1>1, <1>2, <2>2
<1>4. CASE N = 0
  <2>1. K = {} /\ FlattenSeq(V) = V /\ V = <<>> BY <1>1, <1>3, <1>4 DEF FlattenSeq
  <2> QED BY <1>2, <2>1, PicksNone
<1>5. CASE N # 0
  <2>1. PICK f : Flat(f, V, N) /\ FlattenSeq(V) = f[N] BY <1>3, <1>5, FlattenIsFlat
  <2> DEFINE Good(m) == \E p : Picks(p, f[m], s, K \cap (1..m), S)
             Bad == {m \in 1..N : ~Good(m)}
  <2>2. Bad = {}
    <3> SUFFICES ASSUME Bad # {} PROVE FALSE OBVIOUS
    <3>1. PICK m \in Bad : \A j \in Bad : m <= j
      <4>1. Bad \subseteq Nat OBVIOUS
      <4> HIDE DEF Bad
      <4> QED BY <4>1, LeastOf
    <3>2. m \in 1..N /\ ~Good(m) OBVIOUS
    <3>3. PICK before, J : before = (IF m = 1 THEN <<>> ELSE f[m - 1]) /\ J = K \cap (1..m - 1) OBVIOUS
    <3>4. \E p : Picks(p, before, s, J, S)
      <4>1. CASE m = 1
        <5>1. before = <<>> /\ J = {} BY <3>3, <4>1
        <5> QED BY <5>1, PicksNone
      <4>2. CASE m # 1
        <5>1. m - 1 \in 1..N /\ m - 1 < m /\ m \in Nat BY <3>2, <4>2
        <5>2. Good(m - 1)
          <6> SUFFICES ASSUME m - 1 \in Bad PROVE FALSE BY <5>1
          <6> HIDE DEF Bad
          <6> QED BY <3>1, <5>1
        <5> QED BY <3>3, <4>2, <5>2
      <4> QED BY <4>1, <4>2
    <3>5. PICK p : Picks(p, before, s, J, S) BY <3>4
    <3>6. f[m] = before \o V[m]
      <4>1. f[m] = IF m = 1 THEN V[m] ELSE f[m - 1] \o V[m] BY <2>1, <3>2 DEF Flat
      <4>2. V[m] \in Seq(S) BY <1>3, <3>2
      <4>3. CASE m = 1
        <5>1. f[m] = V[m] /\ before = <<>> BY <3>3, <4>1, <4>3
        <5> QED BY <4>2, <5>1
      <4>4. CASE m # 1 BY <3>3, <4>1, <4>4
      <4> QED BY <4>3, <4>4
    <3>7. CASE m \in K
      <4>1. V[m] = <<s[m]>> BY <1>3, <3>2, <3>7
      <4>2. K \cap (1..m) = J \union {m} BY <3>2, <3>3, <3>7
      <4>3. J \subseteq Nat /\ m \in Nat /\ \A k \in J : k < m BY <3>2, <3>3
      <4>4. s[m] \in S BY <1>1, <3>2
      <4>5. \E q : Picks(q, before \o <<s[m]>>, s, J \union {m}, S) BY <3>5, <4>3, <4>4, PicksOne
      <4>6. \E q : Picks(q, f[m], s, K \cap (1..m), S) BY <3>6, <4>1, <4>2, <4>5
      <4> QED BY <3>2, <4>6
    <3>8. CASE m \notin K
      <4>1. V[m] = <<>> BY <1>3, <3>2, <3>8
      <4>2. K \cap (1..m) = J BY <3>2, <3>3, <3>8
      <4>3. f[m] = before
        <5>1. before \in Seq(S) BY <3>5 DEF Picks
        <5> QED BY <3>6, <4>1, <5>1
      <4> QED BY <3>2, <3>5, <4>2, <4>3
    <3> QED BY <3>7, <3>8
  <2>3. Good(N)
    <3>1. N \in 1..N BY <1>5
    <3> SUFFICES ASSUME N \in Bad PROVE FALSE BY <3>1
    <3> HIDE DEF Bad
    <3> QED BY <2>2
  <2>4. K \cap (1..N) = K BY <1>1
  <2> QED BY <1>2, <2>1, <2>3, <2>4
<1> QED BY <1>4, <1>5

\* Places that rise are not repeated.
LEMMA PicksEachOnce ==
  ASSUME NEW S, NEW s, NEW K, NEW p, NEW kept, Picks(p, kept, s, K, S)
  PROVE  \A m, n \in 1..Len(kept) : p[m] = p[n] => m = n
<1> SUFFICES ASSUME NEW m \in 1..Len(kept), NEW n \in 1..Len(kept), p[m] = p[n] PROVE m = n OBVIOUS
<1>1. p[m] \in Nat /\ p[n] \in Nat BY DEF Picks
<1>2. m \in Nat /\ n \in Nat OBVIOUS
<1>3. m < n => p[m] < p[n] BY DEF Picks
<1>4. n < m => p[n] < p[m] BY DEF Picks
<1> QED BY <1>1, <1>2, <1>3, <1>4

\* Between the places of two neighbours nothing stays, and nothing before the first.
LEMMA PicksNext ==
    ASSUME NEW S, NEW s, NEW K, NEW p, NEW kept, Picks(p, kept, s, K, S), NEW i \in 1..Len(kept), NEW k \in K,
           k < p[i]
    PROVE  i > 1 /\ i - 1 \in 1..Len(kept) /\ k <= p[i - 1]
<1>1. PICK j \in 1..Len(kept) : p[j] = k BY DEF Picks
<1>2. p[i] \in Nat /\ p[j] \in Nat /\ i \in Nat /\ j \in Nat
  <2>1. p[i] \in K /\ p[j] \in K /\ K \subseteq Nat BY DEF Picks
  <2>2. i \in Nat /\ j \in Nat OBVIOUS
  <2> QED BY <2>1, <2>2
<1>3. j < i
  <2>1. i < j => p[i] < p[j] BY DEF Picks
  <2> QED BY <1>1, <1>2, <2>1
<1>4. i > 1 /\ i - 1 \in 1..Len(kept) BY <1>2, <1>3
<1>5. p[i - 1] \in Nat BY <1>4 DEF Picks
<1>6. j < i - 1 => p[j] < p[i - 1] BY <1>4 DEF Picks
<1>7. j = i - 1 \/ j < i - 1 BY <1>2, <1>3
<1> QED BY <1>1, <1>2, <1>4, <1>5, <1>6, <1>7

\* A list of which the first N places stay.
LEMMA SiftFirst ==
    ASSUME NEW S, NEW s \in Seq(S), NEW N \in Nat, N <= Len(s)
    PROVE  /\ Sift(s, 1..N) \in Seq(S) /\ Len(Sift(s, 1..N)) = N
           /\ \A n \in 1..N : Sift(s, 1..N)[n] = s[n]
<1>1. PICK K, kept : K = 1..N /\ kept = Sift(s, K) OBVIOUS
<1>2. K \in SUBSET (DOMAIN s) BY <1>1
<1>3. PICK p : Picks(p, kept, s, K, S) BY <1>1, <1>2, SiftIs
<1>4. PICK L \in Nat : L = Len(kept) BY <1>3 DEF Picks
<1>5. /\ p \in [1..L -> K] /\ \A i \in 1..L : kept[i] = s[p[i]] /\ p[i] \in Nat
      /\ \A k \in K : \E i \in 1..L : p[i] = k
  BY <1>3, <1>4 DEF Picks
<1> DEFINE Bad == {i \in 1..L : p[i] # i}
<1>6. Bad = {}
  <2> SUFFICES ASSUME Bad # {} PROVE FALSE OBVIOUS
  <2>1. PICK i \in Bad : \A j \in Bad : i <= j
    <3>1. Bad \subseteq Nat OBVIOUS
    <3> HIDE DEF Bad
    <3> QED BY <3>1, LeastOf
  <2>2. i \in 1..L /\ p[i] # i /\ i \in Nat OBVIOUS
  <2>3. \A j \in 1..L : j < i => p[j] = j
    <3> SUFFICES ASSUME NEW j \in 1..L, j < i, j \in Bad PROVE FALSE OBVIOUS
    <3>1. j \in Nat OBVIOUS
    <3> HIDE DEF Bad
    <3> QED BY <2>1, <2>2, <3>1
  <2>4. CASE p[i] < i
    <3>1. PICK k : k = p[i] OBVIOUS
    <3>2. k \in 1..L BY <1>1, <1>5, <2>2, <2>4, <3>1
    <3>3. p[k] = k BY <2>3, <2>4, <3>1, <3>2
    <3>4. k = i BY <1>3, <1>4, <2>2, <3>1, <3>2, <3>3, PicksEachOnce
    <3> QED BY <2>2, <3>1, <3>4
  <2>5. CASE p[i] > i
    <3>1. i \in K /\ i < p[i] BY <1>1, <1>5, <2>2, <2>5
    <3>2. i > 1 /\ i - 1 \in 1..L /\ i <= p[i - 1] BY <1>3, <1>4, <2>2, <3>1, PicksNext
    <3>3. p[i - 1] = i - 1 BY <2>2, <2>3, <3>2
    <3> QED BY <2>2, <3>2, <3>3
  <2> QED BY <1>5, <2>2, <2>4, <2>5
<1>7. \A i \in 1..L : p[i] = i BY <1>6
<1>8. L = N
  <2>1. ASSUME L # 0 PROVE L <= N
    <3>1. L \in 1..L BY <2>1
    <3>2. L \in K BY <1>5, <1>7, <3>1
    <3> QED BY <1>1, <3>2
  <2>2. ASSUME N # 0 PROVE N <= L
    <3>1. N \in K BY <1>1, <2>2
    <3>2. PICK i \in 1..L : p[i] = N BY <1>5, <3>1
    <3> QED BY <1>7, <3>2
  <2> QED BY <2>1, <2>2
<1>9. kept \in Seq(S) BY <1>3 DEF Picks
<1>10. \A n \in 1..N : kept[n] = s[n] BY <1>5, <1>7, <1>8
<1> QED BY <1>1, <1>4, <1>8, <1>9, <1>10

-----------------------------------------------------------------------------
(* Sums                                                                      *)

\* the element a sum takes first
Foremost(s) == CHOOSE x \in s : TRUE

\* The recursion of SumFunctionOnSet over the subsets of S with at most n elements.
Few(S, n) == {s \in SUBSET S : Cardinality(s) <= n}
SumsTo(g, f, S, n) ==
    g = [s \in Few(S, n) |-> IF s = {} THEN 0 ELSE f[Foremost(s)] + g[s \ {Foremost(s)}]]

LEMMA FewLess ==
    ASSUME NEW S, IsFiniteSet(S), NEW n \in Nat, NEW s \in Few(S, n), s # {}
    PROVE  /\ Foremost(s) \in s /\ n # 0 /\ s \ {Foremost(s)} \in Few(S, n - 1) /\ s \ {Foremost(s)} \in Few(S, n)
           /\ Cardinality(s \ {Foremost(s)}) = Cardinality(s) - 1
<1>1. Foremost(s) \in s BY DEF Foremost
<1>2. IsFiniteSet(s) /\ s \subseteq S BY FS_Subset DEF Few
<1>3. Cardinality(s) \in Nat /\ Cardinality(s) <= n BY <1>2, FS_CardinalityType DEF Few
<1>4. IsFiniteSet(s \ {Foremost(s)}) /\ Cardinality(s \ {Foremost(s)}) = Cardinality(s) - 1
  BY <1>1, <1>2, FS_RemoveElement
<1>5. Cardinality(s \ {Foremost(s)}) \in Nat BY <1>4, FS_CardinalityType
<1> QED BY <1>1, <1>2, <1>3, <1>4, <1>5 DEF Few

LEMMA FewHasNone == ASSUME NEW S, NEW n \in Nat PROVE {} \in Few(S, n)
BY FS_EmptySet DEF Few

LEMMA SumsExist == ASSUME NEW f, NEW S, IsFiniteSet(S), NEW n \in Nat PROVE \E g : SumsTo(g, f, S, n)
<1> DEFINE Bad == {m \in Nat : ~\E g : SumsTo(g, f, S, m)}
<1> SUFFICES ASSUME Bad # {} PROVE FALSE OBVIOUS
<1>1. PICK m \in Bad : \A k \in Bad : m <= k BY LeastOf
<1>2. PICK h : m # 0 => SumsTo(h, f, S, m - 1)
  <2>1. CASE m = 0 BY <2>1
  <2>2. CASE m # 0
    <3>1. m - 1 \in Nat /\ m - 1 \notin Bad BY <1>1, <2>2
    <3> QED BY <3>1
  <2> QED BY <2>1, <2>2
<1>3. PICK g : g = [s \in Few(S, m) |-> IF s = {} THEN 0 ELSE f[Foremost(s)] + h[s \ {Foremost(s)}]] OBVIOUS
<1>4. ASSUME NEW s \in Few(S, m), s # {} PROVE g[s \ {Foremost(s)}] = h[s \ {Foremost(s)}]
  <2>1. PICK t : t = s \ {Foremost(s)} OBVIOUS
  <2>2. m # 0 /\ t \in Few(S, m - 1) /\ t \in Few(S, m) BY <1>1, <1>4, <2>1, FewLess
  <2>3. h[t] = IF t = {} THEN 0 ELSE f[Foremost(t)] + h[t \ {Foremost(t)}] BY <1>2, <2>2 DEF SumsTo
  <2>4. g[t] = IF t = {} THEN 0 ELSE f[Foremost(t)] + h[t \ {Foremost(t)}] BY <1>3, <2>2
  <2> QED BY <2>1, <2>3, <2>4
<1>5. SumsTo(g, f, S, m)
  <2>1. ASSUME NEW s \in Few(S, m) PROVE g[s] = IF s = {} THEN 0 ELSE f[Foremost(s)] + g[s \ {Foremost(s)}]
    <3>1. g[s] = IF s = {} THEN 0 ELSE f[Foremost(s)] + h[s \ {Foremost(s)}] BY <1>3
    <3> QED BY <1>4, <3>1
  <2> QED BY <1>3, <2>1 DEF SumsTo
<1> QED BY <1>1, <1>5

\* What such a function says of a set does not depend on how far it goes.
LEMMA SumsAgree ==
    ASSUME NEW f, NEW e, NEW R, IsFiniteSet(R), NEW S, IsFiniteSet(S), R \subseteq S,
           \A x \in R : f[x] = e[x],
           NEW m \in Nat, NEW n \in Nat, m <= n, NEW g, NEW h, SumsTo(g, f, R, m), SumsTo(h, e, S, n)
    PROVE  \A s \in Few(R, m) : g[s] = h[s]
<1> DEFINE Bad == {Cardinality(s) : s \in {t \in Few(R, m) : g[t] # h[t]}}
<1> SUFFICES ASSUME Bad # {} PROVE FALSE OBVIOUS
<1>1. Bad \subseteq Nat
  BY FS_Subset, FS_CardinalityType DEF Few
<1>2. PICK k \in Bad : \A j \in Bad : k <= j
  <2> HIDE DEF Bad
  <2> QED BY <1>1, LeastOf
<1>3. PICK s \in Few(R, m) : g[s] # h[s] /\ k = Cardinality(s) BY <1>2
<1>4. s \in Few(S, n)
  <2>1. IsFiniteSet(s) /\ s \subseteq R /\ Cardinality(s) <= m BY <1>3, FS_Subset DEF Few
  <2>2. Cardinality(s) \in Nat BY <2>1, FS_CardinalityType
  <2> QED BY <2>1, <2>2 DEF Few
<1>5. g[s] = IF s = {} THEN 0 ELSE f[Foremost(s)] + g[s \ {Foremost(s)}] BY <1>3 DEF SumsTo
<1>50. h[s] = IF s = {} THEN 0 ELSE e[Foremost(s)] + h[s \ {Foremost(s)}] BY <1>4 DEF SumsTo
<1>6. s # {} BY <1>3, <1>5, <1>50
<1>7. PICK t : t = s \ {Foremost(s)} OBVIOUS
<1>8. t \in Few(R, m) /\ Foremost(s) \in s /\ Cardinality(t) = Cardinality(s) - 1 BY <1>6, <1>7, FewLess
<1>9. k \in Nat BY <1>1, <1>2
<1>10. g[t] = h[t]
  <2>1. SUFFICES ASSUME g[t] # h[t] PROVE FALSE OBVIOUS
  <2>2. Cardinality(t) \in Bad BY <1>8, <2>1
  <2> QED BY <1>2, <1>3, <1>8, <1>9, <2>2
<1>11. f[Foremost(s)] = e[Foremost(s)] BY <1>8 DEF Few
<1> QED BY <1>3, <1>5, <1>50, <1>6, <1>7, <1>10, <1>11

\* SumFunctionOnSet is the value of such a function.
LEMMA SumIsOf ==
    ASSUME NEW f, NEW S, IsFiniteSet(S)
    PROVE  \E g : SumsTo(g, f, S, Cardinality(S)) /\ SumFunctionOnSet(f, S) = g[S]
<1> DEFINE g == CHOOSE h : SumsTo(h, f, S, Cardinality(S))
<1>1. Cardinality(S) \in Nat BY FS_CardinalityType
<1>2. SumsTo(g, f, S, Cardinality(S)) BY <1>1, SumsExist
<1>3. Few(S, Cardinality(S)) = SUBSET S BY FS_Subset DEF Few
<1>4. g = CHOOSE h : h = [s \in SUBSET S |-> IF s = {} THEN 0
                                     ELSE f[Foremost(s)] + h[s \ {Foremost(s)}]]
  BY <1>3 DEF SumsTo
<1>5. SumFunctionOnSet(f, S) = g[S]
  BY <1>4 DEF SumFunctionOnSet, FoldFunctionOnSet, MapThenFoldSet, Foremost
<1> QED BY <1>2, <1>5

\* a function that has numbers there
Counts(f, S) == \A x \in S : f[x] \in Int

LEMMA SumOfNone == ASSUME NEW f PROVE SumFunctionOnSet(f, {}) = 0
<1>1. IsFiniteSet({}) /\ Cardinality({}) = 0 BY FS_EmptySet
<1>2. PICK g : SumsTo(g, f, {}, 0) /\ SumFunctionOnSet(f, {}) = g[{}] BY <1>1, SumIsOf
<1>3. {} \in Few({}, 0) BY FewHasNone
<1> QED BY <1>2, <1>3 DEF SumsTo

\* A sum is what it takes first and the sum of the rest.
LEMMA SumTakes ==
    ASSUME NEW f, NEW S, IsFiniteSet(S), S # {}
    PROVE  SumFunctionOnSet(f, S) = f[Foremost(S)] + SumFunctionOnSet(f, S \ {Foremost(S)})
<1>1. PICK n : n = Cardinality(S) OBVIOUS
<1>2. PICK g : SumsTo(g, f, S, n) /\ SumFunctionOnSet(f, S) = g[S] BY <1>1, SumIsOf
<1>3. n \in Nat /\ S \in Few(S, n) BY <1>1, FS_CardinalityType DEF Few
<1>4. PICK R : R = S \ {Foremost(S)} OBVIOUS
<1>5. /\ R \in Few(S, n - 1) /\ R \in Few(S, n) /\ Cardinality(R) = n - 1 /\ n # 0
  BY <1>1, <1>3, <1>4, FewLess
<1>6. IsFiniteSet(R) /\ R \subseteq S BY <1>4, FS_Subset
<1>7. PICK h : SumsTo(h, f, R, n - 1) /\ SumFunctionOnSet(f, R) = h[R] BY <1>5, <1>6, SumIsOf
<1>8. R \in Few(R, n - 1) BY <1>3, <1>5 DEF Few
<1>9. n - 1 \in Nat /\ n - 1 <= n BY <1>3, <1>5
<1>10. h[R] = g[R]
  <2>1. \A s \in Few(R, n - 1) : h[s] = g[s] BY <1>2, <1>3, <1>6, <1>7, <1>9, SumsAgree
  <2> QED BY <1>8, <2>1
<1>11. g[S] = f[Foremost(S)] + g[R] BY <1>2, <1>3, <1>4 DEF SumsTo
<1> QED BY <1>2, <1>4, <1>7, <1>10, <1>11

\* Functions that agree on a set have one sum over it.
LEMMA SumSame ==
    ASSUME NEW f, NEW e, NEW S, IsFiniteSet(S), \A x \in S : f[x] = e[x]
    PROVE  SumFunctionOnSet(f, S) = SumFunctionOnSet(e, S)
<1>1. PICK n : n = Cardinality(S) OBVIOUS
<1>2. PICK g : SumsTo(g, f, S, n) /\ SumFunctionOnSet(f, S) = g[S] BY <1>1, SumIsOf
<1>3. PICK h : SumsTo(h, e, S, n) /\ SumFunctionOnSet(e, S) = h[S] BY <1>1, SumIsOf
<1>4. n \in Nat /\ n <= n /\ S \in Few(S, n) /\ S \subseteq S BY <1>1, FS_CardinalityType DEF Few
<1>5. \A s \in Few(S, n) : g[s] = h[s] BY <1>2, <1>3, <1>4, SumsAgree
<1> QED BY <1>2, <1>3, <1>4, <1>5

LEMMA SumTyped ==
    ASSUME NEW f, NEW S, IsFiniteSet(S), Counts(f, S)
    PROVE  SumFunctionOnSet(f, S) \in Int
<1> DEFINE Bad == {Cardinality(s) : s \in {t \in SUBSET S : SumFunctionOnSet(f, t) \notin Int}}
<1> SUFFICES ASSUME Bad # {} PROVE FALSE OBVIOUS
<1>1. Bad \subseteq Nat BY FS_Subset, FS_CardinalityType
<1>2. PICK k \in Bad : \A j \in Bad : k <= j
  <2> HIDE DEF Bad
  <2> QED BY <1>1, LeastOf
<1>3. PICK s \in SUBSET S : SumFunctionOnSet(f, s) \notin Int /\ k = Cardinality(s) BY <1>2
<1>4. IsFiniteSet(s) BY <1>3, FS_Subset
<1>5. s # {} BY <1>3, SumOfNone
<1>6. PICK t : t = s \ {Foremost(s)} OBVIOUS
<1>7. Foremost(s) \in s /\ t \in SUBSET S BY <1>5, <1>6 DEF Foremost
<1>8. Cardinality(t) = k - 1 BY <1>3, <1>4, <1>6, <1>7, FS_RemoveElement
<1>9. SumFunctionOnSet(f, t) \in Int
  <2>1. SUFFICES ASSUME SumFunctionOnSet(f, t) \notin Int PROVE FALSE OBVIOUS
  <2>2. k - 1 \in Bad BY <1>7, <1>8, <2>1
  <2> QED BY <1>1, <1>2, <2>2
<1>10. SumFunctionOnSet(f, s) = f[Foremost(s)] + SumFunctionOnSet(f, t) BY <1>4, <1>5, <1>6, SumTakes
<1>11. f[Foremost(s)] \in Int BY <1>7 DEF Counts
<1> QED BY <1>3, <1>9, <1>10, <1>11

\* A sum is any one of its members and the sum of the rest.
LEMMA SumWithout ==
    ASSUME NEW f, NEW S, IsFiniteSet(S), Counts(f, S), NEW x \in S
    PROVE  SumFunctionOnSet(f, S) = f[x] + SumFunctionOnSet(f, S \ {x})
<1> DEFINE Splits(a, b) == SumFunctionOnSet(f, a) = f[b] + SumFunctionOnSet(f, a \ {b})
           Bad == {Cardinality(s) : s \in {t \in SUBSET S : \E y \in t : ~Splits(t, y)}}
<1> SUFFICES ASSUME Bad # {} PROVE FALSE OBVIOUS
<1>1. Bad \subseteq Nat BY FS_Subset, FS_CardinalityType
<1>2. PICK k \in Bad : \A j \in Bad : k <= j
  <2> HIDE DEF Bad
  <2> QED BY <1>1, LeastOf
<1>3. PICK s \in SUBSET S : \E y \in s : ~Splits(s, y) /\ k = Cardinality(s) BY <1>2
<1>30. PICK y \in s : ~Splits(s, y) /\ k = Cardinality(s) BY <1>3, <1>30
<1>4. IsFiniteSet(s) /\ s # {} BY <1>3, <1>30, FS_Subset
<1>5. PICK c : c = Foremost(s) OBVIOUS
<1>6. c \in s BY <1>4, <1>5 DEF Foremost
<1>7. SumFunctionOnSet(f, s) = f[c] + SumFunctionOnSet(f, s \ {c}) BY <1>4, <1>5, SumTakes
<1>8. c # y BY <1>3, <1>30, <1>7
<1>9. k - 1 = Cardinality(s \ {c}) /\ k - 1 = Cardinality(s \ {y}) BY <1>3, <1>30, <1>4, <1>6, FS_RemoveElement
<1>10. k - 1 \notin Bad BY <1>1, <1>2
<1>11. s \ {c} \in SUBSET S /\ s \ {y} \in SUBSET S BY <1>3, <1>30
<1>12. Splits(s \ {c}, y) /\ Splits(s \ {y}, c)
  <2>1. y \in s \ {c} /\ c \in s \ {y} BY <1>3, <1>30, <1>6, <1>8
  <2> QED BY <1>9, <1>10, <1>11, <2>1
<1>13. PICK r : r = s \ {c, y} OBVIOUS
<1>14. (s \ {c}) \ {y} = r /\ (s \ {y}) \ {c} = r BY <1>13
<1>15. /\ SumFunctionOnSet(f, s \ {c}) = f[y] + SumFunctionOnSet(f, r)
       /\ SumFunctionOnSet(f, s \ {y}) = f[c] + SumFunctionOnSet(f, r)
  BY <1>12, <1>14
<1>16. SumFunctionOnSet(f, r) \in Int
  <2>1. IsFiniteSet(r) /\ Counts(f, r) BY <1>3, <1>30, <1>13, FS_Subset DEF Counts
  <2> QED BY <2>1, SumTyped
<1>17. f[c] \in Int /\ f[y] \in Int BY <1>3, <1>30, <1>6 DEF Counts
<1>18. SumFunctionOnSet(f, s) = f[y] + SumFunctionOnSet(f, s \ {y})
  BY <1>7, <1>15, <1>16, <1>17
<1> QED BY <1>3, <1>30, <1>18

\* One value that changes changes the sum by as much.
LEMMA SumMoves ==
    ASSUME NEW f, NEW e, NEW S, IsFiniteSet(S), Counts(f, S), NEW x \in S, e[x] \in Int,
           \A y \in S \ {x} : e[y] = f[y]
    PROVE  SumFunctionOnSet(e, S) = SumFunctionOnSet(f, S) + e[x] - f[x]
<1>1. IsFiniteSet(S \ {x}) /\ Counts(f, S \ {x}) /\ Counts(e, S) BY FS_Subset DEF Counts
<1>2. SumFunctionOnSet(e, S \ {x}) = SumFunctionOnSet(f, S \ {x}) BY <1>1, SumSame
<1>3. SumFunctionOnSet(f, S \ {x}) \in Int BY <1>1, SumTyped
<1>4. SumFunctionOnSet(e, S) = e[x] + SumFunctionOnSet(e, S \ {x}) BY <1>1, SumWithout
<1>5. SumFunctionOnSet(f, S) = f[x] + SumFunctionOnSet(f, S \ {x}) BY SumWithout
<1> QED BY <1>2, <1>3, <1>4, <1>5 DEF Counts

LEMMA SumOfZeros ==
    ASSUME NEW f, NEW S, IsFiniteSet(S), \A x \in S : f[x] = 0
    PROVE  SumFunctionOnSet(f, S) = 0
<1> DEFINE Bad == {Cardinality(s) : s \in {t \in SUBSET S : SumFunctionOnSet(f, t) # 0}}
<1> SUFFICES ASSUME Bad # {} PROVE FALSE OBVIOUS
<1>1. Bad \subseteq Nat BY FS_Subset, FS_CardinalityType
<1>2. PICK k \in Bad : \A j \in Bad : k <= j
  <2> HIDE DEF Bad
  <2> QED BY <1>1, LeastOf
<1>3. PICK s \in SUBSET S : SumFunctionOnSet(f, s) # 0 /\ k = Cardinality(s) BY <1>2
<1>4. IsFiniteSet(s) BY <1>3, FS_Subset
<1>5. s # {} BY <1>3, SumOfNone
<1>6. PICK t : t = s \ {Foremost(s)} OBVIOUS
<1>7. Foremost(s) \in s /\ t \in SUBSET S BY <1>5, <1>6 DEF Foremost
<1>8. Cardinality(t) = k - 1 BY <1>3, <1>4, <1>6, <1>7, FS_RemoveElement
<1>9. SumFunctionOnSet(f, t) = 0
  <2>1. SUFFICES ASSUME SumFunctionOnSet(f, t) # 0 PROVE FALSE OBVIOUS
  <2>2. k - 1 \in Bad BY <1>7, <1>8, <2>1
  <2> QED BY <1>1, <1>2, <2>2
<1>10. SumFunctionOnSet(f, s) = f[Foremost(s)] + SumFunctionOnSet(f, t) BY <1>4, <1>5, <1>6, SumTakes
<1>11. f[Foremost(s)] = 0 BY <1>7
<1> QED BY <1>3, <1>9, <1>10, <1>11

\* A sum is at least the number of members that are not zero.
LEMMA SumCounts ==
    ASSUME NEW f, NEW S, IsFiniteSet(S), \A x \in S : f[x] \in Nat,
           NEW T, T \subseteq S, \A x \in T : f[x] # 0
    PROVE  Cardinality(T) \in Nat /\ Cardinality(T) <= SumFunctionOnSet(f, S)
<1> DEFINE Bad == {Cardinality(s) : s \in {t \in SUBSET S : ~(SumFunctionOnSet(f, t) >= Cardinality(T \cap t))}}
<1>0. IsFiniteSet(T) /\ Cardinality(T) \in Nat /\ T \cap S = T BY FS_Subset, FS_CardinalityType
<1> SUFFICES ASSUME Bad # {} PROVE FALSE
  BY <1>0, SumTyped DEF Counts
<1>1. Bad \subseteq Nat BY FS_Subset, FS_CardinalityType
<1>2. PICK k \in Bad : \A j \in Bad : k <= j
  <2> HIDE DEF Bad
  <2> QED BY <1>1, LeastOf
<1>3. PICK s \in SUBSET S : ~(SumFunctionOnSet(f, s) >= Cardinality(T \cap s)) /\ k = Cardinality(s) BY <1>2
<1>4. IsFiniteSet(s) BY <1>3, FS_Subset
<1>5. s # {} BY <1>3, SumOfNone, FS_EmptySet
<1>6. PICK x : x = Foremost(s) OBVIOUS
<1>7. PICK t : t = s \ {x} OBVIOUS
<1>8. x \in s /\ t \in SUBSET S BY <1>5, <1>6, <1>7 DEF Foremost
<1>9. Cardinality(t) = k - 1 BY <1>3, <1>4, <1>7, <1>8, FS_RemoveElement
<1>10. SumFunctionOnSet(f, t) >= Cardinality(T \cap t)
  <2>1. SUFFICES ASSUME ~(SumFunctionOnSet(f, t) >= Cardinality(T \cap t)) PROVE FALSE OBVIOUS
  <2>2. Cardinality(t) \in Bad BY <1>8, <2>1
  <2> HIDE DEF Bad
  <2> QED BY <1>1, <1>2, <1>9, <2>2
<1>11. SumFunctionOnSet(f, s) = f[x] + SumFunctionOnSet(f, t) BY <1>4, <1>5, <1>6, <1>7, SumTakes
<1>12. f[x] \in Nat /\ SumFunctionOnSet(f, t) \in Int
  <2>1. IsFiniteSet(t) /\ Counts(f, t) BY <1>8, FS_Subset DEF Counts
  <2> QED BY <1>8, <2>1, SumTyped
<1>13. IsFiniteSet(T \cap s) /\ IsFiniteSet(T \cap t) BY <1>0, FS_Subset
<1>14. Cardinality(T \cap s) \in Nat /\ Cardinality(T \cap t) \in Nat BY <1>13, FS_CardinalityType
<1>15. CASE x \in T
  <2>1. T \cap t = (T \cap s) \ {x} BY <1>7
  <2>2. Cardinality(T \cap t) = Cardinality(T \cap s) - 1 BY <1>8, <1>13, <1>15, <2>1, FS_RemoveElement
  <2> QED BY <1>3, <1>10, <1>11, <1>12, <1>14, <1>15, <2>2
<1>16. CASE x \notin T
  <2>1. T \cap t = T \cap s BY <1>7, <1>16
  <2> QED BY <1>3, <1>10, <1>11, <1>12, <1>14, <2>1
<1> QED BY <1>15, <1>16

\* A list is the function of its places.
IsList(s) == DOMAIN s = 1..Len(s) /\ s = [i \in DOMAIN s |-> s[i]]

LEMMA FunctionIsList == ASSUME NEW T, NEW n \in Nat, NEW s \in [1..n -> T] PROVE s \in Seq(T)
  OBVIOUS

LEMMA ListIs == ASSUME NEW S, NEW s \in Seq(S) PROVE IsList(s)
  BY DEF IsList

LEMMA ListsEqual ==
    ASSUME NEW s, NEW t, IsList(s), IsList(t), DOMAIN s = DOMAIN t, \A i \in DOMAIN s : s[i] = t[i]
    PROVE  s = t
  BY DEF IsList

LEMMA AppendedList ==
    ASSUME NEW S, NEW s \in Seq(S), NEW x
    PROVE  /\ Append(s, x) \in Seq(S \union {x})
           /\ Len(s) \in Nat /\ DOMAIN s = 1..Len(s)
           /\ Len(Append(s, x)) = Len(s) + 1 /\ DOMAIN Append(s, x) = 1..Len(s) + 1
           /\ \A i \in 1..Len(s) : Append(s, x)[i] = s[i]
           /\ Append(s, x)[Len(s) + 1] = x
<1>1. s \in Seq(S \union {x}) /\ x \in S \union {x} OBVIOUS
<1> QED BY <1>1
=============================================================================
