----------------------------- MODULE TextProofs -----------------------------
(* What the operators of Paginator do for every text: what is kept of one,      *)
(* where it is cut, how it is measured and which lines a card gets. Folds and   *)
(* recursive functions are reasoned about by induction over sets: a fold by the *)
(* members of its sequence, a recursion by a rank that goes down.               *)
EXTENDS Cards, SequenceTheorems, WellFoundedInduction, TLAPS

(* ---- folds and recursions ----------------------------------------------- *)

(* Induction over the numbers, of a set instead of a predicate: the least       *)
(* number that is missing has no one before it.                                *)
LEMMA NatInd ==
  ASSUME NEW S, S \subseteq Nat, 0 \in S, \A n \in S : n + 1 \in S
  PROVE  S = Nat
<1> SUFFICES ASSUME Nat \ S # {} PROVE FALSE  OBVIOUS
<1> DEFINE R == OpToRel(<, Nat)
<1>1. IsWellFoundedOn(R, Nat)  BY NatLessThanWellFounded
<1>2. Nat \ S \subseteq Nat  OBVIOUS
<1> HIDE DEF R
<1>3. PICK x \in Nat \ S : \A y \in Nat \ S : ~ (<<y, x>> \in R)  BY <1>1, <1>2, WFMin
<1>4. x # 0  OBVIOUS
<1>5. x - 1 \in Nat  BY <1>4
<1>6. x - 1 < x  OBVIOUS
<1>7. <<x - 1, x>> \in R  BY <1>5, <1>6 DEF R, OpToRel
<1>8. x - 1 \in S  BY <1>3, <1>5, <1>7
<1>9. x \in S  BY <1>8
<1> QED BY <1>9

\* Induction up to n.
LEMMA UpTo ==
  ASSUME NEW n \in Nat, NEW S, 0 \in S, \A k \in 0..n-1 : k \in S => k + 1 \in S
  PROVE  \A k \in 0..n : k \in S
<1> DEFINE R == {k \in Nat : k <= n => k \in S}
<1>1. R \subseteq Nat /\ 0 \in R  OBVIOUS
<1>2. \A k \in R : k + 1 \in R  OBVIOUS
<1> HIDE DEF R
<1>3. R = Nat  BY <1>1, <1>2, NatInd
<1> QED BY <1>3 DEF R

\* The maximum of an interval, and of what has a new greatest member.
LEMMA MaxUpTo ==
  ASSUME NEW k \in Nat \ {0}
  PROVE  Max(1..k) = k /\ (1..k) \ {k} = 1..k-1 /\ 1..k # {}
<1>1. k \in 1..k /\ \A y \in 1..k : k >= y  OBVIOUS
<1>2. \A x \in 1..k : (\A y \in 1..k : x >= y) => x = k  OBVIOUS
<1> QED BY <1>1, <1>2 DEF Max

LEMMA MaxIn ==
  ASSUME NEW m \in Nat, NEW T \in SUBSET (1..m+1), m + 1 \in T
  PROVE  Max(T) = m + 1 /\ T \ {m + 1} \in SUBSET (1..m)
<1>1. \A y \in T : y \in 1..m+1  OBVIOUS
<1>2. \A y \in T : m + 1 >= y  BY <1>1
<1>3. \A x \in T : (\A y \in T : x >= y) => x = m + 1  BY <1>1
<1>4. Max(T) = m + 1  BY <1>2, <1>3 DEF Max
<1>5. \A y \in T \ {m + 1} : y \in 1..m  BY <1>1
<1> QED BY <1>4, <1>5

\* A set of numbers below n has a maximum.
LEMMA MaxOfSet ==
  ASSUME NEW n \in Nat, NEW T \in SUBSET (1..n), T # {}
  PROVE  Max(T) \in T /\ \A k \in T : k <= Max(T)
<1> DEFINE S == {k \in 0..n : \A Q \in SUBSET (1..k) : Q # {} => \E m \in Q : \A y \in Q : m >= y}
<1>1. 0 \in S
  <2>1. \A Q \in SUBSET (1..0) : Q = {}  OBVIOUS
  <2>2. 0 \in 0..n  OBVIOUS
  <2> QED BY <2>1, <2>2
<1>2. ASSUME NEW k \in 0..n-1, k \in S PROVE k + 1 \in S
  <2> SUFFICES ASSUME NEW Q \in SUBSET (1..k+1), Q # {} PROVE \E m \in Q : \A y \in Q : m >= y  OBVIOUS
  <2>1. \A y \in Q : y \in 1..k+1  OBVIOUS
  <2>2. CASE k + 1 \in Q  BY <2>1, <2>2
  <2>3. CASE k + 1 \notin Q
    <3>1. \A y \in Q : y \in 1..k  BY <2>1, <2>3
    <3> QED BY <1>2, <3>1
  <2> QED BY <2>2, <2>3
<1> HIDE DEF S
<1>3. n \in S  BY <1>1, <1>2, UpTo
<1>4. \E m \in T : \A y \in T : m >= y  BY <1>3 DEF S
<1> QED BY <1>4 DEF Max

(* A fold over the numbers 1..n, for FoldSet takes them from the greatest down  *)
(* and its own recursion is by subsets of 1..n.                                *)
Countable(V, n, b, step) == n \in Nat /\ b \in V /\ step \in [V \X (1..n) -> V]
Counted(g, V, n, b, step) ==
  /\ g \in [SUBSET (1..n) -> V]
  /\ g = [T \in SUBSET (1..n) |-> IF T = {} THEN b ELSE step[<<g[T \ {Max(T)}], Max(T)>>]]

LEMMA FoldExists ==
  ASSUME NEW V, NEW n, NEW b, NEW step, Countable(V, n, b, step)
  PROVE  \E g : Counted(g, V, n, b, step)
<1> USE DEF Countable
<1> DEFINE Solves(g, m) == \A T \in SUBSET (1..m) : g[T] = IF T = {} THEN b ELSE step[<<g[T \ {Max(T)}], Max(T)>>]
           S == {m \in 0..n : \E g \in [SUBSET (1..m) -> V] : Solves(g, m)}
<1>1. 0 \in S
  <2> DEFINE g == [T \in SUBSET (1..0) |-> b]
  <2>1. g \in [SUBSET (1..0) -> V] /\ \A T \in SUBSET (1..0) : T = {}  OBVIOUS
  <2>2. Solves(g, 0)  BY <2>1
  <2>3. 0 \in 0..n  OBVIOUS
  <2> HIDE DEF g
  <2> QED BY <2>1, <2>2, <2>3
<1>2. ASSUME NEW m \in 0..n-1, m \in S PROVE m + 1 \in S
  <2>1. PICK g \in [SUBSET (1..m) -> V] : Solves(g, m)  BY <1>2
  <2> DEFINE h == [T \in SUBSET (1..m+1) |-> IF m + 1 \in T THEN step[<<g[T \ {m + 1}], m + 1>>] ELSE g[T]]
  <2>2. ASSUME NEW T \in SUBSET (1..m+1), m + 1 \in T
        PROVE  /\ h[T] = step[<<g[T \ {m + 1}], m + 1>>] /\ h[T] \in V /\ T # {}
               /\ Max(T) = m + 1 /\ h[T \ {m + 1}] = g[T \ {m + 1}]
    <3>1. T \ {m + 1} \in SUBSET (1..m) /\ Max(T) = m + 1  BY <2>2, MaxIn
    <3>2. g[T \ {m + 1}] \in V /\ m + 1 \in 1..n  BY <3>1
    <3>3. <<g[T \ {m + 1}], m + 1>> \in V \X (1..n)  BY <3>2
    <3>4. T \ {m + 1} \in SUBSET (1..m+1)  BY <3>1
    <3> QED BY <2>2, <3>1, <3>3, <3>4
  <2>3. ASSUME NEW T \in SUBSET (1..m+1), m + 1 \notin T
        PROVE  T \in SUBSET (1..m) /\ h[T] = g[T] /\ h[T] \in V
    <3>1. T \in SUBSET (1..m)  BY <2>3
    <3> QED BY <2>3, <3>1
  <2>4. ASSUME NEW T \in SUBSET (1..m), T # {} PROVE T \ {Max(T)} \in SUBSET (1..m+1) /\ m + 1 \notin T \ {Max(T)}
    <3>1. \A y \in T : y \in 1..m  BY <2>4
    <3>2. \A y \in T : y \in 1..m+1 /\ y # m + 1  BY <3>1
    <3> QED BY <3>2
  <2>5. h \in [SUBSET (1..m+1) -> V]  BY <2>2, <2>3
  <2>6. Solves(h, m + 1)
    <3> SUFFICES ASSUME NEW T \in SUBSET (1..m+1)
                 PROVE  h[T] = IF T = {} THEN b ELSE step[<<h[T \ {Max(T)}], Max(T)>>]
      OBVIOUS
    <3> HIDE DEF h
    <3>1. CASE m + 1 \in T  BY <3>1, <2>2
    <3>2. CASE m + 1 \notin T /\ T = {}  BY <3>2, <2>1, <2>3
    <3>3. CASE m + 1 \notin T /\ T # {}
      <4>1. T \in SUBSET (1..m) /\ h[T] = g[T]  BY <3>3, <2>3
      <4>2. g[T] = step[<<g[T \ {Max(T)}], Max(T)>>]  BY <3>3, <4>1, <2>1
      <4>3. h[T \ {Max(T)}] = g[T \ {Max(T)}]  BY <3>3, <4>1, <2>3, <2>4
      <4> QED BY <3>3, <4>1, <4>2, <4>3
    <3> QED BY <3>1, <3>2, <3>3
  <2> HIDE DEF h
  <2>7. m + 1 \in 0..n  OBVIOUS
  <2> QED BY <2>5, <2>6, <2>7
<1> HIDE DEF S
<1>3. n \in S  BY <1>1, <1>2, UpTo
<1>4. PICK g \in [SUBSET (1..n) -> V] : Solves(g, n)  BY <1>3 DEF S
<1>5. g = [T \in SUBSET (1..n) |-> IF T = {} THEN b ELSE step[<<g[T \ {Max(T)}], Max(T)>>]]
  BY <1>4
<1> QED BY <1>5 DEF Counted

(* Induction over sequences.                                                   *)
LEMMA SeqInd ==
  ASSUME NEW X, NEW P, <<>> \in P, \A s \in Seq(X), x \in X : s \in P => Append(s, x) \in P
  PROVE  \A s \in Seq(X) : s \in P
<1> DEFINE S == {n \in Nat : \A s \in Seq(X) : Len(s) = n => s \in P}
<1>1. 0 \in S  BY EmptySeq
<1>2. ASSUME NEW n \in S PROVE n + 1 \in S
  <2> SUFFICES ASSUME NEW s \in Seq(X), Len(s) = n + 1 PROVE s \in P  OBVIOUS
  <2>1. PICK f \in Seq(X), x \in X : s = Append(f, x)  BY EmptySeq, SequenceEmptyOrAppend
  <2>2. Len(f) = n  BY <2>1, AppendProperties, LenProperties
  <2> QED BY <2>1, <2>2
<1> HIDE DEF S
<1>3. S = Nat
  <2>1. S \subseteq Nat  BY DEF S
  <2> QED BY <1>1, <1>2, <2>1, NatInd
<1> QED BY <1>3, LenProperties DEF S

(* A function that takes a step for each member of a sequence.                 *)
Stepping(V, X, b, step) == b \in V /\ step \in [V \X X -> V]

\* What the recursive function g computes of the first k members of t.
Solved(g, t, V, X, b, step) ==
  /\ g \in [SUBSET DOMAIN t -> V]
  /\ \A T \in SUBSET DOMAIN t : T # {} => g[T \ {Max(T)}] \in V /\ t[Max(T)] \in X
  /\ g = [T \in SUBSET DOMAIN t |-> IF T = {} THEN b ELSE step[<<g[T \ {Max(T)}], t[Max(T)]>>]]

\* Of every sequence there is one.
LEMMA FoldSolved ==
  ASSUME NEW V, NEW X, NEW b, NEW step, Stepping(V, X, b, step), NEW t \in Seq(X)
  PROVE  \E g : Solved(g, t, V, X, b, step)
<1> DEFINE n == Len(t)
           sstep == [p \in V \X (1..n) |-> step[<<p[1], t[p[2]]>>]]
<1>1. n \in Nat /\ DOMAIN t = 1..n /\ \A k \in 1..n : t[k] \in X  BY LenProperties, ElementOfSeq
<1>2. sstep \in [V \X (1..n) -> V]  BY <1>1 DEF Stepping
<1> HIDE DEF n
<1>3. \A p \in V, k \in 1..n : sstep[<<p, k>>] = step[<<p, t[k]>>]  OBVIOUS
<1> HIDE DEF sstep
<1>4. PICK g : Counted(g, V, n, b, sstep)
  <2>1. Countable(V, n, b, sstep)  BY <1>1, <1>2 DEF Countable, Stepping
  <2> QED BY <2>1, FoldExists
<1>5. ASSUME NEW T \in SUBSET (1..n), T # {}
      PROVE  /\ g[T \ {Max(T)}] \in V /\ t[Max(T)] \in X
             /\ sstep[<<g[T \ {Max(T)}], Max(T)>>] = step[<<g[T \ {Max(T)}], t[Max(T)]>>]
  <2>1. Max(T) \in 1..n  BY <1>1, <1>5, MaxOfSet
  <2>2. g[T \ {Max(T)}] \in V  BY <1>4 DEF Counted
  <2> QED BY <1>1, <1>3, <2>1, <2>2
<1>6. g = [T \in SUBSET (1..n) |-> IF T = {} THEN b ELSE step[<<g[T \ {Max(T)}], t[Max(T)]>>]]
  BY <1>4, <1>5 DEF Counted
<1>7. g \in [SUBSET (1..n) -> V]  BY <1>4 DEF Counted
<1>8. Solved(g, t, V, X, b, step)  BY <1>1, <1>5, <1>6, <1>7 DEF Solved
<1> QED BY <1>8

(* What a fold over sequences computes, from the functions that compute it. *)
Folds(g, t, V, b, step) ==
  \A T \in SUBSET DOMAIN t :
    IF T = {} THEN g[T] = b
    ELSE g[T \ {Max(T)}] \in V => g[T] = step[<<g[T \ {Max(T)}], t[Max(T)]>>]

\* The function of the library's FoldLeft takes the step of each member in turn.
LEMMA FoldsUpTo ==
  ASSUME NEW t, DOMAIN t = 1..Len(t), Len(t) \in Nat, NEW V, NEW b, NEW step, NEW g, Folds(g, t, V, b, step)
  PROVE  /\ g[1..0] = b
         /\ \A k \in 1..Len(t) : g[1..k-1] \in V => g[1..k] = step[<<g[1..k-1], t[k]>>]
<1>1. 1..0 = {}  OBVIOUS
<1>2. g[1..0] = b  BY <1>1 DEF Folds
<1>3. ASSUME NEW k \in 1..Len(t), g[1..k-1] \in V PROVE g[1..k] = step[<<g[1..k-1], t[k]>>]
  <2>1. Max(1..k) = k /\ (1..k) \ {k} = 1..k-1 /\ 1..k # {}  BY MaxUpTo
  <2>2. 1..k \in SUBSET DOMAIN t  OBVIOUS
  <2> QED BY <1>3, <2>1, <2>2 DEF Folds
<1> QED BY <1>2, <1>3

\* H is a fold over sequences: of each it is what some recursive function computes.
Folding(H, V, X, b, step) ==
  /\ Stepping(V, X, b, step)
  /\ \A t \in Seq(X) : \E g : Folds(g, t, V, b, step) /\ H[t] = g[DOMAIN t]

Computed(H, V, X, b, step) ==
  /\ H[<<>>] = b
  /\ \A t \in Seq(X) : H[t] \in V
  /\ \A t \in Seq(X), x \in X : H[Append(t, x)] = step[<<H[t], x>>]

(* What a fold gives of the empty sequence and of one more member: by it each   *)
(* FoldLeft of the model is reasoned about by SeqInd.                           *)
LEMMA FoldFacts ==
  ASSUME NEW H, NEW V, NEW X, NEW b, NEW step, Folding(H, V, X, b, step)
  PROVE  Computed(H, V, X, b, step)
<1>0. b \in V /\ step \in [V \X X -> V]  BY DEF Folding, Stepping
<1>f. ASSUME NEW t \in Seq(X)
      PROVE  \E g : /\ Folds(g, t, V, b, step) /\ H[t] = g[1..Len(t)]
                    /\ g[1..0] = b
                    /\ \A k \in 1..Len(t) : g[1..k-1] \in V => g[1..k] = step[<<g[1..k-1], t[k]>>]
  <2>1. PICK g : Folds(g, t, V, b, step) /\ H[t] = g[DOMAIN t]  BY DEF Folding
  <2>2. DOMAIN t = 1..Len(t) /\ Len(t) \in Nat  BY LenProperties
  <2>3. /\ g[1..0] = b
        /\ \A k \in 1..Len(t) : g[1..k-1] \in V => g[1..k] = step[<<g[1..k-1], t[k]>>]
    BY <2>1, <2>2, FoldsUpTo
  <2> QED BY <2>1, <2>2, <2>3
<1>1. ASSUME NEW t \in Seq(X), NEW g, g[1..0] = b,
             \A k \in 1..Len(t) : g[1..k-1] \in V => g[1..k] = step[<<g[1..k-1], t[k]>>]
      PROVE \A k \in 0..Len(t) : g[1..k] \in V
  <2> DEFINE S == {k \in 0..Len(t) : g[1..k] \in V}
  <2>1. 0 \in S  BY <1>0, <1>1, LenProperties
  <2>2. ASSUME NEW k \in 0..Len(t)-1, k \in S PROVE k + 1 \in S
    <3>1. k + 1 \in 1..Len(t) /\ (k + 1) - 1 = k  BY LenProperties
    <3>2. g[1..k+1] = step[<<g[1..k], t[k+1]>>]  BY <1>1, <2>2, <3>1
    <3>3. t[k+1] \in X  BY <3>1, ElementOfSeq
    <3>4. <<g[1..k], t[k+1]>> \in V \X X  BY <2>2, <3>3
    <3> QED BY <1>0, <3>1, <3>2, <3>4
  <2> HIDE DEF S
  <2>3. \A k \in 0..Len(t) : k \in S  BY <2>1, <2>2, UpTo, LenProperties
  <2> QED BY <2>3 DEF S
<1>2. H[<<>>] = b
  <2>1. <<>> \in Seq(X) /\ Len(<<>>) = 0  BY EmptySeq
  <2> QED BY <1>f, <2>1
<1>3. ASSUME NEW t \in Seq(X) PROVE H[t] \in V
  <2>1. PICK g : /\ H[t] = g[1..Len(t)]
                 /\ g[1..0] = b
                 /\ \A k \in 1..Len(t) : g[1..k-1] \in V => g[1..k] = step[<<g[1..k-1], t[k]>>]
    BY <1>f
  <2> QED BY <1>1, <2>1, LenProperties
<1>4. ASSUME NEW t \in Seq(X), NEW x \in X PROVE H[Append(t, x)] = step[<<H[t], x>>]
  <2> DEFINE u == Append(t, x)
  <2>1. /\ u \in Seq(X) /\ Len(u) = Len(t) + 1 /\ u[Len(t) + 1] = x /\ Len(t) \in Nat
        /\ \A k \in 1..Len(t) : u[k] = t[k]
    BY AppendProperties, LenProperties
  <2> HIDE DEF u
  <2>2. PICK g : /\ H[t] = g[1..Len(t)]
                 /\ g[1..0] = b
                 /\ \A k \in 1..Len(t) : g[1..k-1] \in V => g[1..k] = step[<<g[1..k-1], t[k]>>]
    BY <1>f
  <2>3. PICK h : /\ H[u] = h[1..Len(u)]
                 /\ h[1..0] = b
                 /\ \A k \in 1..Len(u) : h[1..k-1] \in V => h[1..k] = step[<<h[1..k-1], u[k]>>]
    BY <1>f, <2>1
  <2> DEFINE S == {k \in 0..Len(t) : h[1..k] = g[1..k]}
  <2>4. 0 \in S  BY <2>1, <2>2, <2>3
  <2>5. ASSUME NEW k \in 0..Len(t)-1, k \in S PROVE k + 1 \in S
    <3>1. k + 1 \in 1..Len(t) /\ (k + 1) - 1 = k /\ k + 1 \in 1..Len(u)  BY <2>1
    <3>2. h[1..k] = g[1..k] /\ g[1..k] \in V  BY <1>1, <2>2, <2>5
    <3>3. g[1..k+1] = step[<<g[1..k], t[k+1]>>]  BY <2>2, <3>1, <3>2
    <3>4. h[1..k+1] = step[<<h[1..k], u[k+1]>>]  BY <2>3, <3>1, <3>2
    <3>5. u[k+1] = t[k+1]  BY <2>1, <3>1
    <3>6. h[1..k+1] = g[1..k+1]  BY <3>2, <3>3, <3>4, <3>5
    <3>7. k + 1 \in 0..Len(t)  BY <2>1
    <3> QED BY <3>6, <3>7
  <2> HIDE DEF S
  <2>6. \A k \in 0..Len(t) : k \in S  BY <2>1, <2>4, <2>5, UpTo
  <2>7. h[1..Len(t)] = g[1..Len(t)] /\ g[1..Len(t)] \in V  BY <1>1, <2>1, <2>2, <2>6 DEF S
  <2>8. Len(u) \in 1..Len(u) /\ Len(u) - 1 = Len(t)  BY <2>1
  <2>9. h[1..Len(u)] = step[<<h[1..Len(t)], u[Len(u)]>>]  BY <2>3, <2>7, <2>8
  <2> QED BY <2>1, <2>2, <2>3, <2>7, <2>9 DEF u
<1> QED BY <1>2, <1>3, <1>4 DEF Computed

(* A recursive function that goes from x to next[x] until it may stop, for the  *)
(* rank goes down: it exists, with values in V.                                *)
Recursion(D, V, rank, stop, base, next, step) ==
  /\ rank \in [D -> Nat] /\ base \in [D -> V] /\ next \in [D -> D] /\ step \in [D \X V -> V]
  /\ \A x \in D : x \notin stop => rank[next[x]] < rank[x]

Recurses(g, D, V, stop, base, next, step) ==
  /\ g \in [D -> V]
  /\ \A x \in D : g[x] = IF x \in stop THEN base[x] ELSE step[<<x, g[next[x]]>>]

LEMMA RecursionEnds ==
  ASSUME NEW D, NEW V, NEW rank, NEW stop, NEW base, NEW next, NEW step,
         Recursion(D, V, rank, stop, base, next, step)
  PROVE  \E g : Recurses(g, D, V, stop, base, next, step)
<1> DEFINE Upto(g, n) == /\ g \in [D -> V]
                         /\ \A x \in D : rank[x] < n => g[x] = IF x \in stop THEN base[x] ELSE step[<<x, g[next[x]]>>]
           S == {n \in Nat : \E g : Upto(g, n)}
<1>0. /\ rank \in [D -> Nat] /\ base \in [D -> V] /\ next \in [D -> D] /\ step \in [D \X V -> V]
      /\ \A x \in D : x \notin stop => rank[next[x]] < rank[x]
  BY DEF Recursion
<1>1. 0 \in S
  <2>1. Upto(base, 0)  BY <1>0
  <2> QED BY <2>1
<1>2. ASSUME NEW n \in S PROVE n + 1 \in S
  <2>1. PICK g : Upto(g, n)  BY <1>2
  <2> DEFINE h == [x \in D |-> IF rank[x] < n THEN g[x] ELSE IF x \in stop THEN base[x] ELSE step[<<x, g[next[x]]>>]]
  <2>2. \A x \in D : g[x] \in V /\ next[x] \in D /\ base[x] \in V /\ rank[x] \in Nat  BY <1>0, <2>1
  <2>3. \A x \in D : step[<<x, g[next[x]]>>] \in V
    <3> SUFFICES ASSUME NEW x \in D PROVE step[<<x, g[next[x]]>>] \in V  OBVIOUS
    <3>1. <<x, g[next[x]]>> \in D \X V  BY <2>2
    <3> QED BY <1>0, <3>1
  <2>4. h \in [D -> V]  BY <2>2, <2>3
  <2>5. ASSUME NEW x \in D, rank[x] < n + 1
        PROVE  h[x] = IF x \in stop THEN base[x] ELSE step[<<x, h[next[x]]>>]
    <3>1. rank[x] \in Nat /\ n \in Nat /\ rank[next[x]] \in Nat  BY <2>2
    <3>2. x \notin stop => rank[next[x]] < n  BY <1>0, <2>5, <3>1
    <3>3. x \notin stop => h[next[x]] = g[next[x]]  BY <3>2, <2>2
    <3>4. h[x] = IF x \in stop THEN base[x] ELSE step[<<x, g[next[x]]>>]  BY <2>1
    <3> QED BY <3>3, <3>4
  <2>6. Upto(h, n + 1)  BY <2>4, <2>5
  <2>7. n + 1 \in Nat  OBVIOUS
  <2> HIDE DEF h, Upto
  <2> QED BY <2>6, <2>7
<1>3. ASSUME NEW g, NEW n \in Nat, Upto(g, n), NEW h, NEW m \in Nat, Upto(h, m)
      PROVE  \A x \in D : rank[x] < n /\ rank[x] < m => g[x] = h[x]
  <2> DEFINE Q == {k \in Nat : \A x \in D : rank[x] < n /\ rank[x] < m /\ rank[x] < k => g[x] = h[x]}
  <2>1. 0 \in Q  BY <1>0
  <2>2. ASSUME NEW k \in Q PROVE k + 1 \in Q
    <3> SUFFICES ASSUME NEW x \in D, rank[x] < n, rank[x] < m, rank[x] < k + 1 PROVE g[x] = h[x]  OBVIOUS
    <3>1. rank[x] \in Nat /\ next[x] \in D /\ rank[next[x]] \in Nat  BY <1>0
    <3>2. g[x] = IF x \in stop THEN base[x] ELSE step[<<x, g[next[x]]>>]  BY <1>3
    <3>3. h[x] = IF x \in stop THEN base[x] ELSE step[<<x, h[next[x]]>>]  BY <1>3
    <3>4. CASE x \in stop  BY <3>2, <3>3, <3>4
    <3>5. CASE x \notin stop
      <4>1. rank[next[x]] < rank[x]  BY <1>0, <3>5
      <4>2. g[next[x]] = h[next[x]]  BY <2>2, <3>1, <4>1
      <4> QED BY <3>2, <3>3, <3>5, <4>2
    <3> QED BY <3>4, <3>5
  <2> HIDE DEF Q
  <2>3. Q = Nat
    <3>1. Q \subseteq Nat  BY DEF Q
    <3> QED BY <2>1, <2>2, <3>1, NatInd
  <2> SUFFICES ASSUME NEW x \in D, rank[x] < n, rank[x] < m PROVE g[x] = h[x]  OBVIOUS
  <2>4. rank[x] + 1 \in Q /\ rank[x] < rank[x] + 1  BY <1>0, <2>3
  <2> QED BY <2>4 DEF Q
<1> HIDE DEF S
<1>4. S = Nat
  <2>1. S \subseteq Nat  BY DEF S
  <2> QED BY <1>1, <1>2, <2>1, NatInd
<1> HIDE DEF Upto
<1> DEFINE w == [x \in D |-> CHOOSE g : Upto(g, rank[x] + 1)]
           G == [x \in D |-> w[x][x]]
<1>5. \A x \in D : Upto(w[x], rank[x] + 1)
  <2> SUFFICES ASSUME NEW x \in D PROVE Upto(w[x], rank[x] + 1)  OBVIOUS
  <2>1. rank[x] + 1 \in S  BY <1>0, <1>4
  <2>2. \E g : Upto(g, rank[x] + 1)  BY <2>1 DEF S
  <2> QED BY <2>2
<1>6. \A x \in D : G[x] = w[x][x]  OBVIOUS
<1> HIDE DEF w
<1>7. G \in [D -> V]
  <2>1. \A x \in D : w[x][x] \in V  BY <1>5 DEF Upto
  <2> QED BY <2>1
<1> HIDE DEF G
<1>8. ASSUME NEW x \in D PROVE G[x] = IF x \in stop THEN base[x] ELSE step[<<x, G[next[x]]>>]
  <2>1. rank[x] \in Nat /\ next[x] \in D /\ rank[next[x]] \in Nat  BY <1>0
  <2>2. w[x][x] = IF x \in stop THEN base[x] ELSE step[<<x, w[x][next[x]]>>]  BY <1>5, <2>1 DEF Upto
  <2>3. CASE x \in stop  BY <2>2, <2>3, <1>6
  <2>4. CASE x \notin stop
    <3>1. rank[next[x]] < rank[x]  BY <1>0, <2>4
    <3>2. Upto(w[x], rank[x] + 1) /\ Upto(w[next[x]], rank[next[x]] + 1)  BY <1>5, <2>1
    <3>3. rank[x] + 1 \in Nat /\ rank[next[x]] + 1 \in Nat  BY <2>1
    <3>4. rank[next[x]] < rank[x] + 1 /\ rank[next[x]] < rank[next[x]] + 1  BY <2>1, <3>1
    <3>5. w[x][next[x]] = w[next[x]][next[x]]  BY <1>3, <2>1, <3>2, <3>3, <3>4
    <3> QED BY <1>6, <2>1, <2>2, <2>4, <3>5
  <2> QED BY <2>3, <2>4
<1>9. Recurses(G, D, V, stop, base, next, step)  BY <1>7, <1>8 DEF Recurses
<1> QED BY <1>9

(* ---- the folds of the model --------------------------------------------- *)

\* What is kept of a sequence.
LEMMA OnlyFold ==
  ASSUME NEW X, NEW S
  PROVE  /\ Only(<<>>, S) = <<>>
         /\ \A t \in Seq(X) : Only(t, S) \in Seq(X)
         /\ \A t \in Seq(X), x \in X : Only(Append(t, x), S) = IF x \in S THEN Append(Only(t, S), x) ELSE Only(t, S)
<1> DEFINE Op(a, x) == IF x \in S THEN Append(a, x) ELSE a
           step == [p \in Seq(X) \X X |-> Op(p[1], p[2])]
           H == [t \in Seq(X) |-> Only(t, S)]
<1>1. Stepping(Seq(X), X, <<>>, step)
  BY EmptySeq, AppendProperties DEF Stepping
<1>2. \A a \in Seq(X), x \in X : step[<<a, x>>] = Op(a, x)  OBVIOUS
<1> HIDE DEF step
<1>3. ASSUME NEW t \in Seq(X) PROVE \E g : Folds(g, t, Seq(X), <<>>, step) /\ H[t] = g[DOMAIN t]
  <2> DEFINE Body(g) == [T \in SUBSET DOMAIN t |-> IF T = {} THEN <<>> ELSE Op(g[T \ {Max(T)}], t[Max(T)])]
             iter == CHOOSE g : g = Body(g)
  <2>1. PICK g : Solved(g, t, Seq(X), X, <<>>, step)  BY <1>1, FoldSolved
  <2>2. g = Body(g)  BY <1>2, <2>1 DEF Solved
  <2>3. iter = Body(iter)  BY <2>2
  <2>4. Only(t, S) = iter[DOMAIN t]  BY DEF Only, FoldLeft, MapThenFoldSet
  <2> HIDE DEF iter
  <2>5. Folds(iter, t, Seq(X), <<>>, step)  BY <2>3, <1>2, <2>1 DEF Folds, Solved
  <2> QED BY <2>4, <2>5
<1>4. \A t \in Seq(X) : H[t] = Only(t, S)  OBVIOUS
<1> HIDE DEF H, Op
<1>5. Computed(H, Seq(X), X, <<>>, step)
  <2>1. Folding(H, Seq(X), X, <<>>, step)  BY <1>1, <1>3 DEF Folding
  <2> QED BY <2>1, FoldFacts
<1>6. Only(<<>>, S) = <<>> /\ \A t \in Seq(X) : Only(t, S) \in Seq(X)  BY <1>4, <1>5, EmptySeq DEF Computed
<1>7. ASSUME NEW t \in Seq(X), NEW x \in X PROVE Only(Append(t, x), S) = Op(Only(t, S), x)
  <2>1. Append(t, x) \in Seq(X)  BY AppendProperties
  <2>2. H[Append(t, x)] = step[<<H[t], x>>] /\ H[t] \in Seq(X)  BY <1>5 DEF Computed
  <2> QED BY <1>2, <1>4, <2>1, <2>2
<1> QED BY <1>6, <1>7 DEF Op

\* A text of one character.
LEMMA OneChar == \A c \in Char : <<c>> \in Text
<1> SUFFICES ASSUME NEW c \in Char PROVE <<c>> \in Seq(Char)  BY DEF Text
<1> QED OBVIOUS

\* A text that is being set into lines.
Wrapping == [lines : Seq(Text), line : Text, word : Text]
NoLines == [lines |-> <<>>, line |-> <<>>, word |-> <<>>]

LEMMA WrapType ==
  /\ NoLines \in Wrapping
  /\ \A w \in Wrapping : EndWord(w) \in Wrapping /\ EndParagraph(w) \in Wrapping
  /\ \A w \in Wrapping, c \in Char : Wrap(w, c) \in Wrapping
<1>1. NoLines \in Wrapping  BY EmptySeq DEF NoLines, Wrapping, Text
<1>2. ASSUME NEW w \in Wrapping PROVE EndWord(w) \in Wrapping
  <2>1. w.lines \in Seq(Text) /\ w.line \in Text /\ w.word \in Text /\ "_" \in Char  BY DEF Wrapping, Char
  <2>2. <<"_">> \in Text /\ <<>> \in Text  BY <2>1, OneChar, EmptySeq DEF Text
  <2>3. w.line \o <<"_">> \in Text  BY <2>1, <2>2, ConcatProperties DEF Text
  <2>4. w.line \o <<"_">> \o w.word \in Text  BY <2>1, <2>3, ConcatProperties DEF Text
  <2>5. Append(w.lines, w.line) \in Seq(Text)  BY <2>1, AppendProperties
  <2> QED BY <2>1, <2>2, <2>4, <2>5 DEF EndWord, Wrapping
<1>3. ASSUME NEW w \in Wrapping PROVE EndParagraph(w) \in Wrapping
  <2>1. EndWord(w).lines \in Seq(Text) /\ EndWord(w).line \in Text /\ <<>> \in Text
    BY <1>2, EmptySeq DEF Wrapping, Text
  <2>2. Append(EndWord(w).lines, EndWord(w).line) \in Seq(Text)  BY <2>1, AppendProperties
  <2> QED BY <2>1, <2>2 DEF EndParagraph, Wrapping
<1>4. ASSUME NEW w \in Wrapping, NEW c \in Char PROVE Wrap(w, c) \in Wrapping
  <2>1. w.word \in Text  BY DEF Wrapping
  <2>2. Append(w.word, c) \in Text  BY <2>1, AppendProperties DEF Text
  <2> QED BY <1>2, <1>3, <2>2 DEF Wrap, Wrapping
<1> QED BY <1>1, <1>2, <1>3, <1>4

LEMMA WrappedFold ==
  /\ Wrapped(<<>>) = NoLines
  /\ \A t \in Seq(Char) : Wrapped(t) \in Wrapping
  /\ \A t \in Seq(Char), x \in Char : Wrapped(Append(t, x)) = Wrap(Wrapped(t), x)
<1> DEFINE Op(a, x) == Wrap(a, x)
           step == [p \in Wrapping \X Char |-> Op(p[1], p[2])]
           H == [t \in Seq(Char) |-> Wrapped(t)]
<1>1. Stepping(Wrapping, Char, NoLines, step)
  BY WrapType DEF Stepping
<1>2. \A a \in Wrapping, x \in Char : step[<<a, x>>] = Op(a, x)  OBVIOUS
<1> HIDE DEF step
<1>3. ASSUME NEW t \in Seq(Char) PROVE \E g : Folds(g, t, Wrapping, NoLines, step) /\ H[t] = g[DOMAIN t]
  <2> DEFINE Body(g) == [T \in SUBSET DOMAIN t |-> IF T = {} THEN NoLines ELSE Op(g[T \ {Max(T)}], t[Max(T)])]
             iter == CHOOSE g : g = Body(g)
  <2>1. PICK g : Solved(g, t, Wrapping, Char, NoLines, step)  BY <1>1, FoldSolved
  <2>2. g = Body(g)  BY <1>2, <2>1 DEF Solved
  <2>3. iter = Body(iter)  BY <2>2
  <2>4. Wrapped(t) = iter[DOMAIN t]  BY DEF Wrapped, NoLines, FoldLeft, MapThenFoldSet
  <2> HIDE DEF iter
  <2>5. Folds(iter, t, Wrapping, NoLines, step)  BY <2>3, <1>2, <2>1 DEF Folds, Solved
  <2> QED BY <2>4, <2>5
<1>4. \A t \in Seq(Char) : H[t] = Wrapped(t)  OBVIOUS
<1> HIDE DEF H, Op
<1>5. Computed(H, Wrapping, Char, NoLines, step)
  <2>1. Folding(H, Wrapping, Char, NoLines, step)  BY <1>1, <1>3 DEF Folding
  <2> QED BY <2>1, FoldFacts
<1>6. Wrapped(<<>>) = NoLines /\ \A t \in Seq(Char) : Wrapped(t) \in Wrapping  BY <1>4, <1>5, EmptySeq DEF Computed
<1>7. ASSUME NEW t \in Seq(Char), NEW x \in Char PROVE Wrapped(Append(t, x)) = Op(Wrapped(t), x)
  <2>1. Append(t, x) \in Seq(Char)  BY AppendProperties
  <2>2. H[Append(t, x)] = step[<<H[t], x>>] /\ H[t] \in Wrapping  BY <1>5 DEF Computed
  <2> QED BY <1>2, <1>4, <2>1, <2>2
<1> QED BY <1>6, <1>7 DEF Op

\* Sequences put one after the other.
LEMMA FlattenFold ==
  ASSUME NEW X
  PROVE  /\ FlattenSeq(<<>>) = <<>>
         /\ \A ss \in Seq(Seq(X)) : FlattenSeq(ss) \in Seq(X)
         /\ \A ss \in Seq(Seq(X)), s \in Seq(X) : FlattenSeq(Append(ss, s)) = FlattenSeq(ss) \o s
<1>1. FlattenSeq(<<>>) = <<>>  BY DEF FlattenSeq
<1> DEFINE Body(ss, g) == [i \in 1..Len(ss) |-> IF i = 1 THEN ss[i] ELSE g[i-1] \o ss[i]]
           flat(ss) == CHOOSE g : g = Body(ss, g)
<1>2. ASSUME NEW ss \in Seq(Seq(X)), ss # <<>>
      PROVE  /\ flat(ss) \in [1..Len(ss) -> Seq(X)] /\ Len(ss) \in Nat \ {0}
             /\ \A i \in 1..Len(ss) : flat(ss)[i] = IF i = 1 THEN ss[i] ELSE flat(ss)[i-1] \o ss[i]
             /\ FlattenSeq(ss) = flat(ss)[Len(ss)]
  <2> DEFINE n == Len(ss)
             D == 1..n
             rank == [i \in D |-> i]
             base == [i \in D |-> ss[i]]
             next == [i \in D |-> IF i = 1 THEN 1 ELSE i - 1]
             step == [p \in D \X Seq(X) |-> p[2] \o ss[p[1]]]
  <2>1. n \in Nat \ {0} /\ \A i \in D : ss[i] \in Seq(X)  BY <1>2, EmptySeq, LenProperties, ElementOfSeq
  <2> HIDE DEF n
  <2>2. step \in [D \X Seq(X) -> Seq(X)]
    <3>1. \A i \in D, s \in Seq(X) : s \o ss[i] \in Seq(X)  BY <2>1, ConcatProperties
    <3> QED BY <3>1
  <2>3. Recursion(D, Seq(X), rank, {1}, base, next, step)
    <3>1. rank \in [D -> Nat] /\ base \in [D -> Seq(X)] /\ next \in [D -> D]  BY <2>1
    <3>2. \A i \in D : i \notin {1} => rank[next[i]] < rank[i]  BY <2>1
    <3> HIDE DEF D, rank, base, next, step
    <3> QED BY <2>2, <3>1, <3>2 DEF Recursion
  <2>4. PICK g : Recurses(g, D, Seq(X), {1}, base, next, step)  BY <2>3, RecursionEnds
  <2>5. g \in [D -> Seq(X)]  BY <2>4 DEF Recurses
  <2>6. ASSUME NEW i \in D PROVE g[i] = IF i = 1 THEN ss[i] ELSE g[i-1] \o ss[i]
    <3>1. g[i] = IF i \in {1} THEN base[i] ELSE step[<<i, g[next[i]]>>]  BY <2>4 DEF Recurses
    <3>2. CASE i = 1  BY <3>1, <3>2
    <3>3. CASE i # 1
      <4>1. next[i] = i - 1 /\ i - 1 \in D  BY <2>1, <3>3
      <4>2. <<i, g[i-1]>> \in D \X Seq(X)  BY <2>5, <4>1
      <4>3. step[<<i, g[i-1]>>] = g[i-1] \o ss[i]  BY <4>2
      <4> QED BY <3>1, <3>3, <4>1, <4>3
    <3> QED BY <3>2, <3>3
  <2>7. g = Body(ss, g)  BY <2>5, <2>6 DEF n
  <2>8. flat(ss) = Body(ss, flat(ss))  BY <2>7
  <2>9. FlattenSeq(ss) = flat(ss)[n]  BY <2>1 DEF FlattenSeq, n
  <2> HIDE DEF flat
  <2>10. \A i \in D : flat(ss)[i] = IF i = 1 THEN ss[i] ELSE flat(ss)[i-1] \o ss[i]  BY <2>8 DEF n
  <2> DEFINE S == {i \in 0..n : i = 0 \/ flat(ss)[i] \in Seq(X)}
  <2>11. 0 \in S  BY <2>1
  <2>12. ASSUME NEW i \in 0..n-1, i \in S PROVE i + 1 \in S
    <3>1. i + 1 \in D /\ (i + 1) - 1 = i /\ i + 1 \in 0..n  BY <2>1
    <3>2. flat(ss)[i+1] = IF i + 1 = 1 THEN ss[i+1] ELSE flat(ss)[i] \o ss[i+1]  BY <2>10, <3>1
    <3>3. ss[i+1] \in Seq(X)  BY <2>1, <3>1
    <3>4. CASE i = 0  BY <3>1, <3>2, <3>3, <3>4
    <3>5. CASE i # 0
      <4>1. flat(ss)[i] \in Seq(X)  BY <2>12, <3>5
      <4>2. flat(ss)[i] \o ss[i+1] \in Seq(X)  BY <3>3, <4>1, ConcatProperties
      <4>3. i + 1 # 1  BY <3>5
      <4> QED BY <3>1, <3>2, <4>2, <4>3
    <3> QED BY <3>4, <3>5
  <2> HIDE DEF S
  <2>13. \A i \in 0..n : i \in S  BY <2>1, <2>11, <2>12, UpTo
  <2>14. \A i \in D : flat(ss)[i] \in Seq(X)  BY <2>1, <2>13 DEF S
  <2>15. flat(ss) = [i \in D |-> IF i = 1 THEN ss[i] ELSE flat(ss)[i-1] \o ss[i]]  BY <2>8 DEF n
  <2>16. flat(ss) \in [D -> Seq(X)]  BY <2>14, <2>15
  <2> QED BY <2>1, <2>9, <2>10, <2>16 DEF n
<1> HIDE DEF flat
<1>3. ASSUME NEW ss \in Seq(Seq(X)) PROVE FlattenSeq(ss) \in Seq(X)
  <2>1. CASE ss = <<>>  BY <1>1, <2>1, EmptySeq
  <2>2. CASE ss # <<>>
    <3>1. Len(ss) \in 1..Len(ss)  BY <1>2, <2>2
    <3> QED BY <1>2, <2>2, <3>1
  <2> QED BY <2>1, <2>2
<1>4. ASSUME NEW ss \in Seq(Seq(X)), NEW s \in Seq(X) PROVE FlattenSeq(Append(ss, s)) = FlattenSeq(ss) \o s
  <2> DEFINE us == Append(ss, s)
             n == Len(ss)
  <2>1. /\ us \in Seq(Seq(X)) /\ us # <<>> /\ Len(us) = n + 1 /\ us[n + 1] = s /\ n \in Nat
        /\ \A i \in 1..n : us[i] = ss[i]
    BY AppendProperties, LenProperties
  <2> HIDE DEF us
  <2>2. /\ FlattenSeq(us) = flat(us)[n + 1]
        /\ \A i \in 1..n + 1 : flat(us)[i] = IF i = 1 THEN us[i] ELSE flat(us)[i-1] \o us[i]
    BY <1>2, <2>1
  <2>3. CASE ss = <<>>
    <3>1. n = 0  BY <2>3
    <3>2. flat(us)[1] = us[1]  BY <2>2, <3>1
    <3>3. FlattenSeq(us) = s  BY <2>1, <2>2, <3>1, <3>2
    <3>4. FlattenSeq(ss) = <<>>  BY <1>1, <2>3
    <3> QED BY <3>3, <3>4, ConcatEmptySeq DEF us
  <2>4. CASE ss # <<>>
    <3>1. /\ n \in Nat \ {0} /\ FlattenSeq(ss) = flat(ss)[n]
          /\ \A i \in 1..n : flat(ss)[i] = IF i = 1 THEN ss[i] ELSE flat(ss)[i-1] \o ss[i]
      BY <1>2, <2>4
    <3> DEFINE S == {i \in 0..n : i = 0 \/ flat(us)[i] = flat(ss)[i]}
    <3>2. 0 \in S  BY <3>1
    <3>3. ASSUME NEW i \in 0..n-1, i \in S PROVE i + 1 \in S
      <4>1. i + 1 \in 1..n /\ i + 1 \in 1..n+1 /\ (i + 1) - 1 = i /\ i + 1 \in 0..n  BY <3>1
      <4>2. flat(us)[i+1] = IF i + 1 = 1 THEN us[i+1] ELSE flat(us)[i] \o us[i+1]  BY <2>2, <4>1
      <4>3. flat(ss)[i+1] = IF i + 1 = 1 THEN ss[i+1] ELSE flat(ss)[i] \o ss[i+1]  BY <3>1, <4>1
      <4>4. us[i+1] = ss[i+1]  BY <2>1, <4>1
      <4>5. i + 1 # 1 => flat(us)[i] = flat(ss)[i]  BY <3>3
      <4> QED BY <4>1, <4>2, <4>3, <4>4, <4>5
    <3> HIDE DEF S
    <3>4. \A i \in 0..n : i \in S  BY <3>1, <3>2, <3>3, UpTo
    <3>5. flat(us)[n] = flat(ss)[n]  BY <3>1, <3>4 DEF S
    <3>6. n + 1 \in 1..n+1 /\ n + 1 # 1 /\ (n + 1) - 1 = n  BY <3>1
    <3>7. flat(us)[n + 1] = flat(us)[n] \o us[n + 1]  BY <2>2, <3>6
    <3> QED BY <2>1, <2>2, <3>1, <3>5, <3>7 DEF us
  <2> QED BY <2>3, <2>4
<1> QED BY <1>1, <1>3, <1>4

\* Lines put together to a text again.
LEMMA UnwrappedFold ==
  /\ Unwrapped(<<>>) = <<>>
  /\ \A t \in Seq(Text) : Unwrapped(t) \in Text
  /\ \A t \in Seq(Text), x \in Text : Unwrapped(Append(t, x)) = IF Unwrapped(t) = <<>> THEN x ELSE Unwrapped(t) \o <<"/">> \o x
<1> DEFINE Op(a, x) == IF a = <<>> THEN x ELSE a \o <<"/">> \o x
           step == [p \in Text \X Text |-> Op(p[1], p[2])]
           H == [t \in Seq(Text) |-> Unwrapped(t)]
<1>1. Stepping(Text, Text, <<>>, step)
  <2>1. <<"/">> \in Text /\ <<>> \in Text  BY OneChar, EmptySeq DEF Text, Char
  <2>2. \A t, line \in Text : t \o <<"/">> \o line \in Text  BY <2>1, ConcatProperties DEF Text
  <2>3. step \in [Text \X Text -> Text]  BY <2>2
  <2> QED BY <2>1, <2>3 DEF Stepping
<1>2. \A a \in Text, x \in Text : step[<<a, x>>] = Op(a, x)  OBVIOUS
<1> HIDE DEF step
<1>3. ASSUME NEW t \in Seq(Text) PROVE \E g : Folds(g, t, Text, <<>>, step) /\ H[t] = g[DOMAIN t]
  <2> DEFINE Body(g) == [T \in SUBSET DOMAIN t |-> IF T = {} THEN <<>> ELSE Op(g[T \ {Max(T)}], t[Max(T)])]
             iter == CHOOSE g : g = Body(g)
  <2>1. PICK g : Solved(g, t, Text, Text, <<>>, step)  BY <1>1, FoldSolved
  <2>2. g = Body(g)  BY <1>2, <2>1 DEF Solved
  <2>3. iter = Body(iter)  BY <2>2
  <2>4. Unwrapped(t) = iter[DOMAIN t]  BY DEF Unwrapped, FoldLeft, MapThenFoldSet
  <2> HIDE DEF iter
  <2>5. Folds(iter, t, Text, <<>>, step)  BY <2>3, <1>2, <2>1 DEF Folds, Solved
  <2> QED BY <2>4, <2>5
<1>4. \A t \in Seq(Text) : H[t] = Unwrapped(t)  OBVIOUS
<1> HIDE DEF H, Op
<1>5. Computed(H, Text, Text, <<>>, step)
  <2>1. Folding(H, Text, Text, <<>>, step)  BY <1>1, <1>3 DEF Folding
  <2> QED BY <2>1, FoldFacts
<1>6. Unwrapped(<<>>) = <<>> /\ \A t \in Seq(Text) : Unwrapped(t) \in Text  BY <1>4, <1>5, EmptySeq DEF Computed
<1>7. ASSUME NEW t \in Seq(Text), NEW x \in Text PROVE Unwrapped(Append(t, x)) = Op(Unwrapped(t), x)
  <2>1. Append(t, x) \in Seq(Text)  BY AppendProperties
  <2>2. H[Append(t, x)] = step[<<H[t], x>>] /\ H[t] \in Text  BY <1>5 DEF Computed
  <2> QED BY <1>2, <1>4, <2>1, <2>2
<1> QED BY <1>6, <1>7 DEF Op

(* ---- what is kept of a sequence ----------------------------------------- *)
LEMMA ConcatAppend ==
  ASSUME NEW X, NEW a \in Seq(X), NEW b \in Seq(X), NEW x \in X
  PROVE  a \o Append(b, x) = Append(a \o b, x)
<1>1. a \o b \in Seq(X) /\ <<x>> \in Seq(X)  BY ConcatProperties
<1>2. Append(b, x) = b \o <<x>> /\ Append(a \o b, x) = (a \o b) \o <<x>>  BY <1>1, AppendIsConcat
<1> QED BY <1>1, <1>2, ConcatAssociative

LEMMA OnlyOfConcat ==
  ASSUME NEW X, NEW S, NEW a \in Seq(X)
  PROVE  \A b \in Seq(X) : Only(a \o b, S) = Only(a, S) \o Only(b, S)
<1> DEFINE P == {b \in Seq(X) : Only(a \o b, S) = Only(a, S) \o Only(b, S)}
<1>s. \A u \in Seq(X), y \in X : Only(Append(u, y), S) = IF y \in S THEN Append(Only(u, S), y) ELSE Only(u, S)
  BY OnlyFold, Zenon
<1>1. <<>> \in P
  <2>1. Only(a, S) \in Seq(X) /\ Only(<<>>, S) = <<>> /\ <<>> \in Seq(X)  BY OnlyFold, EmptySeq
  <2> QED BY <2>1, ConcatEmptySeq
<1>2. ASSUME NEW b \in Seq(X), NEW x \in X, b \in P PROVE Append(b, x) \in P
  <2>1. a \o b \in Seq(X) /\ Append(b, x) \in Seq(X)  BY ConcatProperties, AppendProperties
  <2>2. Only(Append(b, x), S) = IF x \in S THEN Append(Only(b, S), x) ELSE Only(b, S)  BY <1>s
  <2>3. Only(Append(a \o b, x), S) = IF x \in S THEN Append(Only(a \o b, S), x) ELSE Only(a \o b, S)
    BY <2>1, <1>s
  <2>4. Only(a, S) \in Seq(X) /\ Only(b, S) \in Seq(X)  BY OnlyFold
  <2>5. Only(a, S) \o Append(Only(b, S), x) = Append(Only(a, S) \o Only(b, S), x)  BY <2>4, ConcatAppend
  <2>6. a \o Append(b, x) = Append(a \o b, x)  BY ConcatAppend
  <2> QED BY <1>2, <2>1, <2>2, <2>3, <2>5, <2>6
<1> HIDE DEF P
<1>3. \A b \in Seq(X) : b \in P  BY <1>1, <1>2, SeqInd
<1> QED BY <1>3 DEF P

LEMMA OnlyOfNone ==
  ASSUME NEW X, NEW S
  PROVE  \A t \in Seq(X) : (\A i \in DOMAIN t : t[i] \notin S) => Only(t, S) = <<>>
<1> DEFINE P == {t \in Seq(X) : (\A i \in DOMAIN t : t[i] \notin S) => Only(t, S) = <<>>}
<1>s. \A u \in Seq(X), y \in X : Only(Append(u, y), S) = IF y \in S THEN Append(Only(u, S), y) ELSE Only(u, S)
  BY OnlyFold, Zenon
<1>1. <<>> \in P  BY OnlyFold, EmptySeq
<1>2. ASSUME NEW t \in Seq(X), NEW x \in X, t \in P PROVE Append(t, x) \in P
  <2>1. Append(t, x) \in Seq(X)  BY AppendProperties
  <2> SUFFICES ASSUME \A i \in DOMAIN Append(t, x) : Append(t, x)[i] \notin S
               PROVE  Only(Append(t, x), S) = <<>>
    BY <2>1
  <2>2. /\ DOMAIN Append(t, x) = 1..Len(t) + 1 /\ DOMAIN t = 1..Len(t) /\ Len(t) \in Nat
        /\ Append(t, x)[Len(t) + 1] = x /\ \A i \in 1..Len(t) : Append(t, x)[i] = t[i]
    BY <2>1, AppendProperties, LenProperties
  <2>3. x \notin S /\ \A i \in DOMAIN t : t[i] \notin S  BY <2>2
  <2> QED BY <1>2, <2>3, <1>s
<1> HIDE DEF P
<1>3. \A t \in Seq(X) : t \in P  BY <1>1, <1>2, SeqInd
<1> QED BY <1>3 DEF P

LEMMA OnlyOfOnly ==
  ASSUME NEW X, NEW S, NEW T, S \subseteq T
  PROVE  \A t \in Seq(X) : Only(Only(t, T), S) = Only(t, S)
<1> DEFINE P == {t \in Seq(X) : Only(Only(t, T), S) = Only(t, S)}
<1>s. \A u \in Seq(X), y \in X : Only(Append(u, y), S) = IF y \in S THEN Append(Only(u, S), y) ELSE Only(u, S)
  BY OnlyFold, Zenon
<1>t. \A u \in Seq(X), y \in X : Only(Append(u, y), T) = IF y \in T THEN Append(Only(u, T), y) ELSE Only(u, T)
  BY OnlyFold, Zenon
<1>1. <<>> \in P  BY OnlyFold, EmptySeq
<1>2. ASSUME NEW t \in Seq(X), NEW x \in X, t \in P PROVE Append(t, x) \in P
  <2>1. Append(t, x) \in Seq(X) /\ Only(t, T) \in Seq(X)  BY AppendProperties, OnlyFold
  <2>2. Only(Append(t, x), T) = IF x \in T THEN Append(Only(t, T), x) ELSE Only(t, T)  BY <1>t
  <2>3. Only(Append(t, x), S) = IF x \in S THEN Append(Only(t, S), x) ELSE Only(t, S)  BY <1>s
  <2>4. Only(Append(Only(t, T), x), S) = IF x \in S THEN Append(Only(Only(t, T), S), x) ELSE Only(Only(t, T), S)
    BY <2>1, <1>s
  <2> QED BY <1>2, <2>1, <2>2, <2>3, <2>4
<1> HIDE DEF P
<1>3. \A t \in Seq(X) : t \in P  BY <1>1, <1>2, SeqInd
<1> QED BY <1>3 DEF P

LEMMA OnlyOfAll ==
  ASSUME NEW X, NEW S, X \subseteq S
  PROVE  \A t \in Seq(X) : Only(t, S) = t
<1> DEFINE P == {t \in Seq(X) : Only(t, S) = t}
<1>s. \A u \in Seq(X), y \in X : Only(Append(u, y), S) = IF y \in S THEN Append(Only(u, S), y) ELSE Only(u, S)
  BY OnlyFold, Zenon
<1>1. <<>> \in P  BY OnlyFold, EmptySeq
<1>2. ASSUME NEW t \in Seq(X), NEW x \in X, t \in P PROVE Append(t, x) \in P
  <2>1. Append(t, x) \in Seq(X)  BY AppendProperties
  <2> QED BY <1>2, <2>1, <1>s
<1> HIDE DEF P
<1>3. \A t \in Seq(X) : t \in P  BY <1>1, <1>2, SeqInd
<1> QED BY <1>3 DEF P

(* ---- stripping ---------------------------------------------------------- *)

Blank(t) == \A i \in DOMAIN t : t[i] \in White

\* The part of a text from its first letter to its last.
Span(t, i, j) ==
  /\ i \in 1..Len(t) /\ j \in 1..Len(t) /\ i <= j /\ t[i] \notin White /\ t[j] \notin White
  /\ \A k \in 1..Len(t) : k < i \/ k > j => t[k] \in White

LEMMA StripBlank == ASSUME NEW t \in Text, Blank(t) PROVE Strip(t) = <<>>
<1>1. DOMAIN t = 1..Len(t)  BY LenProperties DEF Text
<1>2. {i \in 1..Len(t) : t[i] \notin White} = {}  BY <1>1 DEF Blank
<1> QED BY <1>2 DEF Strip, SelectInSeq

LEMMA StripSpan == ASSUME NEW t \in Text, NEW i, NEW j, Span(t, i, j) PROVE Strip(t) = SubSeq(t, i, j)
<1> DEFINE I == {k \in 1..Len(t) : t[k] \notin White}
<1>1. i \in I /\ j \in I /\ \A k \in I : i <= k /\ k <= j /\ k \in Nat  BY DEF Span
<1>2. Min(I) = i  BY <1>1 DEF Min
<1>3. Max(I) = j  BY <1>1 DEF Max
<1>4. I # {} /\ i # 0  BY <1>1
<1> QED BY <1>2, <1>3, <1>4 DEF Strip, SelectInSeq, SelectLastInSeq

LEMMA SpanExists == ASSUME NEW t \in Text, ~Blank(t) PROVE \E i, j : Span(t, i, j)
<1> DEFINE n == Len(t)
           I == {k \in 1..n : t[k] \notin White}
           J == {n + 1 - k : k \in I}
<1>1. n \in Nat /\ DOMAIN t = 1..n  BY LenProperties DEF Text
<1> HIDE DEF n
<1>2. I \in SUBSET (1..n) /\ I # {}  BY <1>1 DEF Blank
<1>3. J \in SUBSET (1..n) /\ J # {}  BY <1>1, <1>2
<1> HIDE DEF J
<1>4. Max(I) \in I /\ Max(J) \in J  BY <1>1, <1>2, <1>3, MaxOfSet
<1>5. \A k \in I : k <= Max(I)  BY <1>1, <1>2, MaxOfSet
<1>6. \A k \in J : k <= Max(J)  BY <1>1, <1>3, MaxOfSet
<1>7. PICK i \in I : Max(J) = n + 1 - i  BY <1>4 DEF J
<1>8. \A k \in I : n + 1 - k <= n + 1 - i  BY <1>6, <1>7 DEF J
<1>9. \A k \in I : i <= k  BY <1>1, <1>2, <1>8
<1> DEFINE m == Max(I)
<1>10. i \in 1..n /\ m \in 1..n /\ t[i] \notin White /\ t[m] \notin White /\ i <= m  BY <1>2, <1>4, <1>9
<1>11. \A k \in 1..n : t[k] \notin White => k \in I  OBVIOUS
<1>12. \A k \in 1..n : k < i \/ k > m => t[k] \in White  BY <1>1, <1>5, <1>9, <1>10, <1>11
<1> HIDE DEF m
<1>13. Span(t, i, m)  BY <1>10, <1>12 DEF Span, n
<1> QED BY <1>13

\* No blank at either end.
Trimmed(t) == t \in Text /\ (t # <<>> => t[1] \notin White /\ t[Len(t)] \notin White)

\* The blank before, the text from letter to letter, the blank behind.
LEMMA SpanParts ==
  ASSUME NEW t \in Text, NEW i, NEW j, Span(t, i, j)
  PROVE  /\ SubSeq(t, 1, i - 1) \in Text /\ Blank(SubSeq(t, 1, i - 1))
         /\ SubSeq(t, j + 1, Len(t)) \in Text /\ Blank(SubSeq(t, j + 1, Len(t)))
         /\ SubSeq(t, i, j) \in Text /\ Trimmed(SubSeq(t, i, j)) /\ SubSeq(t, i, j) # <<>>
         /\ Len(SubSeq(t, i, j)) = j - i + 1
         /\ t = (SubSeq(t, 1, i - 1) \o SubSeq(t, i, j)) \o SubSeq(t, j + 1, Len(t))
<1> DEFINE n == Len(t)
           a == SubSeq(t, 1, i - 1)
           m == SubSeq(t, i, j)
           b == SubSeq(t, j + 1, n)
<1>1. n \in Nat /\ \A k \in 1..n : t[k] \in Char  BY LenProperties, ElementOfSeq DEF Text
<1>2. /\ i \in 1..n /\ j \in 1..n /\ i <= j /\ t[i] \notin White /\ t[j] \notin White
      /\ \A k \in 1..n : k < i \/ k > j => t[k] \in White
  BY DEF Span
<1> HIDE DEF n
<1>3. a \in Seq(Char) /\ Len(a) = i - 1 /\ \A k \in 1..i-1 : a[k] = t[k]  BY <1>1, <1>2, SubSeqProperties
<1>4. m \in Seq(Char) /\ Len(m) = j - i + 1 /\ \A k \in 1..j-i+1 : m[k] = t[i+k-1]  BY <1>1, <1>2, SubSeqProperties
<1>5. b \in Seq(Char) /\ Len(b) = n - j /\ \A k \in 1..n-j : b[k] = t[j+k]  BY <1>1, <1>2, SubSeqProperties
<1>6. Blank(a)
  <2>1. DOMAIN a = 1..i-1  BY <1>3, LenProperties
  <2>2. \A k \in 1..i-1 : k \in 1..n /\ k < i  BY <1>1, <1>2
  <2> QED BY <1>2, <1>3, <2>1, <2>2 DEF Blank
<1>7. Blank(b)
  <2>1. DOMAIN b = 1..n-j  BY <1>5, LenProperties
  <2>2. \A k \in 1..n-j : j + k \in 1..n /\ j + k > j  BY <1>1, <1>2
  <2> QED BY <1>2, <1>5, <2>1, <2>2 DEF Blank
<1>8. Trimmed(m) /\ m # <<>>
  <2>1. 1 \in 1..j-i+1 /\ i + 1 - 1 = i /\ j - i + 1 \in 1..j-i+1 /\ i + (j - i + 1) - 1 = j  BY <1>2
  <2>2. m[1] = t[i] /\ m[Len(m)] = t[j] /\ Len(m) # 0  BY <1>4, <2>1
  <2> QED BY <1>2, <1>4, <2>2, EmptySeq DEF Trimmed, Text
<1>9. t = (a \o m) \o b
  <2>1. a \o m \in Seq(Char) /\ Len(a \o m) = j  BY <1>2, <1>3, <1>4, ConcatProperties
  <2>2. (a \o m) \o b \in Seq(Char) /\ Len((a \o m) \o b) = n  BY <1>1, <1>2, <1>5, <2>1, ConcatProperties
  <2>3. \A k \in 1..j : (a \o m)[k] = IF k <= i - 1 THEN a[k] ELSE m[k - (i - 1)]
    BY <1>2, <1>3, <1>4, ConcatProperties
  <2>4. \A k \in 1..n : ((a \o m) \o b)[k] = IF k <= j THEN (a \o m)[k] ELSE b[k - j]
    BY <1>1, <1>2, <1>5, <2>1, ConcatProperties
  <2>5. \A k \in 1..n : ((a \o m) \o b)[k] = t[k]
    <3> SUFFICES ASSUME NEW k \in 1..n PROVE ((a \o m) \o b)[k] = t[k]  OBVIOUS
    <3> HIDE DEF a, m, b
    <3>1. CASE k <= i - 1  BY <1>1, <1>2, <1>3, <2>3, <2>4, <3>1
    <3>2. CASE i <= k /\ k <= j
      <4>1. k - (i - 1) \in 1..j-i+1 /\ i + (k - (i - 1)) - 1 = k /\ k \in 1..j  BY <1>1, <1>2, <3>2
      <4>2. m[k - (i - 1)] = t[k]  BY <1>4, <4>1
      <4>3. ~(k <= i - 1)  BY <1>1, <1>2, <3>2
      <4>4. (a \o m)[k] = t[k]  BY <2>3, <4>1, <4>2, <4>3
      <4> QED BY <2>4, <3>2, <4>4
    <3>3. CASE j < k
      <4>1. k - j \in 1..n-j /\ j + (k - j) = k /\ ~(k <= j)  BY <1>1, <1>2, <3>3
      <4>2. b[k - j] = t[k]  BY <1>5, <4>1
      <4> QED BY <2>4, <4>1, <4>2
    <3>4. k <= i - 1 \/ (i <= k /\ k <= j) \/ j < k  BY <1>1, <1>2
    <3> QED BY <3>1, <3>2, <3>3, <3>4
  <2> QED BY <1>1, <2>2, <2>5, SeqEqual DEF n, Text
<1> QED BY <1>3, <1>4, <1>5, <1>6, <1>7, <1>8, <1>9 DEF n, Text

LEMMA StripParts ==
  ASSUME NEW t \in Text
  PROVE  /\ Trimmed(Strip(t)) /\ Len(Strip(t)) <= Len(t)
         /\ \E a, b \in Text : Blank(a) /\ Blank(b) /\ t = (a \o Strip(t)) \o b
         /\ Strip(t) = <<>> <=> Blank(t)
<1>1. <<>> \in Text /\ Len(t) \in Nat /\ Len(<<>>) = 0  BY LenProperties, EmptySeq DEF Text
<1>2. CASE Blank(t)
  <2>1. Strip(t) = <<>>  BY <1>2, StripBlank
  <2>2. Blank(<<>>)  BY DEF Blank
  <2>3. t = (<<>> \o <<>>) \o t
    <3>1. <<>> \o <<>> = <<>>  BY <1>1, ConcatEmptySeq DEF Text
    <3> QED BY <3>1, ConcatEmptySeq DEF Text
  <2>4. Trimmed(Strip(t)) /\ Len(Strip(t)) <= Len(t)  BY <1>1, <2>1 DEF Trimmed
  <2>5. t = (<<>> \o Strip(t)) \o t  BY <2>1, <2>3
  <2> HIDE DEF Trimmed, Blank
  <2> QED BY <1>1, <1>2, <2>1, <2>2, <2>4, <2>5
<1>3. CASE ~Blank(t)
  <2>1. PICK i, j : Span(t, i, j)  BY <1>3, SpanExists
  <2>2. Strip(t) = SubSeq(t, i, j)  BY <2>1, StripSpan
  <2>3. j - i + 1 <= Len(t)  BY <1>1, <2>1 DEF Span
  <2> DEFINE m == SubSeq(t, i, j)
             a == SubSeq(t, 1, i - 1)
             b == SubSeq(t, j + 1, Len(t))
  <2>4. /\ a \in Text /\ Blank(a) /\ b \in Text /\ Blank(b)
        /\ Trimmed(m) /\ m # <<>> /\ Len(m) = j - i + 1 /\ t = (a \o m) \o b
    BY <2>1, SpanParts
  <2> HIDE DEF m, a, b
  <2> QED BY <1>3, <2>2, <2>3, <2>4 DEF m
<1> QED BY <1>2, <1>3

LEMMA StripTrimmed == ASSUME NEW t, Trimmed(t) PROVE Strip(t) = t
<1>1. CASE t = <<>>
  <2>1. Blank(t) /\ t \in Text  BY <1>1 DEF Blank, Trimmed
  <2> QED BY <1>1, <2>1, StripBlank
<1>2. CASE t # <<>>
  <2>1. t \in Text /\ Len(t) \in Nat \ {0}  BY <1>2, EmptySeq DEF Trimmed, Text
  <2>2. Span(t, 1, Len(t))  BY <1>2, <2>1 DEF Span, Trimmed
  <2> QED BY <2>1, <2>2, StripSpan, SubSeqFull DEF Text
<1> QED BY <1>1, <1>2

(* ---- sums and flattened sequences --------------------------------------- *)
LEMMA TotalFold ==
  /\ FoldLeft(+, 0, <<>>) = 0
  /\ \A t \in Seq(Nat) : FoldLeft(+, 0, t) \in Nat
  /\ \A t \in Seq(Nat), x \in Nat : FoldLeft(+, 0, Append(t, x)) = FoldLeft(+, 0, t) + x
<1> DEFINE Op(a, x) == a + x
           step == [p \in Nat \X Nat |-> Op(p[1], p[2])]
           H == [t \in Seq(Nat) |-> FoldLeft(+, 0, t)]
<1>1. Stepping(Nat, Nat, 0, step)
  BY DEF Stepping
<1>2. \A a \in Nat, x \in Nat : step[<<a, x>>] = Op(a, x)  OBVIOUS
<1> HIDE DEF step
<1>3. ASSUME NEW t \in Seq(Nat) PROVE \E g : Folds(g, t, Nat, 0, step) /\ H[t] = g[DOMAIN t]
  <2> DEFINE Body(g) == [T \in SUBSET DOMAIN t |-> IF T = {} THEN 0 ELSE Op(g[T \ {Max(T)}], t[Max(T)])]
             iter == CHOOSE g : g = Body(g)
  <2>1. PICK g : Solved(g, t, Nat, Nat, 0, step)  BY <1>1, FoldSolved
  <2>2. g = Body(g)  BY <1>2, <2>1 DEF Solved
  <2>3. iter = Body(iter)  BY <2>2
  <2>4. FoldLeft(+, 0, t) = iter[DOMAIN t]  BY DEF FoldLeft, MapThenFoldSet
  <2> HIDE DEF iter
  <2>5. Folds(iter, t, Nat, 0, step)  BY <2>3, <1>2, <2>1, ZenonT(60) DEF Folds, Solved
  <2> QED BY <2>4, <2>5
<1>4. \A t \in Seq(Nat) : H[t] = FoldLeft(+, 0, t)  OBVIOUS
<1> HIDE DEF H, Op
<1>5. Computed(H, Nat, Nat, 0, step)
  <2>1. Folding(H, Nat, Nat, 0, step)  BY <1>1, <1>3 DEF Folding
  <2> QED BY <2>1, FoldFacts
<1>6. FoldLeft(+, 0, <<>>) = 0 /\ \A t \in Seq(Nat) : FoldLeft(+, 0, t) \in Nat  BY <1>4, <1>5, EmptySeq DEF Computed
<1>7. ASSUME NEW t \in Seq(Nat), NEW x \in Nat PROVE FoldLeft(+, 0, Append(t, x)) = Op(FoldLeft(+, 0, t), x)
  <2>1. Append(t, x) \in Seq(Nat)  BY AppendProperties
  <2>2. H[Append(t, x)] = step[<<H[t], x>>] /\ H[t] \in Nat  BY <1>5 DEF Computed
  <2> QED BY <1>2, <1>4, <2>1, <2>2
<1> QED BY <1>6, <1>7 DEF Op

(* ---- flattening what a function gives for each member ------------------- *)

Maps(f, X, Y) == f \in [X -> Y]

Each(f, ss) == [i \in DOMAIN ss |-> f[ss[i]]]
FlatMap(f, ss) == FlattenSeq(Each(f, ss))

LEMMA MapAppend ==
  ASSUME NEW X, NEW Y, NEW f, Maps(f, X, Y), NEW ss \in Seq(X)
  PROVE  /\ Each(f, ss) \in Seq(Y)
         /\ \A x \in X : Each(f, Append(ss, x)) = Append(Each(f, ss), f[x])
<1> DEFINE n == Len(ss)
           fs == [i \in DOMAIN ss |-> f[ss[i]]]
<1>0. f \in [X -> Y]  BY DEF Maps
<1>1. n \in Nat /\ DOMAIN ss = 1..n /\ \A i \in 1..n : ss[i] \in X  BY LenProperties, ElementOfSeq
<1>2. fs \in Seq(Y) /\ Len(fs) = n
  <2>1. fs = [i \in 1..n |-> f[ss[i]]] /\ \A i \in 1..n : f[ss[i]] \in Y  BY <1>0, <1>1
  <2> HIDE DEF n
  <2> QED BY <1>1, <2>1
<1>3. ASSUME NEW x \in X PROVE [i \in DOMAIN Append(ss, x) |-> f[Append(ss, x)[i]]] = Append(fs, f[x])
  <2> DEFINE us == Append(ss, x)
             gs == [i \in DOMAIN us |-> f[us[i]]]
  <2>1. us \in Seq(X) /\ DOMAIN us = 1..n+1 /\ us[n+1] = x /\ \A i \in 1..n : us[i] = ss[i]
    BY <1>1, AppendProperties, LenProperties
  <2>2. f[x] \in Y /\ \A i \in 1..n+1 : us[i] \in X  BY <1>0, <1>1, <2>1
  <2>3. gs \in Seq(Y) /\ Len(gs) = n + 1
    <3>1. gs = [i \in 1..n+1 |-> f[us[i]]] /\ \A i \in 1..n+1 : f[us[i]] \in Y  BY <1>0, <2>1, <2>2
    <3> HIDE DEF n, us
    <3> QED BY <1>1, <3>1
  <2>4. /\ Append(fs, f[x]) \in Seq(Y) /\ Len(Append(fs, f[x])) = n + 1
        /\ Append(fs, f[x])[n+1] = f[x] /\ \A i \in 1..n : Append(fs, f[x])[i] = fs[i]
    BY <1>2, <2>2, AppendProperties
  <2>5. \A i \in 1..n+1 : gs[i] = Append(fs, f[x])[i]
    <3>1. \A i \in 1..n : gs[i] = f[ss[i]] /\ fs[i] = f[ss[i]]  BY <1>1, <2>1
    <3>2. gs[n+1] = f[x]  BY <1>1, <2>1
    <3> HIDE DEF gs, fs, us
    <3> QED BY <1>1, <2>4, <3>1, <3>2
  <2> HIDE DEF gs, fs, us
  <2>6. gs = Append(fs, f[x])  BY <2>3, <2>4, <2>5, SeqEqual
  <2> QED BY <2>6 DEF gs, us
<1> QED BY <1>2, <1>3 DEF Each

LEMMA FlatMapType ==
  ASSUME NEW X, NEW Y, NEW f, Maps(f, X, Seq(Y))
  PROVE  /\ FlatMap(f, <<>>) = <<>>
         /\ \A ss \in Seq(X) : FlatMap(f, ss) \in Seq(Y)
         /\ \A ss \in Seq(X), x \in X : FlatMap(f, Append(ss, x)) = FlatMap(f, ss) \o f[x]
<1>0. /\ FlattenSeq(<<>>) = <<>>
      /\ \A ss \in Seq(Seq(Y)) : FlattenSeq(ss) \in Seq(Y)
      /\ \A ss \in Seq(Seq(Y)), s \in Seq(Y) : FlattenSeq(Append(ss, s)) = FlattenSeq(ss) \o s
  BY FlattenFold, Zenon
<1>1. Each(f, <<>>) = <<>>  BY DEF Each
<1>2. ASSUME NEW ss \in Seq(X) PROVE Each(f, ss) \in Seq(Seq(Y))  BY MapAppend
<1>3. ASSUME NEW ss \in Seq(X), NEW x \in X
      PROVE  Each(f, Append(ss, x)) = Append(Each(f, ss), f[x])
  BY MapAppend
<1>4. FlatMap(f, <<>>) = <<>>  BY <1>0, <1>1 DEF FlatMap
<1>5. ASSUME NEW ss \in Seq(X) PROVE FlatMap(f, ss) \in Seq(Y)  BY <1>0, <1>2, Zenon DEF FlatMap
<1>6. ASSUME NEW ss \in Seq(X), NEW x \in X PROVE FlatMap(f, Append(ss, x)) = FlatMap(f, ss) \o f[x]
  <2>1. f[x] \in Seq(Y)  BY DEF Maps
  <2> QED BY <1>0, <1>2, <1>3, <2>1, Zenon DEF FlatMap
<1> QED BY <1>4, <1>5, <1>6

LEMMA FlatMapConcat ==
  ASSUME NEW X, NEW Y, NEW f, Maps(f, X, Seq(Y)), NEW a \in Seq(X)
  PROVE  \A b \in Seq(X) : FlatMap(f, a \o b) = FlatMap(f, a) \o FlatMap(f, b)
<1> DEFINE P == {b \in Seq(X) : FlatMap(f, a \o b) = FlatMap(f, a) \o FlatMap(f, b)}
<1>0. /\ FlatMap(f, <<>>) = <<>>
      /\ \A ss \in Seq(X) : FlatMap(f, ss) \in Seq(Y)
      /\ \A ss \in Seq(X), x \in X : FlatMap(f, Append(ss, x)) = FlatMap(f, ss) \o f[x]
  BY FlatMapType
<1>1. <<>> \in P
  <2>1. a \o <<>> = a /\ FlatMap(f, a) \o <<>> = FlatMap(f, a) /\ <<>> \in Seq(X)  BY <1>0, ConcatEmptySeq, EmptySeq
  <2> QED BY <1>0, <2>1
<1>2. ASSUME NEW b \in Seq(X), NEW x \in X, b \in P PROVE Append(b, x) \in P
  <2>1. a \o b \in Seq(X) /\ Append(b, x) \in Seq(X)  BY ConcatProperties, AppendProperties
  <2>2. FlatMap(f, Append(b, x)) = FlatMap(f, b) \o f[x]  BY <1>0
  <2>3. FlatMap(f, Append(a \o b, x)) = FlatMap(f, a \o b) \o f[x]  BY <1>0, <2>1
  <2>4. FlatMap(f, a) \in Seq(Y) /\ FlatMap(f, b) \in Seq(Y) /\ f[x] \in Seq(Y)  BY <1>0 DEF Maps
  <2>5. (FlatMap(f, a) \o FlatMap(f, b)) \o f[x] = FlatMap(f, a) \o (FlatMap(f, b) \o f[x])
    <3>1. \A u, v, w \in Seq(Y) : (u \o v) \o w = u \o (v \o w)  BY ConcatAssociative
    <3> QED BY <2>4, <3>1
  <2>6. a \o Append(b, x) = Append(a \o b, x)  BY ConcatAppend
  <2> QED BY <1>2, <2>1, <2>2, <2>3, <2>5, <2>6
<1> HIDE DEF P
<1>3. \A b \in Seq(X) : b \in P  BY <1>1, <1>2, SeqInd
<1> QED BY <1>3 DEF P

(* ---- what the operators of the model return ----------------------------- *)
PageType == [sections : Seq(Section), topic : Text, continues : BOOLEAN]

LEMMA CleanType == ASSUME NEW t \in Text PROVE Clean(t) \in Text
<1>1. Only(t, Char \ {"*"}) \in Text  BY OnlyFold DEF Text
<1>2. \A u \in Text : Strip(u) \in Text  BY StripParts DEF Trimmed
<1> QED BY <1>1, <1>2 DEF Clean

LEMMA LinesType == ASSUME NEW t \in Text PROVE Lines(t) \in Seq(Text)
<1>1. Wrapped(t) \in Wrapping  BY WrappedFold DEF Text
<1>2. EndParagraph(Wrapped(t)) \in Wrapping  BY <1>1, WrapType
<1> QED BY <1>2, EmptySeq DEF Lines, Wrapping

LEMMA SectionLinesType == ASSUME NEW s \in Section PROVE SectionLines(s) \in Seq(Text)
<1>1. s.heading \in Text /\ Clean(s.body) \in Text  BY CleanType DEF Section
<1> QED BY <1>1, LinesType, ConcatProperties DEF SectionLines

(* ---- ink ---------------------------------------------------------------- *)

\* The characters that are read: neither blank nor a mark.
Inked == Char \ (White \cup {"*"})

LEMMA InkFacts ==
  /\ Ink(<<>>) = <<>>
  /\ \A t \in Text : Ink(t) \in Text
  /\ \A a, b \in Text : Ink(a \o b) = Ink(a) \o Ink(b)
  /\ \A t \in Text : (\A i \in DOMAIN t : t[i] \notin Inked) => Ink(t) = <<>>
<1>1. \A a, b \in Text : Only(a \o b, Inked) = Only(a, Inked) \o Only(b, Inked)
  <2> SUFFICES ASSUME NEW a \in Text PROVE \A b \in Text : Only(a \o b, Inked) = Only(a, Inked) \o Only(b, Inked)
    OBVIOUS
  <2> QED BY OnlyOfConcat, Zenon DEF Text
<1>2. \A t \in Text : (\A i \in DOMAIN t : t[i] \notin Inked) => Only(t, Inked) = <<>>
  BY OnlyOfNone, Zenon DEF Text
<1>3. Only(<<>>, Inked) = <<>> /\ \A t \in Text : Only(t, Inked) \in Text  BY OnlyFold, Zenon DEF Text
<1> QED BY <1>1, <1>2, <1>3 DEF Ink, Inked

LEMMA InkOfStrip == ASSUME NEW t \in Text PROVE Ink(Strip(t)) = Ink(t)
<1>1. PICK a, b \in Text : Blank(a) /\ Blank(b) /\ t = (a \o Strip(t)) \o b  BY StripParts
<1>2. Strip(t) \in Text  BY StripParts DEF Trimmed
<1>3. Ink(a) = <<>> /\ Ink(b) = <<>>  BY <1>1, InkFacts DEF Blank, Inked
<1>4. a \o Strip(t) \in Text  BY <1>2, ConcatProperties DEF Text
<1>5. Ink(t) = Ink(a \o Strip(t)) \o Ink(b)  BY <1>1, <1>4, InkFacts
<1>6. Ink(a \o Strip(t)) = Ink(a) \o Ink(Strip(t))  BY <1>2, InkFacts
<1>7. Ink(Strip(t)) \in Text  BY <1>2, InkFacts
<1>8. <<>> \o Ink(Strip(t)) = Ink(Strip(t)) /\ Ink(Strip(t)) \o <<>> = Ink(Strip(t))  BY <1>7, ConcatEmptySeq DEF Text
<1> QED BY <1>3, <1>5, <1>6, <1>8

LEMMA InkOfClean == ASSUME NEW t \in Text PROVE Ink(Clean(t)) = Ink(t)
<1> DEFINE u == Only(t, Char \ {"*"})
<1>1. u \in Text  BY OnlyFold DEF Text
<1>2. Ink(u) = Ink(t)
  <2>1. Inked \subseteq Char \ {"*"}  BY DEF Inked
  <2>2. \A v \in Text : Only(Only(v, Char \ {"*"}), Inked) = Only(v, Inked)  BY <2>1, OnlyOfOnly DEF Text
  <2> QED BY <2>2 DEF Ink, Inked
<1> HIDE DEF u
<1>3. Ink(Strip(t)) = Ink(t) /\ Ink(Strip(u)) = Ink(u)  BY <1>1, InkOfStrip
<1> QED BY <1>2, <1>3 DEF Clean, u

LEMMA SectionInkType == ASSUME NEW s \in Section PROVE Ink(s.heading) \o Ink(s.body) \in Text
<1>1. Ink(s.heading) \in Text /\ Ink(s.body) \in Text  BY InkFacts DEF Section
<1> QED BY <1>1, ConcatProperties DEF Text

LEMMA PageSectionsType == ASSUME NEW p \in PageType PROVE p.sections \in Seq(Section)
BY DEF PageType

LEMMA AllLinesFacts ==
  /\ AllLines(<<>>) = <<>>
  /\ \A ss \in Seq(Section) : AllLines(ss) \in Seq(Text)
  /\ \A ss \in Seq(Section), s \in Section : AllLines(Append(ss, s)) = AllLines(ss) \o SectionLines(s)
  /\ \A ss, us \in Seq(Section) : AllLines(ss \o us) = AllLines(ss) \o AllLines(us)
<1> DEFINE f == [s \in Section |-> SectionLines(s)]
<1>1. Maps(f, Section, Seq(Text)) /\ \A s \in Section : f[s] = SectionLines(s)  BY SectionLinesType DEF Maps
<1> HIDE DEF f
<1>2. ASSUME NEW ss \in Seq(Section) PROVE AllLines(ss) = FlatMap(f, ss)
  <2>1. \A i \in DOMAIN ss : ss[i] \in Section  BY LenProperties, ElementOfSeq
  <2>2. Each(f, ss) = [i \in DOMAIN ss |-> SectionLines(ss[i])]  BY <1>1, <2>1 DEF Each
  <2> QED BY <2>2 DEF FlatMap, AllLines
<1>3. /\ FlatMap(f, <<>>) = <<>>
      /\ \A ss \in Seq(Section) : FlatMap(f, ss) \in Seq(Text)
      /\ \A ss \in Seq(Section), s \in Section : FlatMap(f, Append(ss, s)) = FlatMap(f, ss) \o f[s]
  BY <1>1, FlatMapType
<1>4. ASSUME NEW ss \in Seq(Section), NEW us \in Seq(Section) PROVE FlatMap(f, ss \o us) = FlatMap(f, ss) \o FlatMap(f, us)
  BY <1>1, FlatMapConcat
<1>5. <<>> \in Seq(Section)  BY EmptySeq
<1>6. ASSUME NEW ss \in Seq(Section), NEW s \in Section PROVE AllLines(Append(ss, s)) = AllLines(ss) \o SectionLines(s)
  <2>1. Append(ss, s) \in Seq(Section)  BY AppendProperties
  <2> QED BY <1>1, <1>2, <1>3, <2>1
<1>7. ASSUME NEW ss \in Seq(Section), NEW us \in Seq(Section) PROVE AllLines(ss \o us) = AllLines(ss) \o AllLines(us)
  <2>1. ss \o us \in Seq(Section)  BY ConcatProperties
  <2> QED BY <1>2, <1>4, <2>1
<1> QED BY <1>2, <1>3, <1>5, <1>6, <1>7

LEMMA AllTextFacts ==
  /\ AllText(<<>>) = <<>>
  /\ \A ss \in Seq(Section) : AllText(ss) \in Seq(Char)
  /\ \A ss \in Seq(Section), s \in Section : AllText(Append(ss, s)) = AllText(ss) \o (Ink(s.heading) \o Ink(s.body))
  /\ \A ss, us \in Seq(Section) : AllText(ss \o us) = AllText(ss) \o AllText(us)
<1> DEFINE f == [s \in Section |-> (Ink(s.heading) \o Ink(s.body))]
<1>1. Maps(f, Section, Seq(Char)) /\ \A s \in Section : f[s] = (Ink(s.heading) \o Ink(s.body))  BY SectionInkType DEF Maps, Text
<1> HIDE DEF f
<1>2. ASSUME NEW ss \in Seq(Section) PROVE AllText(ss) = FlatMap(f, ss)
  <2>1. \A i \in DOMAIN ss : ss[i] \in Section  BY LenProperties, ElementOfSeq
  <2>2. Each(f, ss) = [i \in DOMAIN ss |-> (Ink(ss[i].heading) \o Ink(ss[i].body))]  BY <1>1, <2>1 DEF Each
  <2> QED BY <2>2 DEF FlatMap, AllText
<1>3. /\ FlatMap(f, <<>>) = <<>>
      /\ \A ss \in Seq(Section) : FlatMap(f, ss) \in Seq(Char)
      /\ \A ss \in Seq(Section), s \in Section : FlatMap(f, Append(ss, s)) = FlatMap(f, ss) \o f[s]
  BY <1>1, FlatMapType
<1>4. ASSUME NEW ss \in Seq(Section), NEW us \in Seq(Section) PROVE FlatMap(f, ss \o us) = FlatMap(f, ss) \o FlatMap(f, us)
  BY <1>1, FlatMapConcat
<1>5. <<>> \in Seq(Section)  BY EmptySeq
<1>6. ASSUME NEW ss \in Seq(Section), NEW s \in Section PROVE AllText(Append(ss, s)) = AllText(ss) \o (Ink(s.heading) \o Ink(s.body))
  <2>1. Append(ss, s) \in Seq(Section)  BY AppendProperties
  <2> QED BY <1>1, <1>2, <1>3, <2>1
<1>7. ASSUME NEW ss \in Seq(Section), NEW us \in Seq(Section) PROVE AllText(ss \o us) = AllText(ss) \o AllText(us)
  <2>1. ss \o us \in Seq(Section)  BY ConcatProperties
  <2> QED BY <1>2, <1>4, <2>1
<1> QED BY <1>2, <1>3, <1>5, <1>6, <1>7

LEMMA AllSectionsFacts ==
  /\ AllSections(<<>>) = <<>>
  /\ \A ss \in Seq(PageType) : AllSections(ss) \in Seq(Section)
  /\ \A ss \in Seq(PageType), s \in PageType : AllSections(Append(ss, s)) = AllSections(ss) \o s.sections
  /\ \A ss, us \in Seq(PageType) : AllSections(ss \o us) = AllSections(ss) \o AllSections(us)
<1> DEFINE f == [s \in PageType |-> s.sections]
<1>1. Maps(f, PageType, Seq(Section)) /\ \A s \in PageType : f[s] = s.sections  BY PageSectionsType DEF Maps
<1> HIDE DEF f
<1>2. ASSUME NEW ss \in Seq(PageType) PROVE AllSections(ss) = FlatMap(f, ss)
  <2>1. \A i \in DOMAIN ss : ss[i] \in PageType  BY LenProperties, ElementOfSeq
  <2>2. Each(f, ss) = [i \in DOMAIN ss |-> ss[i].sections]  BY <1>1, <2>1 DEF Each
  <2> QED BY <2>2 DEF FlatMap, AllSections
<1>3. /\ FlatMap(f, <<>>) = <<>>
      /\ \A ss \in Seq(PageType) : FlatMap(f, ss) \in Seq(Section)
      /\ \A ss \in Seq(PageType), s \in PageType : FlatMap(f, Append(ss, s)) = FlatMap(f, ss) \o f[s]
  BY <1>1, FlatMapType
<1>4. ASSUME NEW ss \in Seq(PageType), NEW us \in Seq(PageType) PROVE FlatMap(f, ss \o us) = FlatMap(f, ss) \o FlatMap(f, us)
  BY <1>1, FlatMapConcat
<1>5. <<>> \in Seq(PageType)  BY EmptySeq
<1>6. ASSUME NEW ss \in Seq(PageType), NEW s \in PageType PROVE AllSections(Append(ss, s)) = AllSections(ss) \o s.sections
  <2>1. Append(ss, s) \in Seq(PageType)  BY AppendProperties
  <2> QED BY <1>1, <1>2, <1>3, <2>1
<1>7. ASSUME NEW ss \in Seq(PageType), NEW us \in Seq(PageType) PROVE AllSections(ss \o us) = AllSections(ss) \o AllSections(us)
  <2>1. ss \o us \in Seq(PageType)  BY ConcatProperties
  <2> QED BY <1>2, <1>4, <2>1
<1> QED BY <1>2, <1>3, <1>5, <1>6, <1>7

LEMMA CharCountFacts ==
  /\ CharCount(<<>>) = 0
  /\ \A ss \in Seq(Section) : CharCount(ss) \in Nat
  /\ \A ss \in Seq(Section), s \in Section : CharCount(Append(ss, s)) = CharCount(ss) + Chars(s)
<1> DEFINE f == [s \in Section |-> Chars(s)]
<1>1. Maps(f, Section, Nat) /\ \A s \in Section : f[s] = Chars(s)
  <2>1. \A s \in Section : Chars(s) \in Nat
    <3> SUFFICES ASSUME NEW s \in Section PROVE Chars(s) \in Nat  OBVIOUS
    <3>1. s.heading \in Seq(Char) /\ s.body \in Seq(Char)  BY DEF Section, Text
    <3>2. PICK h, b : h = Len(s.heading) /\ b = Len(s.body)  OBVIOUS
    <3>3. h \in Nat /\ b \in Nat  BY <3>1, <3>2, LenProperties
    <3>4. Chars(s) = h + b  BY <3>2 DEF Chars
    <3> QED BY <3>3, <3>4
  <2> QED BY <2>1 DEF Maps
<1> HIDE DEF f
<1>2. ASSUME NEW ss \in Seq(Section) PROVE CharCount(ss) = FoldLeft(+, 0, Each(f, ss)) /\ Each(f, ss) \in Seq(Nat)
  <2>1. \A i \in DOMAIN ss : ss[i] \in Section  BY LenProperties, ElementOfSeq
  <2>2. Each(f, ss) = [i \in DOMAIN ss |-> Chars(ss[i])]  BY <1>1, <2>1 DEF Each
  <2>3. Each(f, ss) \in Seq(Nat)  BY <1>1, MapAppend
  <2> QED BY <2>2, <2>3 DEF CharCount
<1>3. ASSUME NEW ss \in Seq(Section), NEW s \in Section PROVE Each(f, Append(ss, s)) = Append(Each(f, ss), Chars(s))
  BY <1>1, MapAppend
<1>4. <<>> \in Seq(Section) /\ Each(f, <<>>) = <<>>  BY EmptySeq DEF Each
<1>5. ASSUME NEW ss \in Seq(Section), NEW s \in Section PROVE CharCount(Append(ss, s)) = CharCount(ss) + Chars(s)
  <2>1. Append(ss, s) \in Seq(Section) /\ Chars(s) \in Nat  BY <1>1, AppendProperties DEF Maps
  <2>2. CharCount(Append(ss, s)) = FoldLeft(+, 0, Append(Each(f, ss), Chars(s)))  BY <1>2, <1>3, <2>1
  <2>3. FoldLeft(+, 0, Append(Each(f, ss), Chars(s))) = FoldLeft(+, 0, Each(f, ss)) + Chars(s)
    BY <1>2, <2>1, TotalFold
  <2> QED BY <1>2, <2>2, <2>3
<1> QED BY <1>2, <1>4, <1>5, TotalFold

(* ---- cutting ------------------------------------------------------------ *)

LEMMA MaxFromZero ==
  ASSUME NEW n \in Nat, NEW T \in SUBSET (0..n), T # {}
  PROVE  Max(T) \in T
<1>1. CASE T \ {0} = {}
  <2>1. T = {0}  BY <1>1
  <2> QED BY <2>1 DEF Max
<1>2. CASE T \ {0} # {}
  <2>1. T \ {0} \in SUBSET (1..n)  OBVIOUS
  <2>2. Max(T \ {0}) \in T \ {0} /\ \A k \in T \ {0} : k <= Max(T \ {0})  BY <1>2, <2>1, MaxOfSet
  <2>3. PICK m : m = Max(T \ {0})  OBVIOUS
  <2>4. m \in T /\ m \in 1..n /\ \A k \in T : k = 0 \/ k <= m  BY <2>1, <2>2, <2>3
  <2>5. \A k \in T : k <= m /\ k \in Nat  BY <2>4
  <2> QED BY <2>4, <2>5 DEF Max
<1> QED BY <1>1, <1>2

\* A cut takes at least a character, and no more than there are.
LEMMA CutBounds ==
  ASSUME NEW w \in Text, w # <<>>
  PROVE  CutOf(w) \in 1..Len(w)
<1> DEFINE n == Len(w)
<1>1. n \in Nat \ {0}  BY EmptySeq DEF Text
<1>2. ASSUME NEW c, SentenceEnds(w, c) # {} PROVE Max(SentenceEnds(w, c)) + 1 \in 1..n
  <2>1. SentenceEnds(w, c) \in SUBSET (1..n-1)  BY DEF SentenceEnds
  <2>2. n - 1 \in Nat  BY <1>1
  <2> HIDE DEF n
  <2>3. Max(SentenceEnds(w, c)) \in 1..n-1  BY <1>2, <2>1, <2>2, MaxOfSet
  <2> QED BY <1>1, <2>3
<1>3. FindSentenceCut(w) \in 0..n
  <2>1. 0 \in 0..n  BY <1>1
  <2>2. \A c : SentenceEnds(w, c) # {} => Max(SentenceEnds(w, c)) + 1 \in 0..n  BY <1>1, <1>2
  <2> QED BY <2>1, <2>2 DEF FindSentenceCut
<1>4. ASSUME NEW c PROVE LastWhite(w, c) \in 0..n
  <2> DEFINE T == {0} \cup {i \in 2..n : w[i] = c}
  <2>1. T \in SUBSET (0..n) /\ T # {}  BY <1>1
  <2> HIDE DEF T, n
  <2>2. Max(T) \in 0..n  BY <1>1, <2>1, MaxFromZero
  <2> QED BY <2>2 DEF T, n, LastWhite
<1>5. FindWordBoundaryCut(w) \in 0..n  BY <1>4 DEF FindWordBoundaryCut
<1> QED BY <1>1, <1>3, <1>5 DEF CutOf

LEMMA CutInTwo ==
  ASSUME NEW t \in Text, NEW c \in 0..Len(t)
  PROVE  /\ SubSeq(t, 1, c) \in Text /\ Len(SubSeq(t, 1, c)) = c
         /\ \A k \in 1..c : SubSeq(t, 1, c)[k] = t[k]
         /\ SubSeq(t, c + 1, Len(t)) \in Text /\ Len(SubSeq(t, c + 1, Len(t))) = Len(t) - c
         /\ \A k \in 1..Len(t) - c : SubSeq(t, c + 1, Len(t))[k] = t[c + k]
         /\ t = SubSeq(t, 1, c) \o SubSeq(t, c + 1, Len(t))
<1> DEFINE n == Len(t)
           a == SubSeq(t, 1, c)
           b == SubSeq(t, c + 1, n)
<1>1. n \in Nat /\ c \in 0..n /\ \A k \in 1..n : t[k] \in Char  BY LenProperties, ElementOfSeq DEF Text
<1> HIDE DEF n
<1>2. a \in Seq(Char) /\ Len(a) = c /\ \A k \in 1..c : a[k] = t[k]  BY <1>1, SubSeqProperties
<1>3. b \in Seq(Char) /\ Len(b) = n - c /\ \A k \in 1..n-c : b[k] = t[c + k]  BY <1>1, SubSeqProperties
<1>4. t = a \o b
  <2>1. /\ a \o b \in Seq(Char) /\ Len(a \o b) = n
        /\ \A k \in 1..n : (a \o b)[k] = IF k <= c THEN a[k] ELSE b[k - c]
    BY <1>1, <1>2, <1>3, ConcatProperties
  <2>2. \A k \in 1..n : (a \o b)[k] = t[k]
    <3> SUFFICES ASSUME NEW k \in 1..n PROVE (a \o b)[k] = t[k]  OBVIOUS
    <3> HIDE DEF a, b
    <3>1. CASE k <= c  BY <1>1, <1>2, <2>1, <3>1
    <3>2. CASE ~(k <= c)
      <4>1. k - c \in 1..n-c /\ c + (k - c) = k  BY <1>1, <3>2
      <4> QED BY <1>3, <2>1, <3>2, <4>1
    <3> QED BY <3>1, <3>2
  <2> HIDE DEF a, b
  <2>3. t \in Seq(Char) /\ Len(t) = n  BY DEF Text, n
  <2> QED BY <1>1, <2>1, <2>2, <2>3, SeqEqual
<1> QED BY <1>2, <1>3, <1>4 DEF n, Text

\* One round of _split_long_body: a piece is cut off, and the rest is trimmed.
FirstPiece(r, size) == Strip(SubSeq(r, 1, CutOf(SubSeq(r, 1, size))))
RestOf(r, size) == Strip(SubSeq(r, CutOf(SubSeq(r, 1, size)) + 1, Len(r)))

LEMMA OneRound ==
  ASSUME NEW r \in Text, NEW size \in Nat \ {0}, Len(r) > size
  PROVE  /\ Trimmed(FirstPiece(r, size)) /\ Len(FirstPiece(r, size)) <= size
         /\ Trimmed(RestOf(r, size)) /\ Len(RestOf(r, size)) < Len(r)
         /\ Ink(r) = Ink(FirstPiece(r, size)) \o Ink(RestOf(r, size))
         /\ Trimmed(r) => FirstPiece(r, size) # <<>>
<1> DEFINE w == SubSeq(r, 1, size)
           c == CutOf(w)
           a == SubSeq(r, 1, c)
           b == SubSeq(r, c + 1, Len(r))
<1>1. Len(r) \in Nat /\ size \in 0..Len(r)  BY LenProperties DEF Text
<1>2. w \in Text /\ Len(w) = size  BY <1>1, CutInTwo
<1>3. w # <<>>  BY <1>2
<1> HIDE DEF w
<1>4. c \in 1..size  BY <1>2, <1>3, CutBounds
<1>5. c \in 0..Len(r)  BY <1>1, <1>4
<1> HIDE DEF c
<1>6. /\ a \in Text /\ Len(a) = c /\ b \in Text /\ Len(b) = Len(r) - c /\ r = a \o b
      /\ \A k \in 1..c : a[k] = r[k]
  BY <1>5, CutInTwo
<1>7. FirstPiece(r, size) = Strip(a) /\ RestOf(r, size) = Strip(b)  BY DEF FirstPiece, RestOf, a, b, c, w
<1> HIDE DEF a, b
<1>8. Trimmed(Strip(a)) /\ Len(Strip(a)) <= c /\ Trimmed(Strip(b)) /\ Len(Strip(b)) <= Len(r) - c
  BY <1>6, StripParts
<1>9. Len(Strip(a)) \in Nat /\ Len(Strip(b)) \in Nat  BY <1>8, LenProperties DEF Trimmed, Text
<1>10. Ink(r) = Ink(Strip(a)) \o Ink(Strip(b))
  <2>1. Ink(Strip(a)) = Ink(a) /\ Ink(Strip(b)) = Ink(b)  BY <1>6, InkOfStrip
  <2> QED BY <1>6, <2>1, InkFacts
<1>11. ASSUME Trimmed(r) PROVE Strip(a) # <<>>
  <2>1. r # <<>> /\ 1 \in 1..c  BY <1>1, <1>4, EmptySeq
  <2>2. a[1] \notin White /\ 1 \in DOMAIN a  BY <1>6, <1>11, <2>1, LenProperties DEF Trimmed, Text
  <2> QED BY <1>6, <2>2, StripParts DEF Blank
<1>12. Len(Strip(a)) <= size /\ Len(Strip(b)) < Len(r)  BY <1>1, <1>4, <1>8, <1>9
<1> QED BY <1>7, <1>8, <1>10, <1>11, <1>12

\* The rounds, as Pieces defines them by recursion.
PiecesBy(from, size) ==
  \A r \in Text :
    /\ from[r] \in Seq(Text)
    /\ from[r] = IF Len(r) <= size THEN <<r>> ELSE <<FirstPiece(r, size)>> \o from[RestOf(r, size)]

\* The recursion ends, for the rest gets shorter.
LEMMA PiecesFrom ==
  ASSUME NEW text \in Text, NEW size \in Nat \ {0}
  PROVE  \E from : PiecesBy(from, size) /\ Pieces(text, size) = Only(from[Strip(text)], Text \ {<<>>})
<1> DEFINE V == Seq(Text)
           stop == {r \in Text : Len(r) <= size}
           rank == [r \in Text |-> Len(r)]
           base == [r \in Text |-> <<r>>]
           next == [r \in Text |-> IF Len(r) <= size THEN r ELSE RestOf(r, size)]
           step == [p \in Text \X V |-> IF Len(p[1]) <= size THEN p[2] ELSE <<FirstPiece(p[1], size)>> \o p[2]]
<1>1. ASSUME NEW r \in Text PROVE Len(r) \in Nat /\ <<r>> \in V
  BY LenProperties DEF Text
<1>2. ASSUME NEW r \in Text, ~(Len(r) <= size)
      PROVE  /\ FirstPiece(r, size) \in Text /\ RestOf(r, size) \in Text /\ Len(RestOf(r, size)) < Len(r)
             /\ \A q \in V : <<FirstPiece(r, size)>> \o q \in V
  <2>1. Len(r) > size  BY <1>1, <1>2
  <2>2. FirstPiece(r, size) \in Text /\ RestOf(r, size) \in Text /\ Len(RestOf(r, size)) < Len(r)
    BY <2>1, OneRound DEF Trimmed
  <2>3. <<FirstPiece(r, size)>> \in V  BY <1>1, <2>2
  <2> QED BY <2>2, <2>3, ConcatProperties
<1>3. step \in [Text \X V -> V]
  <2>1. \A r \in Text, q \in V : (IF Len(r) <= size THEN q ELSE <<FirstPiece(r, size)>> \o q) \in V  BY <1>2
  <2> HIDE DEF V
  <2> QED BY <2>1
<1>4. rank \in [Text -> Nat] /\ base \in [Text -> V]
  <2> HIDE DEF V
  <2> QED BY <1>1
<1>5. next \in [Text -> Text] /\ \A r \in Text : r \notin stop => rank[next[r]] < rank[r]  BY <1>2
<1>6. \A r \in Text : (r \in stop <=> Len(r) <= size) /\ base[r] = <<r>>  OBVIOUS
<1>7. \A r \in Text, q \in V : ~(Len(r) <= size) => /\ next[r] = RestOf(r, size)
                                                    /\ step[<<r, q>>] = <<FirstPiece(r, size)>> \o q
  OBVIOUS
<1> HIDE DEF V, stop, rank, base, next, step
<1>8. Recursion(Text, V, rank, stop, base, next, step)  BY <1>3, <1>4, <1>5 DEF Recursion
<1>9. PICK g : Recurses(g, Text, V, stop, base, next, step)  BY <1>8, RecursionEnds
<1> DEFINE Body(f) == [r \in Text |-> IF Len(r) <= size THEN <<r>> ELSE <<FirstPiece(r, size)>> \o f[RestOf(r, size)]]
           from == CHOOSE f : f = Body(f)
<1>10. g = Body(g)
  <2>1. g \in [Text -> V]  BY <1>9 DEF Recurses
  <2>2. ASSUME NEW r \in Text
        PROVE  g[r] = IF Len(r) <= size THEN <<r>> ELSE <<FirstPiece(r, size)>> \o g[RestOf(r, size)]
    <3>1. g[r] = IF r \in stop THEN base[r] ELSE step[<<r, g[next[r]]>>]  BY <1>9 DEF Recurses
    <3>2. CASE Len(r) <= size  BY <1>6, <3>1, <3>2
    <3>3. CASE ~(Len(r) <= size)
      <4>1. next[r] = RestOf(r, size) /\ RestOf(r, size) \in Text  BY <1>2, <1>5, <1>7, <2>1, <3>3
      <4>2. g[RestOf(r, size)] \in V  BY <2>1, <4>1
      <4> QED BY <1>6, <1>7, <3>1, <3>3, <4>1, <4>2
    <3> QED BY <3>2, <3>3
  <2> QED BY <2>1, <2>2
<1>11. from = Body(from)  BY <1>10
<1>12. Pieces(text, size) = Only(from[Strip(text)], Text \ {<<>>})  BY DEF Pieces, FirstPiece, RestOf
<1> HIDE DEF from
<1>13. \A r \in Text : from[r] = IF Len(r) <= size THEN <<r>> ELSE <<FirstPiece(r, size)>> \o from[RestOf(r, size)]
  BY <1>11
<1> DEFINE S == {n \in Nat : \A r \in Text : Len(r) < n => from[r] \in V}
<1>14. 0 \in S  BY <1>1
<1>15. ASSUME NEW n \in S PROVE n + 1 \in S
  <2> SUFFICES ASSUME NEW r \in Text, Len(r) < n + 1 PROVE from[r] \in V  OBVIOUS
  <2>1. CASE Len(r) <= size  BY <1>1, <1>13, <2>1
  <2>2. CASE ~(Len(r) <= size)
    <3>1. RestOf(r, size) \in Text /\ Len(RestOf(r, size)) < Len(r) /\ Len(r) \in Nat /\ Len(RestOf(r, size)) \in Nat
      BY <1>1, <1>2, <2>2
    <3>2. from[RestOf(r, size)] \in V  BY <1>15, <3>1
    <3> QED BY <1>2, <1>13, <2>2, <3>2
  <2> QED BY <2>1, <2>2
<1> HIDE DEF S
<1>16. S = Nat
  <2>1. S \subseteq Nat  BY DEF S
  <2> QED BY <1>14, <1>15, <2>1, NatInd
<1>17. ASSUME NEW r \in Text PROVE from[r] \in V
  <2>1. Len(r) + 1 \in S /\ Len(r) < Len(r) + 1  BY <1>1, <1>16
  <2> QED BY <2>1 DEF S
<1>18. PiecesBy(from, size)  BY <1>13, <1>17 DEF PiecesBy, V
<1> QED BY <1>12, <1>18

\* The pieces of a body that is cut by sentences.
Piece(size) == {p \in Text : Trimmed(p) /\ p # <<>> /\ Len(p) <= size}
InkOf(ts) == Ink(FlattenSeq(ts))

LEMMA InkOfAppend ==
  /\ InkOf(<<>>) = <<>>
  /\ \A ts \in Seq(Text) : InkOf(ts) \in Text /\ FlattenSeq(ts) \in Text
  /\ \A ts \in Seq(Text), t \in Text : InkOf(Append(ts, t)) = InkOf(ts) \o Ink(t)
<1>1. /\ FlattenSeq(<<>>) = <<>>
      /\ \A ss \in Seq(Text) : FlattenSeq(ss) \in Text
      /\ \A ss \in Seq(Text), s \in Text : FlattenSeq(Append(ss, s)) = FlattenSeq(ss) \o s
  BY FlattenFold, Zenon DEF Text
<1> QED BY <1>1, InkFacts DEF InkOf

LEMMA InkOfConcat ==
  ASSUME NEW a \in Seq(Text)
  PROVE  \A b \in Seq(Text) : InkOf(a \o b) = InkOf(a) \o InkOf(b)
<1> DEFINE P == {b \in Seq(Text) : InkOf(a \o b) = InkOf(a) \o InkOf(b)}
<1>1. <<>> \in P
  <2>1. <<>> \in Seq(Text) /\ InkOf(a) \in Seq(Char) /\ InkOf(<<>>) = <<>>  BY InkOfAppend, EmptySeq DEF Text
  <2>2. a \o <<>> = a /\ InkOf(a) \o <<>> = InkOf(a)  BY <2>1, ConcatEmptySeq
  <2> QED BY <2>1, <2>2
<1>2. ASSUME NEW b \in Seq(Text), NEW x \in Text, b \in P PROVE Append(b, x) \in P
  <2>1. a \o b \in Seq(Text) /\ Append(b, x) \in Seq(Text)  BY ConcatProperties, AppendProperties
  <2>2. InkOf(Append(b, x)) = InkOf(b) \o Ink(x)  BY InkOfAppend
  <2>3. InkOf(Append(a \o b, x)) = InkOf(a \o b) \o Ink(x)  BY <2>1, InkOfAppend
  <2>4. InkOf(a) \in Text /\ InkOf(b) \in Text /\ Ink(x) \in Text  BY InkOfAppend, InkFacts
  <2>5. (InkOf(a) \o InkOf(b)) \o Ink(x) = InkOf(a) \o (InkOf(b) \o Ink(x))
    <3>1. \A u, v, w \in Seq(Char) : (u \o v) \o w = u \o (v \o w)  BY ConcatAssociative
    <3> QED BY <2>4, <3>1 DEF Text
  <2>6. a \o Append(b, x) = Append(a \o b, x)  BY ConcatAppend
  <2> QED BY <1>2, <2>1, <2>2, <2>3, <2>5, <2>6
<1> HIDE DEF P
<1>3. \A b \in Seq(Text) : b \in P  BY <1>1, <1>2, SeqInd
<1> QED BY <1>3 DEF P

LEMMA InkOfOne == ASSUME NEW t \in Text PROVE InkOf(<<t>>) = Ink(t)
<1>1. <<>> \in Seq(Text) /\ Append(<<>>, t) = <<t>>  BY EmptySeq
<1>2. InkOf(<<t>>) = <<>> \o Ink(t)  BY <1>1, InkOfAppend
<1> QED BY <1>2, InkFacts, ConcatEmptySeq DEF Text

LEMMA OnlyInside ==
  ASSUME NEW X, NEW S
  PROVE  \A t \in Seq(X) : Only(t, S) \in Seq(X \cap S)
<1>s. \A u \in Seq(X), y \in X : Only(Append(u, y), S) = IF y \in S THEN Append(Only(u, S), y) ELSE Only(u, S)
  BY OnlyFold, Zenon
<1> DEFINE P == {t \in Seq(X) : Only(t, S) \in Seq(X \cap S)}
<1>1. <<>> \in P
  <2>1. Only(<<>>, S) = <<>>  BY OnlyFold, Zenon
  <2> QED BY <2>1, EmptySeq
<1>2. ASSUME NEW t \in Seq(X), NEW x \in X, t \in P PROVE Append(t, x) \in P
  <2>1. Append(t, x) \in Seq(X)  BY AppendProperties
  <2>2. x \in S => Append(Only(t, S), x) \in Seq(X \cap S)  BY <1>2, AppendProperties
  <2> QED BY <1>2, <2>1, <2>2, <1>s
<1> HIDE DEF P
<1>3. \A t \in Seq(X) : t \in P  BY <1>1, <1>2, SeqInd
<1> QED BY <1>3 DEF P

LEMMA InkOfOnly ==
  \A ts \in Seq(Text) : InkOf(Only(ts, Text \ {<<>>})) = InkOf(ts)
<1> DEFINE S == Text \ {<<>>}
<1>s. \A u \in Seq(Text), y \in Text : Only(Append(u, y), S) = IF y \in S THEN Append(Only(u, S), y) ELSE Only(u, S)
  BY OnlyFold, Zenon
<1>t. Only(<<>>, S) = <<>> /\ \A u \in Seq(Text) : Only(u, S) \in Seq(Text)  BY OnlyFold, Zenon
<1> HIDE DEF S
<1> DEFINE P == {ts \in Seq(Text) : InkOf(Only(ts, S)) = InkOf(ts)}
<1>1. <<>> \in P  BY <1>t, EmptySeq
<1>2. ASSUME NEW t \in Seq(Text), NEW x \in Text, t \in P PROVE Append(t, x) \in P
  <2>1. Append(t, x) \in Seq(Text) /\ Only(t, S) \in Seq(Text)  BY <1>t, AppendProperties
  <2>2. InkOf(Append(t, x)) = InkOf(t) \o Ink(x)  BY InkOfAppend
  <2>3. CASE x \in S
    <3>1. InkOf(Append(Only(t, S), x)) = InkOf(Only(t, S)) \o Ink(x)  BY <2>1, InkOfAppend
    <3> QED BY <1>2, <1>s, <2>1, <2>2, <2>3, <3>1
  <2>4. CASE x \notin S
    <3>1. x = <<>> /\ Ink(x) = <<>> /\ InkOf(t) \in Text  BY <2>4, InkFacts, InkOfAppend DEF S
    <3>2. InkOf(t) \o <<>> = InkOf(t)  BY <3>1, ConcatEmptySeq DEF Text
    <3> QED BY <1>2, <1>s, <2>1, <2>2, <2>4, <3>1, <3>2
  <2> QED BY <2>3, <2>4
<1> HIDE DEF P
<1>3. \A t \in Seq(Text) : t \in P  BY <1>1, <1>2, SeqInd
<1> QED BY <1>3 DEF P, S

(* Cut into pieces no longer than there is room, a body keeps its ink. *)
LEMMA PiecesFacts ==
  ASSUME NEW text \in Text, NEW size \in Nat \ {0}
  PROVE  /\ Pieces(text, size) \in Seq(Piece(size))
         /\ InkOf(Pieces(text, size)) = Ink(text)
         /\ Pieces(text, size) = <<>> <=> Strip(text) = <<>>
<1>1. PICK from : PiecesBy(from, size) /\ Pieces(text, size) = Only(from[Strip(text)], Text \ {<<>>})
  BY PiecesFrom
<1> DEFINE Short == {p \in Text : Trimmed(p) /\ Len(p) <= size}
           Holds(r) == InkOf(from[r]) = Ink(r) /\ (Trimmed(r) => from[r] \in Seq(Short))
           S == {n \in Nat : \A r \in Text : Len(r) < n => Holds(r)}
<1>2. ASSUME NEW r \in Text
      PROVE  /\ from[r] \in Seq(Text) /\ Len(r) \in Nat
             /\ from[r] = IF Len(r) <= size THEN <<r>> ELSE <<FirstPiece(r, size)>> \o from[RestOf(r, size)]
  BY <1>1, LenProperties DEF PiecesBy, Text
<1>3. ASSUME NEW r \in Text, Len(r) <= size PROVE from[r] = <<r>> /\ Holds(r)
  <2>1. from[r] = <<r>>  BY <1>2, <1>3
  <2>2. InkOf(<<r>>) = Ink(r)  BY InkOfOne
  <2>3. Trimmed(r) => r \in Short  BY <1>3
  <2> HIDE DEF Short
  <2>4. r \in Short => <<r>> \in Seq(Short)  OBVIOUS
  <2> QED BY <2>1, <2>2, <2>3, <2>4
<1>4. ASSUME NEW r \in Text, ~(Len(r) <= size)
      PROVE  /\ FirstPiece(r, size) \in Short /\ Trimmed(RestOf(r, size)) /\ Len(RestOf(r, size)) < Len(r)
             /\ FirstPiece(r, size) \in Text /\ RestOf(r, size) \in Text
             /\ from[r] = <<FirstPiece(r, size)>> \o from[RestOf(r, size)]
             /\ Ink(r) = Ink(FirstPiece(r, size)) \o Ink(RestOf(r, size))
             /\ Trimmed(r) => FirstPiece(r, size) # <<>>
  <2>1. Len(r) > size  BY <1>2, <1>4
  <2>2. /\ Trimmed(FirstPiece(r, size)) /\ Len(FirstPiece(r, size)) <= size
        /\ Trimmed(RestOf(r, size)) /\ Len(RestOf(r, size)) < Len(r)
        /\ Ink(r) = Ink(FirstPiece(r, size)) \o Ink(RestOf(r, size))
        /\ Trimmed(r) => FirstPiece(r, size) # <<>>
    BY <2>1, OneRound
  <2>3. FirstPiece(r, size) \in Text /\ RestOf(r, size) \in Text  BY <2>2 DEF Trimmed
  <2>4. FirstPiece(r, size) \in Short  BY <2>2, <2>3
  <2>5. from[r] = <<FirstPiece(r, size)>> \o from[RestOf(r, size)]  BY <1>2, <1>4
  <2> QED BY <2>2, <2>3, <2>4, <2>5
<1>5. 0 \in S
  <2>1. \A r \in Text : ~(Len(r) < 0)  BY <1>2
  <2> QED BY <2>1
<1>6. ASSUME NEW n \in S PROVE n + 1 \in S
  <2> HIDE DEF Holds
  <2> SUFFICES ASSUME NEW r \in Text, Len(r) < n + 1 PROVE Holds(r)  OBVIOUS
  <2> USE DEF Holds
  <2>1. CASE Len(r) <= size  BY <1>3, <2>1
  <2>2. CASE ~(Len(r) <= size)
    <3> DEFINE f == FirstPiece(r, size)
               q == RestOf(r, size)
    <3>1. /\ f \in Short /\ Trimmed(q) /\ Len(q) < Len(r) /\ f \in Text /\ q \in Text
          /\ from[r] = <<f>> \o from[q] /\ Ink(r) = Ink(f) \o Ink(q)
      BY <1>4, <2>2
    <3> HIDE DEF f, q
    <3>2. Len(q) < n  BY <1>2, <3>1
    <3>3. InkOf(from[q]) = Ink(q) /\ from[q] \in Seq(Short) /\ from[q] \in Seq(Text)  BY <1>2, <1>6, <3>1, <3>2
    <3>4. <<f>> \in Seq(Text) /\ InkOf(<<f>>) = Ink(f)  BY <3>1, InkOfOne
    <3>5. InkOf(<<f>> \o from[q]) = InkOf(<<f>>) \o InkOf(from[q])  BY <3>3, <3>4, InkOfConcat
    <3> HIDE DEF Short
    <3>6. <<f>> \in Seq(Short)  BY <3>1
    <3>7. <<f>> \o from[q] \in Seq(Short)  BY <3>3, <3>6, ConcatProperties
    <3> QED BY <3>1, <3>3, <3>4, <3>5, <3>7
  <2> QED BY <2>1, <2>2
<1> HIDE DEF S
<1>7. S = Nat
  <2>1. S \subseteq Nat  BY DEF S
  <2> QED BY <1>5, <1>6, <2>1, NatInd
<1>8. ASSUME NEW r \in Text PROVE Holds(r)
  <2>1. Len(r) + 1 \in S /\ Len(r) < Len(r) + 1  BY <1>2, <1>7
  <2> HIDE DEF Holds
  <2> QED BY <2>1 DEF S
<1> DEFINE r == Strip(text)
           ps == from[r]
<1>9. Trimmed(r) /\ r \in Text /\ Ink(r) = Ink(text)  BY StripParts, InkOfStrip DEF Trimmed
<1> HIDE DEF r
<1>10. ps \in Seq(Short) /\ InkOf(ps) = Ink(text) /\ ps \in Seq(Text)  BY <1>2, <1>8, <1>9
<1>11. Only(ps, Text \ {<<>>}) \in Seq(Short \cap (Text \ {<<>>}))
  <2> HIDE DEF ps, Short
  <2> QED BY <1>10, OnlyInside
<1>12. Pieces(text, size) \in Seq(Piece(size))
  <2>1. Short \cap (Text \ {<<>>}) = Piece(size)  BY DEF Piece
  <2> QED BY <1>1, <1>11, <2>1 DEF r
<1>13. InkOf(Pieces(text, size)) = Ink(text)
  <2>1. InkOf(Only(ps, Text \ {<<>>})) = InkOf(ps)  BY <1>10, InkOfOnly
  <2> QED BY <1>1, <1>10, <2>1 DEF r
<1>14. ASSUME r = <<>> PROVE Pieces(text, size) = <<>>
  <2>1. <<>> \in Text /\ Len(<<>>) <= size  BY <1>9, <1>14, EmptySeq
  <2>2. ps = <<<<>>>>  BY <1>3, <1>14, <2>1
  <2>3. \A i \in DOMAIN ps : ps[i] \notin Text \ {<<>>}  BY <2>2
  <2>4. \A t \in Seq(Text) : (\A i \in DOMAIN t : t[i] \notin Text \ {<<>>}) => Only(t, Text \ {<<>>}) = <<>>
    BY OnlyOfNone, Zenon
  <2>5. Only(ps, Text \ {<<>>}) = <<>>  BY <1>10, <2>3, <2>4
  <2> QED BY <1>1, <2>5 DEF r
<1>15. ASSUME r # <<>> PROVE Pieces(text, size) # <<>>
  <2>1. PICK f, q : f \in Text /\ f # <<>> /\ q \in Seq(Text) /\ ps = <<f>> \o q
    <3>1. CASE Len(r) <= size
      <4>1. ps = <<r>>  BY <1>3, <1>9, <3>1
      <4>2. <<>> \in Seq(Text) /\ <<r>> \in Seq(Text)  BY <1>9, EmptySeq
      <4>3. <<r>> = <<r>> \o <<>>  BY <4>2, ConcatEmptySeq
      <4> QED BY <1>9, <1>15, <4>1, <4>2, <4>3
    <3>2. CASE ~(Len(r) <= size)
      <4>1. /\ FirstPiece(r, size) \in Text /\ RestOf(r, size) \in Text /\ FirstPiece(r, size) # <<>>
            /\ ps = <<FirstPiece(r, size)>> \o from[RestOf(r, size)]
        BY <1>4, <1>9, <3>2
      <4> QED BY <1>2, <4>1
    <3> QED BY <3>1, <3>2
  <2> HIDE DEF ps
  <2> DEFINE S1 == Text \ {<<>>}
  <2>2. \A u \in Seq(Text), y \in Text : Only(Append(u, y), S1) = IF y \in S1 THEN Append(Only(u, S1), y) ELSE Only(u, S1)
    BY OnlyFold, Zenon
  <2>3. Only(<<>>, S1) = <<>> /\ \A u \in Seq(Text) : Only(u, S1) \in Seq(Text)  BY OnlyFold, Zenon
  <2>4. <<>> \in Seq(Text) /\ Append(<<>>, f) = <<f>> /\ <<f>> \in Seq(Text) /\ f \in S1  BY <2>1, EmptySeq
  <2> HIDE DEF S1
  <2>5. Only(<<f>>, S1) = <<f>>  BY <2>1, <2>2, <2>3, <2>4
  <2>6. \A b \in Seq(Text) : Only(<<f>> \o b, S1) = Only(<<f>>, S1) \o Only(b, S1)  BY <2>4, OnlyOfConcat
  <2>7. Only(ps, S1) = <<f>> \o Only(q, S1)  BY <2>1, <2>5, <2>6
  <2>8. Len(<<f>> \o Only(q, S1)) = Len(<<f>>) + Len(Only(q, S1)) /\ Len(Only(q, S1)) \in Nat
    BY <2>1, <2>3, <2>4, ConcatProperties, LenProperties
  <2>9. Only(ps, S1) # <<>>  BY <2>7, <2>8
  <2> QED BY <1>1, <2>9 DEF S1, ps, r
<1> QED BY <1>12, <1>13, <1>14, <1>15 DEF r

(* ---- list markers ------------------------------------------------------- *)

\* Texts with a blank inside, and what begins or ends with a list marker.
Under(t) == \E i \in DOMAIN t : t[i] = "_"
Leads(t) == IsMarker(t) \/ \E i \in DOMAIN t : t[i] = "_" /\ IsMarker(Strip(SubSeq(t, 1, i)))
Trails(t) == IsMarker(t) \/ \E i \in DOMAIN t : t[i] = "_" /\ IsMarker(Strip(SubSeq(t, i, Len(t))))
Adopts(t) == \E i \in DOMAIN t : /\ t[i] = "_"
                                 /\ IsMarker(Strip(SubSeq(t, 1, i))) \/ IsMarker(Strip(SubSeq(t, i, Len(t))))

LEMMA MarkersAreWhole == ASSUME NEW t \in Text, Under(t) PROVE ~IsMarker(t)
<1>1. PICK i \in DOMAIN t : t[i] = "_"  BY DEF Under
<1>2. DOMAIN t = 1..Len(t) /\ Len(t) \in Nat  BY LenProperties DEF Text
<1>3. ~AllDigits(t)  BY <1>1 DEF AllDigits
<1>4. ASSUME Last(t) = "." , AllDigits(Front(t)) PROVE FALSE
  <2>1. i # Len(t)  BY <1>1, <1>4 DEF Last
  <2>a. i \in 1..Len(t)  BY <1>1, <1>2
  <2>b. Len(t) \in Nat  BY <1>2
  <2>2. i \in 1..Len(t)-1  BY <2>1, <2>a, <2>b
  <2>3. \A k \in 1..Len(t)-1 : t[k] \in Char  BY <1>2, ElementOfSeq DEF Text
  <2>4. Front(t) \in Seq(Char) /\ Len(Front(t)) = Len(t) - 1 /\ Front(t)[i] = t[i]
    <3>1. 1 \in Int /\ Len(t) - 1 \in Int /\ 1 <= Len(t) - 1  BY <1>2, <2>2
    <3>2. /\ SubSeq(t, 1, Len(t) - 1) \in Seq(Char) /\ Len(SubSeq(t, 1, Len(t) - 1)) = (Len(t) - 1) - 1 + 1
          /\ \A k \in 1..(Len(t) - 1) - 1 + 1 : SubSeq(t, 1, Len(t) - 1)[k] = t[1 + k - 1]
      BY <2>3, <3>1, SubSeqProperties
    <3>3. i \in 1..(Len(t) - 1) - 1 + 1 /\ 1 + i - 1 = i  BY <1>2, <2>2
    <3> QED BY <1>2, <3>2, <3>3 DEF Front
  <2>5. i \in DOMAIN Front(t)  BY <2>2, <2>4, LenProperties
  <2> QED BY <1>1, <1>4, <2>4, <2>5 DEF AllDigits
<1> QED BY <1>3, <1>4 DEF IsMarker

\* Two trimmed texts and the blank between them.
LEMMA JoinedFacts ==
  ASSUME NEW a, NEW b, Trimmed(a), Trimmed(b), b # <<>>
  PROVE  /\ Trimmed(Joined(a, b)) /\ Joined(a, b) # <<>>
         /\ a = <<>> => Joined(a, b) = b
         /\ a # <<>> => /\ Under(Joined(a, b))
                        /\ Leads(a) => Adopts(Joined(a, b)) /\ Leads(Joined(a, b))
                        /\ Trails(b) => Adopts(Joined(a, b)) /\ Trails(Joined(a, b))
<1>0. PICK u, m, n : u = <<"_">> /\ m = Len(a) /\ n = Len(b)  OBVIOUS
<1> DEFINE j == (a \o u) \o b
<1>a. a \in Seq(Char) /\ b \in Seq(Char)  BY DEF Trimmed, Text
<1>l. Len(a) \in Nat /\ Len(b) \in Nat  BY <1>a, LenProperties
<1>e. Len(b) # 0  BY <1>a, EmptySeq
<1>m. m = Len(a) /\ n = Len(b)  BY <1>0
<1>b. m \in Nat /\ n \in Nat /\ n >= 1  BY <1>m, <1>l, <1>e
<1>c. u \in Seq(Char) /\ Len(u) = 1 /\ u[1] = "_"
  <2>1. u \in Text  BY <1>0, OneChar DEF Char
  <2> QED BY <1>0, <2>1 DEF Text
<1>d. "_" \in White  BY DEF White
<1>2. a \o u \in Seq(Char) /\ Len(a \o u) = m + 1 /\ j \in Seq(Char) /\ Len(j) = m + 1 + n
  <2>1. a \o u \in Seq(Char) /\ Len(a \o u) = Len(a) + Len(u)  BY <1>a, <1>c, ConcatProperties
  <2>2. j \in Seq(Char) /\ Len(j) = Len(a \o u) + Len(b)  BY <1>a, <2>1, ConcatProperties
  <2> QED BY <1>0, <1>c, <2>1, <2>2
<1>3. /\ \A k \in 1..m : j[k] = a[k]
      /\ j[m + 1] = "_"
      /\ \A k \in 1..n : j[m + 1 + k] = b[k]
  <2>1. \A k \in 1..m+1 : (a \o u)[k] = IF k <= m THEN a[k] ELSE u[k - m]
    <3>1. \A k \in 1..(Len(a) + Len(u)) : (a \o u)[k] = IF k <= Len(a) THEN a[k] ELSE u[k - Len(a)]
      BY <1>a, <1>c, ConcatProperties
    <3> QED BY <1>0, <1>c, <3>1
  <2>2. \A k \in 1..m+1+n : j[k] = IF k <= m + 1 THEN (a \o u)[k] ELSE b[k - (m + 1)]
    <3>1. \A k \in 1..(Len(a \o u) + Len(b)) : j[k] = IF k <= Len(a \o u) THEN (a \o u)[k] ELSE b[k - Len(a \o u)]
      BY <1>a, <1>2, ConcatProperties
    <3> QED BY <1>0, <1>2, <3>1
  <2> HIDE DEF j
  <2>3. \A k \in 1..m : k \in 1..m+1 /\ k \in 1..m+1+n /\ k <= m + 1 /\ k <= m  BY <1>b
  <2>4. m + 1 \in 1..m+1 /\ m + 1 \in 1..m+1+n /\ (m + 1) - m = 1 /\ ~(m + 1 <= m)  BY <1>b
  <2>5. \A k \in 1..n : m + 1 + k \in 1..m+1+n /\ ~(m + 1 + k <= m + 1) /\ (m + 1 + k) - (m + 1) = k  BY <1>b
  <2>6. \A k \in 1..m : j[k] = a[k]  BY <2>1, <2>2, <2>3
  <2>a. (a \o u)[m + 1] = u[1]  BY <2>1, <2>4
  <2>c. j[m + 1] = (a \o u)[m + 1]
    <3>1. m + 1 \in 1..m+1+n /\ m + 1 <= m + 1  BY <1>b
    <3> QED BY <2>2, <3>1
  <2>7. j[m + 1] = "_"  BY <1>c, <2>a, <2>c
  <2>8. \A k \in 1..n : j[m + 1 + k] = b[k]  BY <2>2, <2>5
  <2> QED BY <2>6, <2>7, <2>8
<1>4. DOMAIN j = 1..m+1+n /\ j \in Text /\ j # <<>> /\ m + 1 + n \in Nat  BY <1>b, <1>2, LenProperties, EmptySeq DEF Text
<1>5. Joined(a, b) = Strip(j)  BY <1>0 DEF Joined
<1>6. b[1] \notin White /\ b[n] \notin White  BY <1>0 DEF Trimmed
<1> HIDE DEF j
<1>7. CASE a = <<>>
  <2>1. m = 0  BY <1>7, <1>0
  <2>2. \A k \in 1..1+n : (k = 1 => j[k] = "_") /\ (k > 1 => j[k] = b[k - 1])
    <3>1. \A k \in 1..1+n : k > 1 => k - 1 \in 1..n /\ 0 + 1 + (k - 1) = k  BY <1>b
    <3>a. m + 1 = 1  BY <2>1
    <3>2. j[1] = "_"  BY <1>3, <3>a
    <3>3. \A k \in 1..n : j[0 + 1 + k] = b[k]  BY <1>3, <2>1
    <3>4. \A k \in 1..1+n : k > 1 => j[k] = b[k - 1]  BY <3>1, <3>3
    <3> QED BY <3>2, <3>4
  <2>3. Span(j, 2, n + 1)
    <3>1. 2 \in 1..1+n /\ 2 > 1 /\ 2 - 1 = 1 /\ n + 1 \in 1..1+n /\ n + 1 > 1 /\ (n + 1) - 1 = n /\ 2 <= n + 1  BY <1>b
    <3>2. j[2] = b[1] /\ j[n + 1] = b[n]  BY <2>2, <3>1
    <3>3. Len(j) = 1 + n  BY <1>b, <1>2, <2>1 DEF j
    <3>4. \A k \in 1..1+n : k < 2 \/ k > n + 1 => k = 1  BY <1>b
    <3>5. \A k \in 1..1+n : k < 2 \/ k > n + 1 => j[k] \in White
      <4>1. 1 \in 1..1+n  BY <1>b
      <4>2. j[1] = "_"  BY <2>2, <4>1
      <4> QED BY <1>d, <3>4, <4>2
    <3> QED BY <1>6, <3>1, <3>2, <3>3, <3>5 DEF Span
  <2>4. Strip(j) = SubSeq(j, 2, n + 1)  BY <1>4, <2>3, StripSpan
  <2>5. SubSeq(j, 2, n + 1) = b
    <3>1. 2 \in Int /\ n + 1 \in Int /\ \A k \in 2..n+1 : j[k] \in Char
      <4>1. \A k \in 2..n+1 : k \in 1..Len(j)  BY <1>b, <1>2, <2>1 DEF j
      <4> QED BY <1>b, <1>2, <4>1, ElementOfSeq DEF j
    <3>2. /\ SubSeq(j, 2, n + 1) \in Seq(Char) /\ Len(SubSeq(j, 2, n + 1)) = IF 2 <= n + 1 THEN (n + 1) - 2 + 1 ELSE 0
          /\ \A k \in 1..(n + 1) - 2 + 1 : SubSeq(j, 2, n + 1)[k] = j[2 + k - 1]
      BY <3>1, SubSeqProperties
    <3>3. Len(SubSeq(j, 2, n + 1)) = n /\ (n + 1) - 2 + 1 = n  BY <1>b, <3>2
    <3>4. \A k \in 1..n : k + 1 \in 1..1+n /\ k + 1 > 1 /\ (k + 1) - 1 = k /\ 2 + k - 1 = k + 1  BY <1>b
    <3>5. \A k \in 1..n : SubSeq(j, 2, n + 1)[k] = b[k]  BY <2>2, <3>2, <3>3, <3>4
    <3> QED BY <1>a, <1>b, <3>2, <3>3, <3>5, SeqEqual, <1>0
  <2> QED BY <1>5, <1>7, <2>4, <2>5
<1>8. CASE a # <<>>
  <2>a. m # 0  BY <1>0, <1>a, <1>8, EmptySeq
  <2>1. m # 0 /\ a[1] \notin White /\ a[m] \notin White  BY <2>a, <1>8, <1>0 DEF Trimmed
  <2>2. j[1] = a[1] /\ j[m+1+n] = b[n]
    <3>1. 1 \in 1..m /\ n \in 1..n  BY <1>b, <2>1
    <3> QED BY <1>3, <3>1
  <2>3. Len(j) = m + 1 + n  BY <1>2 DEF j
  <2>4. Trimmed(j)  BY <1>4, <1>6, <2>1, <2>2, <2>3 DEF Trimmed
  <2>5. Joined(a, b) = j  BY <1>5, <2>4, StripTrimmed
  <2>6. m + 1 \in DOMAIN j /\ j[m + 1] = "_"
    <3>1. m + 1 \in 1..m+1+n  BY <1>b
    <3> QED BY <1>3, <1>4, <3>1
  <2>7. ASSUME Leads(a) PROVE Adopts(j) /\ Leads(j)
    <3>1. ASSUME NEW i \in 1..m PROVE SubSeq(j, 1, i) = SubSeq(a, 1, i) /\ i \in DOMAIN j /\ j[i] = a[i]
      <4>1. i \in 0..Len(j) /\ i \in 0..m /\ i \in DOMAIN j /\ \A k \in 1..i : k \in 1..m  BY <1>b, <1>4, <2>3
      <4>2. SubSeq(j, 1, i) \in Text /\ Len(SubSeq(j, 1, i)) = i /\ \A k \in 1..i : SubSeq(j, 1, i)[k] = j[k]
        BY <1>4, <4>1, CutInTwo
      <4>3. SubSeq(a, 1, i) \in Text /\ Len(SubSeq(a, 1, i)) = i /\ \A k \in 1..i : SubSeq(a, 1, i)[k] = a[k]
        BY <1>a, <1>b, <4>1, CutInTwo, <1>0 DEF Text
      <4>4. \A k \in 1..i : SubSeq(j, 1, i)[k] = SubSeq(a, 1, i)[k]  BY <1>3, <4>1, <4>2, <4>3
      <4>5. SubSeq(j, 1, i) = SubSeq(a, 1, i)  BY <4>2, <4>3, <4>4, SeqEqual DEF Text
      <4> QED BY <1>3, <4>1, <4>5
    <3>2. CASE IsMarker(a)
      <4> DEFINE h == SubSeq(j, 1, m + 1)
      <4>1. m + 1 \in 0..Len(j) /\ \A k \in 1..m : k \in 1..m+1  BY <1>b, <2>3
      <4>2. h \in Text /\ Len(h) = m + 1 /\ \A k \in 1..m+1 : h[k] = j[k]  BY <1>4, <4>1, CutInTwo
      <4> HIDE DEF h
      <4>3. h[m + 1] = "_" /\ h[1] = a[1] /\ h[m] = a[m]
        <5>1. m + 1 \in 1..m+1 /\ 1 \in 1..m /\ m \in 1..m  BY <1>b, <2>1
        <5>2. h[m + 1] = j[m + 1] /\ h[1] = j[1] /\ h[m] = j[m]  BY <4>1, <4>2, <5>1
        <5>3. j[m + 1] = "_" /\ j[1] = a[1] /\ j[m] = a[m]  BY <1>3, <5>1
        <5> QED BY <5>2, <5>3
      <4>4. Span(h, 1, m)
        <5>1. 1 \in 1..m+1 /\ m \in 1..m+1 /\ 1 <= m /\ \A k \in 1..m+1 : k < 1 \/ k > m => k = m + 1  BY <1>b, <2>1
        <5> QED BY <1>b, <1>d, <2>1, <4>2, <4>3, <5>1 DEF Span
      <4>5. Strip(h) = SubSeq(h, 1, m)  BY <4>2, <4>4, StripSpan
      <4>6. SubSeq(h, 1, m) = a
        <5>1. m \in 0..Len(h)  BY <1>b, <4>2
        <5>2. SubSeq(h, 1, m) \in Text /\ Len(SubSeq(h, 1, m)) = m /\ \A k \in 1..m : SubSeq(h, 1, m)[k] = h[k]
          BY <4>2, <5>1, CutInTwo
        <5>3. \A k \in 1..m : SubSeq(h, 1, m)[k] = a[k]  BY <1>3, <4>1, <4>2, <5>2
        <5> QED BY <1>a, <1>b, <5>2, <5>3, SeqEqual, <1>0 DEF Text
      <4>7. IsMarker(Strip(SubSeq(j, 1, m + 1)))  BY <3>2, <4>5, <4>6 DEF h
      <4> QED BY <2>6, <4>7 DEF Adopts, Leads
    <3>3. CASE ~IsMarker(a)
      <4>1. PICK i \in DOMAIN a : a[i] = "_" /\ IsMarker(Strip(SubSeq(a, 1, i)))  BY <2>7, <3>3 DEF Leads
      <4>2. i \in 1..m  BY <1>a, <1>b, LenProperties, <1>0
      <4> QED BY <3>1, <4>1, <4>2 DEF Adopts, Leads
    <3> QED BY <3>2, <3>3
  <2>8. ASSUME Trails(b) PROVE Adopts(j) /\ Trails(j)
    <3>1. ASSUME NEW i \in 1..n PROVE /\ SubSeq(j, m + 1 + i, Len(j)) = SubSeq(b, i, n)
                                      /\ m + 1 + i \in DOMAIN j /\ j[m + 1 + i] = b[i]
      <4>1. i - 1 \in 0..n /\ m + i \in 0..Len(j) /\ m + 1 + i \in DOMAIN j /\ (i - 1) + 1 = i /\ (m + i) + 1 = m + 1 + i
        BY <1>b, <1>4, <2>3
      <4>2. /\ SubSeq(j, m + 1 + i, Len(j)) \in Text /\ Len(SubSeq(j, m + 1 + i, Len(j))) = Len(j) - (m + i)
            /\ \A k \in 1..Len(j) - (m + i) : SubSeq(j, m + 1 + i, Len(j))[k] = j[(m + i) + k]
        <5>1. /\ SubSeq(j, (m + i) + 1, Len(j)) \in Text /\ Len(SubSeq(j, (m + i) + 1, Len(j))) = Len(j) - (m + i)
              /\ \A k \in 1..Len(j) - (m + i) : SubSeq(j, (m + i) + 1, Len(j))[k] = j[(m + i) + k]
          BY <1>4, <4>1, CutInTwo
        <5> QED BY <4>1, <5>1
      <4>3. /\ SubSeq(b, i, n) \in Text /\ Len(SubSeq(b, i, n)) = n - (i - 1)
            /\ \A k \in 1..n - (i - 1) : SubSeq(b, i, n)[k] = b[(i - 1) + k]
        <5>1. /\ SubSeq(b, (i - 1) + 1, n) \in Text /\ Len(SubSeq(b, (i - 1) + 1, n)) = n - (i - 1)
              /\ \A k \in 1..n - (i - 1) : SubSeq(b, (i - 1) + 1, n)[k] = b[(i - 1) + k]
          BY <1>a, <1>b, <4>1, CutInTwo, <1>0 DEF Text
        <5> QED BY <4>1, <5>1
      <4>4. Len(j) - (m + i) = n - (i - 1)  BY <1>b, <2>3
      <4>5. \A k \in 1..n - (i - 1) : (i - 1) + k \in 1..n /\ (m + i) + k = m + 1 + ((i - 1) + k)  BY <1>b
      <4>6. ASSUME NEW k \in 1..n - (i - 1) PROVE SubSeq(j, m + 1 + i, Len(j))[k] = SubSeq(b, i, n)[k]
        <5>1. SubSeq(j, m + 1 + i, Len(j))[k] = j[(m + i) + k]  BY <4>2, <4>4
        <5>2. SubSeq(b, i, n)[k] = b[(i - 1) + k]  BY <4>3
        <5>3. (i - 1) + k \in 1..n /\ (m + i) + k = m + 1 + ((i - 1) + k)  BY <4>5
        <5>4. j[m + 1 + ((i - 1) + k)] = b[(i - 1) + k]  BY <1>3, <5>3
        <5> QED BY <5>1, <5>2, <5>3, <5>4
      <4>7. SubSeq(j, m + 1 + i, Len(j)) = SubSeq(b, i, n)  BY <4>2, <4>3, <4>4, <4>6, SeqEqual DEF Text
      <4> QED BY <1>3, <4>1, <4>7
    <3>2. CASE IsMarker(b)
      <4> DEFINE h == SubSeq(j, m + 1, Len(j))
      <4>1. m \in 0..Len(j) /\ Len(j) - m = n + 1 /\ \A k \in 1..n : k + 1 \in 1..n+1 /\ m + (k + 1) = m + 1 + k  BY <1>b, <2>3
      <4>a. /\ SubSeq(j, m + 1, Len(j)) \in Text /\ Len(SubSeq(j, m + 1, Len(j))) = Len(j) - m
            /\ \A k \in 1..Len(j) - m : SubSeq(j, m + 1, Len(j))[k] = j[m + k]
        BY <1>4, <4>1, CutInTwo
      <4>2. h \in Text /\ Len(h) = n + 1 /\ \A k \in 1..n+1 : h[k] = j[m + k]  BY <4>a, <4>1
      <4> HIDE DEF h
      <4>3. h[1] = "_" /\ \A k \in 1..n : h[k + 1] = b[k]
        <5>1. 1 \in 1..n+1  BY <1>b
        <5>2. h[1] = j[m + 1]  BY <4>2, <5>1
        <5>3. \A k \in 1..n : h[k + 1] = j[m + (k + 1)]  BY <4>1, <4>2
        <5>4. \A k \in 1..n : h[k + 1] = j[m + 1 + k]  BY <4>1, <5>3
        <5> QED BY <1>3, <5>2, <5>4
      <4>4. Span(h, 2, n + 1)
        <5>1. 2 \in 1..n+1 /\ n + 1 \in 1..n+1 /\ 2 <= n + 1 /\ 1 \in 1..n /\ n \in 1..n /\ 1 + 1 = 2
              /\ \A k \in 1..n+1 : k < 2 \/ k > n + 1 => k = 1
          BY <1>b
        <5>2. h[2] = b[1] /\ h[n + 1] = b[n]  BY <4>3, <5>1
        <5> QED BY <1>b, <1>d, <1>6, <4>2, <4>3, <5>1, <5>2 DEF Span
      <4>5. Strip(h) = SubSeq(h, 2, n + 1)  BY <4>2, <4>4, StripSpan
      <4>6. SubSeq(h, 2, n + 1) = b
        <5>1. 1 \in 0..Len(h) /\ 1 + 1 = 2 /\ Len(h) - 1 = n /\ \A k \in 1..n : 1 + k = k + 1  BY <1>b, <4>2
        <5>2. /\ SubSeq(h, 1 + 1, Len(h)) \in Text /\ Len(SubSeq(h, 1 + 1, Len(h))) = Len(h) - 1
              /\ \A k \in 1..Len(h) - 1 : SubSeq(h, 1 + 1, Len(h))[k] = h[1 + k]
          BY <4>2, <5>1, CutInTwo
        <5>3. /\ SubSeq(h, 2, n + 1) \in Text /\ Len(SubSeq(h, 2, n + 1)) = n
              /\ \A k \in 1..n : SubSeq(h, 2, n + 1)[k] = h[k + 1]
          BY <4>2, <5>1, <5>2
        <5> QED BY <1>a, <1>b, <4>3, <5>3, SeqEqual, <1>0 DEF Text
      <4>7. IsMarker(Strip(SubSeq(j, m + 1, Len(j))))  BY <3>2, <4>2, <4>5, <4>6 DEF h
      <4> QED BY <2>6, <4>7 DEF Adopts, Trails
    <3>3. CASE ~IsMarker(b)
      <4>1. PICK i \in DOMAIN b : b[i] = "_" /\ IsMarker(Strip(SubSeq(b, i, n)))  BY <2>8, <3>3, <1>0 DEF Trails
      <4>2. i \in 1..n  BY <1>a, <1>b, LenProperties, <1>0
      <4>3. /\ m + 1 + i \in DOMAIN j /\ j[m + 1 + i] = "_"
            /\ IsMarker(Strip(SubSeq(j, m + 1 + i, Len(j))))
        BY <3>1, <4>1, <4>2
      <4> QED BY <4>3 DEF Adopts, Trails
    <3> QED BY <3>2, <3>3
  <2>9. Under(j)  BY <2>6 DEF Under
  <2> QED BY <1>4, <1>8, <2>4, <2>5, <2>7, <2>8, <2>9
<1> QED BY <1>7, <1>8

LEMMA InkOfJoined ==
  ASSUME NEW a \in Text, NEW b \in Text
  PROVE  Joined(a, b) \in Text /\ Ink(Joined(a, b)) = Ink(a) \o Ink(b)
<1> DEFINE u == <<"_">>
<1>9. u \in Text  BY OneChar DEF Char
<1>8. Len(u) = 1 /\ u[1] = "_"  OBVIOUS
<1>0. u \in Text /\ DOMAIN u = {1} /\ u[1] = "_"
  <2>1. DOMAIN u = 1..1  BY <1>8, <1>9, LenProperties DEF Text
  <2>2. 1..1 = {1}  OBVIOUS
  <2> QED BY <1>8, <1>9, <2>1, <2>2
<1>1. u \in Text /\ \A i \in DOMAIN u : u[i] \notin Inked  BY <1>0 DEF Inked, White
<1>2. Ink(u) = <<>>  BY <1>1, InkFacts
<1> HIDE DEF u
<1>3. a \o u \in Text /\ (a \o u) \o b \in Text  BY <1>1, ConcatProperties DEF Text
<1>a. Ink(a \o u) = Ink(a) \o Ink(u)  BY <1>1, InkFacts
<1>b. Ink((a \o u) \o b) = Ink(a \o u) \o Ink(b)  BY <1>3, InkFacts
<1>4. Ink((a \o u) \o b) = (Ink(a) \o Ink(u)) \o Ink(b)  BY <1>a, <1>b
<1>5. Ink(a) \o <<>> = Ink(a)  BY InkFacts, ConcatEmptySeq DEF Text
<1>6. Joined(a, b) = Strip((a \o u) \o b)  BY DEF Joined, u
<1>7. Ink(Strip((a \o u) \o b)) = Ink((a \o u) \o b) /\ Strip((a \o u) \o b) \in Text
  BY <1>3, InkOfStrip, StripParts DEF Trimmed
<1> QED BY <1>2, <1>4, <1>5, <1>6, <1>7

(* ---- chunks that adopt markers ------------------------------------------ *)

\* A chunk fits unless it adopted a marker; one that waits is made of markers.
Kept(size) == {c \in Text : Trimmed(c) /\ c # <<>> /\ (Len(c) <= size \/ Adopts(c))}
Whole(size) == {c \in Kept(size) : ~IsMarker(c)}
Waiting(size) == {p \in Text : Trimmed(p) /\ (p # <<>> => p \in Kept(size) /\ Leads(p) /\ Trails(p))}
Adoption(size) == [merged : Seq(Whole(size)), pending : Waiting(size)]
NoChunks == [merged |-> <<>>, pending |-> <<>>]

LEMMA AdoptType ==
  ASSUME NEW size \in Nat
  PROVE  /\ NoChunks \in Adoption(size)
         /\ \A a \in Adoption(size), p \in Piece(size) : Adopt(a, p) \in Adoption(size)
<1>1. <<>> \in Text /\ Trimmed(<<>>) /\ <<>> \in Seq(Whole(size))  BY EmptySeq DEF Text, Trimmed
<1>2. NoChunks \in Adoption(size)  BY <1>1 DEF NoChunks, Adoption, Waiting
<1>3. ASSUME NEW a \in Adoption(size), NEW p \in Piece(size) PROVE Adopt(a, p) \in Adoption(size)
  <2>1. PICK m, q : m = a.merged /\ q = a.pending  OBVIOUS
  <2>2. m \in Seq(Whole(size)) /\ q \in Waiting(size) /\ a = [merged |-> m, pending |-> q]  BY <2>1 DEF Adoption
  <2>3. Trimmed(q) /\ q \in Text /\ (q # <<>> => Leads(q) /\ Trails(q))  BY <2>2 DEF Waiting
  <2>4. Trimmed(p) /\ p # <<>> /\ p \in Text /\ Len(p) <= size  BY DEF Piece
  <2>5. PICK j : j = Joined(q, p)  OBVIOUS
  <2>6. /\ Trimmed(j) /\ j # <<>> /\ j \in Text
        /\ q = <<>> => j = p
        /\ q # <<>> => Under(j) /\ Adopts(j) /\ Leads(j) /\ (Trails(p) => Trails(j))
    BY <2>3, <2>4, <2>5, JoinedFacts DEF Trimmed
  <2>7. j \in Kept(size)  BY <2>4, <2>6 DEF Kept
  <2>8. CASE IsMarker(p)
    <3>1. Leads(p) /\ Trails(p)  BY <2>8 DEF Leads, Trails
    <3>2. Leads(j) /\ Trails(j)  BY <2>6, <3>1
    <3>3. j \in Waiting(size)  BY <2>6, <2>7, <3>2 DEF Waiting
    <3>4. Adopt(a, p) = [merged |-> m, pending |-> j]  BY <2>2, <2>5, <2>8 DEF Adopt
    <3> QED BY <2>2, <3>3, <3>4 DEF Adoption
  <2>9. CASE ~IsMarker(p)
    <3>1. ~IsMarker(j)  BY <2>6, <2>9, MarkersAreWhole
    <3>2. j \in Whole(size)  BY <2>7, <3>1 DEF Whole
    <3>3. Append(m, j) \in Seq(Whole(size))  BY <2>2, <3>2, AppendProperties
    <3>4. Adopt(a, p) = [merged |-> Append(m, j), pending |-> <<>>]  BY <2>1, <2>5, <2>9 DEF Adopt
    <3>5. <<>> \in Waiting(size)  BY <1>1 DEF Waiting
    <3> QED BY <3>3, <3>4, <3>5 DEF Adoption
  <2> QED BY <2>8, <2>9
<1> QED BY <1>2, <1>3

LEMMA AdoptedFold ==
  ASSUME NEW size \in Nat
  PROVE  /\ Adopted(<<>>) = NoChunks
         /\ \A t \in Seq(Piece(size)) : Adopted(t) \in Adoption(size)
         /\ \A t \in Seq(Piece(size)), x \in Piece(size) : Adopted(Append(t, x)) = Adopt(Adopted(t), x)
<1> DEFINE Op(a, x) == Adopt(a, x)
           step == [p \in Adoption(size) \X Piece(size) |-> Op(p[1], p[2])]
           H == [t \in Seq(Piece(size)) |-> Adopted(t)]
<1>1. Stepping(Adoption(size), Piece(size), NoChunks, step)
  BY AdoptType DEF Stepping
<1>2. \A a \in Adoption(size), x \in Piece(size) : step[<<a, x>>] = Op(a, x)  OBVIOUS
<1> HIDE DEF step
<1>3. ASSUME NEW t \in Seq(Piece(size)) PROVE \E g : Folds(g, t, Adoption(size), NoChunks, step) /\ H[t] = g[DOMAIN t]
  <2> DEFINE Body(g) == [T \in SUBSET DOMAIN t |-> IF T = {} THEN NoChunks ELSE Op(g[T \ {Max(T)}], t[Max(T)])]
             iter == CHOOSE g : g = Body(g)
  <2>1. PICK g : Solved(g, t, Adoption(size), Piece(size), NoChunks, step)  BY <1>1, FoldSolved
  <2>2. g = Body(g)  BY <1>2, <2>1 DEF Solved
  <2>3. iter = Body(iter)  BY <2>2
  <2>4. Adopted(t) = iter[DOMAIN t]  BY DEF Adopted, NoChunks, FoldLeft, MapThenFoldSet
  <2> HIDE DEF iter
  <2>5. Folds(iter, t, Adoption(size), NoChunks, step)  BY <2>3, <1>2, <2>1, ZenonT(60) DEF Folds, Solved
  <2> QED BY <2>4, <2>5
<1>4. \A t \in Seq(Piece(size)) : H[t] = Adopted(t)  OBVIOUS
<1> HIDE DEF H, Op
<1>5. Computed(H, Adoption(size), Piece(size), NoChunks, step)
  <2>1. Folding(H, Adoption(size), Piece(size), NoChunks, step)  BY <1>1, <1>3 DEF Folding
  <2> QED BY <2>1, FoldFacts
<1>6. Adopted(<<>>) = NoChunks /\ \A t \in Seq(Piece(size)) : Adopted(t) \in Adoption(size)  BY <1>4, <1>5, EmptySeq DEF Computed
<1>7. ASSUME NEW t \in Seq(Piece(size)), NEW x \in Piece(size) PROVE Adopted(Append(t, x)) = Op(Adopted(t), x)
  <2>1. Append(t, x) \in Seq(Piece(size))  BY AppendProperties
  <2>2. H[Append(t, x)] = step[<<H[t], x>>] /\ H[t] \in Adoption(size)  BY <1>5 DEF Computed
  <2> QED BY <1>2, <1>4, <2>1, <2>2
<1> QED BY <1>6, <1>7 DEF Op

\* What is merged and what still waits have the ink of the pieces.
LEMMA AdoptedInk ==
  ASSUME NEW size \in Nat
  PROVE  \A ps \in Seq(Piece(size)) :
           /\ InkOf(Adopted(ps).merged) \o Ink(Adopted(ps).pending) = InkOf(ps)
           /\ ps # <<>> => Adopted(ps).merged # <<>> \/ Adopted(ps).pending # <<>>
<1> DEFINE P == {ps \in Seq(Piece(size)) :
                   /\ InkOf(Adopted(ps).merged) \o Ink(Adopted(ps).pending) = InkOf(ps)
                   /\ ps # <<>> => Adopted(ps).merged # <<>> \/ Adopted(ps).pending # <<>>}
<1>1. <<>> \in P
  <2>1. Adopted(<<>>) = NoChunks /\ <<>> \in Seq(Piece(size))  BY AdoptedFold, EmptySeq
  <2>2. Adopted(<<>>).merged = <<>> /\ Adopted(<<>>).pending = <<>>  BY <2>1 DEF NoChunks
  <2>3. InkOf(<<>>) = <<>> /\ Ink(<<>>) = <<>> /\ <<>> \o <<>> = <<>>  BY InkOfAppend, InkFacts, ConcatEmptySeq, EmptySeq
  <2> QED BY <2>1, <2>2, <2>3
<1>2. ASSUME NEW ps \in Seq(Piece(size)), NEW p \in Piece(size), ps \in P PROVE Append(ps, p) \in P
  <2>0. Append(ps, p) \in Seq(Piece(size))  BY AppendProperties
  <2>1. PICK a \in Adoption(size) : a = Adopted(ps)  BY AdoptedFold
  <2>2. Adopted(Append(ps, p)) = Adopt(a, p)  BY <2>1, AdoptedFold
  <2>3. PICK m, q : m = a.merged /\ q = a.pending  OBVIOUS
  <2>4. /\ m \in Seq(Whole(size)) /\ q \in Waiting(size) /\ a = [merged |-> m, pending |-> q]
        /\ InkOf(m) \o Ink(q) = InkOf(ps)
    BY <1>2, <2>1, <2>3 DEF Adoption
  <2>5. m \in Seq(Text) /\ ps \in Seq(Text)
    <3>1. Whole(size) \subseteq Text /\ Piece(size) \subseteq Text  BY DEF Whole, Kept, Piece
    <3> QED BY <2>4, <3>1, SeqMonotonic
  <2>6. q \in Text /\ Trimmed(q) /\ p \in Text /\ Trimmed(p) /\ p # <<>>  BY <2>4 DEF Waiting, Piece
  <2>7. PICK j : j = Joined(q, p)  OBVIOUS
  <2>8. j \in Text /\ Ink(j) = Ink(q) \o Ink(p) /\ j # <<>>  BY <2>6, <2>7, InkOfJoined, JoinedFacts
  <2>9. InkOf(m) \in Seq(Char) /\ Ink(q) \in Seq(Char) /\ Ink(p) \in Seq(Char)  BY <2>5, <2>6, InkOfAppend, InkFacts DEF Text
  <2>10. InkOf(m) \o Ink(j) = InkOf(ps) \o Ink(p)
    <3>1. \A x, y, z \in Seq(Char) : (x \o y) \o z = x \o (y \o z)  BY ConcatAssociative
    <3>2. (InkOf(m) \o Ink(q)) \o Ink(p) = InkOf(m) \o (Ink(q) \o Ink(p))  BY <2>9, <3>1
    <3> QED BY <2>4, <2>8, <3>2
  <2>11. InkOf(Append(ps, p)) = InkOf(ps) \o Ink(p)  BY <2>5, <2>6, InkOfAppend
  <2>12. CASE IsMarker(p)
    <3>1. Adopt(a, p) = [merged |-> m, pending |-> j]  BY <2>4, <2>7, <2>12 DEF Adopt
    <3>2. Adopted(Append(ps, p)).merged = m /\ Adopted(Append(ps, p)).pending = j  BY <2>2, <3>1
    <3> QED BY <2>0, <2>8, <2>10, <2>11, <3>2
  <2>13. CASE ~IsMarker(p)
    <3>1. Adopt(a, p) = [merged |-> Append(m, j), pending |-> <<>>]  BY <2>3, <2>7, <2>13 DEF Adopt
    <3>2. Adopted(Append(ps, p)).merged = Append(m, j) /\ Adopted(Append(ps, p)).pending = <<>>  BY <2>2, <3>1
    <3>3. InkOf(Append(m, j)) = InkOf(m) \o Ink(j) /\ InkOf(Append(m, j)) \in Seq(Char)
      <4>1. Append(m, j) \in Seq(Text)  BY <2>5, <2>8, AppendProperties
      <4> QED BY <2>5, <2>8, <4>1, InkOfAppend DEF Text
    <3>4. InkOf(Append(m, j)) \o Ink(<<>>) = InkOf(Append(m, j))  BY <3>3, InkFacts, ConcatEmptySeq
    <3>5. Append(m, j) # <<>>  BY <2>5, <2>8, AppendProperties
    <3> QED BY <2>0, <2>10, <2>11, <3>2, <3>3, <3>4, <3>5
  <2> QED BY <2>12, <2>13
<1> HIDE DEF P
<1>3. \A ps \in Seq(Piece(size)) : ps \in P  BY <1>1, <1>2, SeqInd
<1> QED BY <1>3 DEF P

\* What a long body is cut into: at most one chunk, the only one, is a marker.
Chunks(cs, size) ==
  /\ cs \in Seq(Text)
  /\ \A i \in DOMAIN cs : Len(cs[i]) <= size \/ Adopts(cs[i])
  /\ \A i \in DOMAIN cs : i > 1 => ~IsMarker(cs[i])

\* Sequences of one member, and the last member of a sequence.
LEMMA OneOf ==
  ASSUME NEW X, NEW x \in X
  PROVE  <<x>> \in Seq(X) /\ <<x>> # <<>> /\ Len(<<x>>) = 1 /\ DOMAIN <<x>> = {1} /\ <<x>>[1] = x
<1>1. Len(<<x>>) = 1 /\ <<x>>[1] = x /\ <<x>> # <<>>  OBVIOUS
<1>2. <<x>> \in Seq(X)  OBVIOUS
<1>3. DOMAIN <<x>> = 1..1  BY <1>1, <1>2, LenProperties
<1>4. 1..1 = {1}  OBVIOUS
<1> QED BY <1>1, <1>2, <1>3, <1>4

LEMMA LastOf ==
  ASSUME NEW X, NEW m \in Seq(X), m # <<>>
  PROVE  \E f \in Seq(X), l \in X : m = Append(f, l) /\ Front(m) = f /\ Last(m) = l
<1>1. Len(m) \in Nat /\ Len(m) # 0 /\ DOMAIN m = 1..Len(m)  BY LenProperties, EmptySeq
<1>a. Len(m) \in Nat /\ Len(m) # 0  BY <1>1
<1>b. Len(m) - 1 \in Nat  BY <1>a
<1>2. PICK n \in Nat : n = Len(m) - 1  BY <1>b
<1>3. Len(m) = n + 1 /\ n + 1 \in 1..n+1  BY <1>1, <1>2
<1>4. \A k \in 1..n : m[k] \in X /\ k \in 1..n+1
  <2>1. \A k \in 1..n : k \in 1..n+1  BY <1>2
  <2> QED BY <1>3, <2>1, ElementOfSeq
<1>5. PICK f : f = SubSeq(m, 1, n)  OBVIOUS
<1>6. f \in Seq(X) /\ Len(f) = n /\ \A k \in 1..n : f[k] = m[k]
  <2>1. 1 \in Int /\ n \in Int /\ \A k \in 1..n : m[k] \in X  BY <1>4
  <2>2. /\ f \in Seq(X) /\ Len(f) = IF 1 <= n THEN n - 1 + 1 ELSE 0
        /\ \A k \in 1..n-1+1 : f[k] = m[1 + k - 1]
    BY <1>5, <2>1, SubSeqProperties
  <2>3. n - 1 + 1 = n /\ \A k \in 1..n : 1 + k - 1 = k  OBVIOUS
  <2>4. Len(f) = n  BY <2>2
  <2> QED BY <2>2, <2>3, <2>4
<1>7. PICK l \in X : l = m[n + 1]  BY <1>3, ElementOfSeq
<1>8. /\ Append(f, l) \in Seq(X) /\ Len(Append(f, l)) = n + 1
      /\ \A k \in 1..n : Append(f, l)[k] = f[k] /\ Append(f, l)[n + 1] = l
  BY <1>6, AppendProperties
<1>9. \A k \in 1..n+1 : Append(f, l)[k] = m[k]
  <2>1. \A k \in 1..n+1 : k \in 1..n \/ k = n + 1  BY <1>2
  <2>2. Append(f, l)[n + 1] = l  BY <1>6, AppendProperties
  <2> QED BY <1>6, <1>7, <1>8, <2>1, <2>2
<1>10. m = Append(f, l)  BY <1>3, <1>8, <1>9, SeqEqual
<1> QED BY <1>2, <1>3, <1>5, <1>6, <1>7, <1>10 DEF Front, Last

\* Markers are joined with their pieces: no ink is lost and none is alone.
LEMMA MergeOrphanFacts ==
  ASSUME NEW size \in Nat, NEW ps \in Seq(Piece(size))
  PROVE  /\ Chunks(MergeOrphanChunks(ps), size)
         /\ InkOf(MergeOrphanChunks(ps)) = InkOf(ps)
         /\ MergeOrphanChunks(ps) = <<>> <=> ps = <<>>
<1>1. PICK m, q : m = Adopted(ps).merged /\ q = Adopted(ps).pending  OBVIOUS
<1>2. Adopted(ps) \in Adoption(size)  BY AdoptedFold
<1>3. m \in Seq(Whole(size)) /\ q \in Waiting(size)  BY <1>1, <1>2 DEF Adoption
<1>4. InkOf(m) \o Ink(q) = InkOf(ps) /\ (ps # <<>> => m # <<>> \/ q # <<>>)  BY <1>1, AdoptedInk
<1>5. ps = <<>> => m = <<>> /\ q = <<>>
  <2>1. Adopted(<<>>) = NoChunks  BY AdoptedFold
  <2> QED BY <1>1, <2>1 DEF NoChunks
<1>6. PICK r : r = MergeOrphanChunks(ps)  OBVIOUS
<1>7. Whole(size) \subseteq Text /\ \A c \in Whole(size) : Trimmed(c) /\ c # <<>> /\ ~IsMarker(c) /\ (Len(c) <= size \/ Adopts(c))
  BY DEF Whole, Kept
<1>8. m \in Seq(Text)  BY <1>3, <1>7, SeqMonotonic
<1>9. q \in Text /\ Trimmed(q)  BY <1>3 DEF Waiting
<1>10. \A s \in Seq(Whole(size)) : Chunks(s, size)
  <2> SUFFICES ASSUME NEW s \in Seq(Whole(size)) PROVE Chunks(s, size)  OBVIOUS
  <2>1. s \in Seq(Text)  BY <1>7, SeqMonotonic
  <2>2. \A i \in DOMAIN s : s[i] \in Whole(size)  BY LenProperties, ElementOfSeq
  <2> QED BY <1>7, <2>1, <2>2 DEF Chunks
<1>11. CASE q = <<>>
  <2>1. r = m  BY <1>1, <1>6, <1>11 DEF MergeOrphanChunks
  <2>2. InkOf(m) \o Ink(q) = InkOf(m)
    <3>1. InkOf(m) \in Seq(Char)  BY <1>8, InkOfAppend DEF Text
    <3> QED BY <1>11, <3>1, InkFacts, ConcatEmptySeq
  <2> QED BY <1>3, <1>4, <1>5, <1>6, <1>10, <1>11, <2>1, <2>2
<1>12. CASE q # <<>> /\ m = <<>>
  <2>1. r = <<q>>  BY <1>1, <1>6, <1>12 DEF MergeOrphanChunks
  <2>2. q \in Kept(size)  BY <1>3, <1>12 DEF Waiting
  <2>3. r \in Seq(Text) /\ r # <<>> /\ DOMAIN r = {1} /\ r[1] = q  BY <1>9, <2>1, OneOf
  <2>4. Chunks(r, size)  BY <2>2, <2>3 DEF Chunks, Kept
  <2>5. InkOf(r) = Ink(q)  BY <1>9, <2>1, InkOfOne
  <2>6. InkOf(m) \o Ink(q) = Ink(q)
    <3>1. InkOf(m) = <<>> /\ Ink(q) \in Seq(Char)  BY <1>9, <1>12, InkOfAppend, InkFacts DEF Text
    <3> QED BY <3>1, ConcatEmptySeq
  <2> QED BY <1>4, <1>5, <1>6, <1>12, <2>3, <2>4, <2>5, <2>6
<1>13. CASE q # <<>> /\ m # <<>>
  <2>1. PICK f \in Seq(Whole(size)), l \in Whole(size) : m = Append(f, l) /\ Front(m) = f /\ Last(m) = l
    BY <1>3, <1>13, LastOf
  <2>2. PICK j : j = Joined(l, q)  OBVIOUS
  <2>3. r = Append(f, j)  BY <1>1, <1>6, <1>13, <2>1, <2>2 DEF MergeOrphanChunks
  <2>4. Trimmed(l) /\ l # <<>> /\ l \in Text  BY <1>7
  <2>5. Trails(q)  BY <1>3, <1>13 DEF Waiting
  <2>6. j \in Text /\ Trimmed(j) /\ j # <<>> /\ Under(j) /\ Adopts(j)
    BY <1>9, <1>13, <2>2, <2>4, <2>5, JoinedFacts DEF Trimmed
  <2>7. ~IsMarker(j)  BY <2>6, MarkersAreWhole
  <2>8. j \in Whole(size)  BY <2>6, <2>7 DEF Whole, Kept
  <2>9. r \in Seq(Whole(size)) /\ r # <<>>  BY <2>3, <2>8, AppendProperties
  <2>10. f \in Seq(Text)  BY <1>7, SeqMonotonic
  <2>11. InkOf(r) = InkOf(f) \o Ink(j) /\ InkOf(m) = InkOf(f) \o Ink(l)  BY <2>1, <2>3, <2>4, <2>6, <2>10, InkOfAppend
  <2>12. Ink(j) = Ink(l) \o Ink(q)  BY <1>9, <2>2, <2>4, InkOfJoined
  <2>13. InkOf(f) \in Seq(Char) /\ Ink(l) \in Seq(Char) /\ Ink(q) \in Seq(Char)
    BY <1>9, <2>4, <2>10, InkOfAppend, InkFacts DEF Text
  <2>14. \A x, y, z \in Seq(Char) : (x \o y) \o z = x \o (y \o z)  BY ConcatAssociative
  <2>16. (InkOf(f) \o Ink(l)) \o Ink(q) = InkOf(f) \o (Ink(l) \o Ink(q))  BY <2>13, <2>14
  <2>15. InkOf(r) = InkOf(m) \o Ink(q)  BY <2>11, <2>12, <2>16
  <2> QED BY <1>4, <1>5, <1>6, <1>10, <1>13, <2>9, <2>15
<1> QED BY <1>11, <1>12, <1>13

(* Only a body of nothing but blanks is cut into nothing.                      *)
LEMMA SplitLongFacts ==
  ASSUME NEW text \in Text, NEW size \in Nat \ {0}
  PROVE  /\ Chunks(SplitLongBody(text, size), size)
         /\ InkOf(SplitLongBody(text, size)) = Ink(text)
         /\ SplitLongBody(text, size) = <<>> <=> Len(text) > size /\ Strip(text) = <<>>
<1>1. CASE Len(text) <= size
  <2>1. SplitLongBody(text, size) = <<text>>  BY <1>1 DEF SplitLongBody
  <2>2. <<text>> \in Seq(Text) /\ <<text>> # <<>> /\ DOMAIN <<text>> = {1} /\ <<text>>[1] = text  BY OneOf
  <2>3. Chunks(<<text>>, size)  BY <1>1, <2>2 DEF Chunks
  <2>4. Len(text) \in Nat  BY LenProperties DEF Text
  <2>5. ~(Len(text) > size)  BY <1>1, <2>4
  <2> QED BY <2>1, <2>2, <2>3, <2>5, InkOfOne
<1>2. CASE ~(Len(text) <= size)
  <2>1. SplitLongBody(text, size) = MergeOrphanChunks(Pieces(text, size))  BY <1>2 DEF SplitLongBody
  <2>2. Len(text) \in Nat  BY LenProperties DEF Text
  <2>3. Len(text) > size  BY <1>2, <2>2
  <2>4. /\ Pieces(text, size) \in Seq(Piece(size)) /\ InkOf(Pieces(text, size)) = Ink(text)
        /\ Pieces(text, size) = <<>> <=> Strip(text) = <<>>
    BY PiecesFacts
  <2> QED BY <2>1, <2>3, <2>4, MergeOrphanFacts
<1> QED BY <1>1, <1>2

(* ---- lines keep the ink ------------------------------------------------- *)

LEMMA Concats ==
  \A x, y, z \in Text : /\ x \o y \in Text /\ (x \o y) \o z = x \o (y \o z)
                        /\ x \o <<>> = x /\ <<>> \o x = x
<1> SUFFICES ASSUME NEW x \in Seq(Char), NEW y \in Seq(Char), NEW z \in Seq(Char)
             PROVE  /\ x \o y \in Seq(Char) /\ (x \o y) \o z = x \o (y \o z)
                    /\ x \o <<>> = x /\ <<>> \o x = x
  BY DEF Text
<1>1. x \o y \in Seq(Char)  BY ConcatProperties
<1>2. (x \o y) \o z = x \o (y \o z)  BY ConcatAssociative
<1>3. x \o <<>> = x /\ <<>> \o x = x  BY ConcatEmptySeq
<1> QED BY <1>1, <1>2, <1>3

LEMMA Assoc == ASSUME NEW x \in Text, NEW y \in Text, NEW z \in Text PROVE (x \o y) \o z = x \o (y \o z)
BY ConcatAssociative DEF Text

\* The ink of what is set and of what is still to be set.
InkW(w) == (InkOf(w.lines) \o Ink(w.line)) \o Ink(w.word)

LEMMA InkWOf ==
  \A ls, t, d : InkW([lines |-> ls, line |-> t, word |-> d]) = (InkOf(ls) \o Ink(t)) \o Ink(d)
BY DEF InkW

LEMMA InkOfBlank == \A c \in Char : c \notin Inked => Ink(<<c>>) = <<>>
<1> SUFFICES ASSUME NEW c \in Char, c \notin Inked PROVE Ink(<<c>>) = <<>>  OBVIOUS
<1>1. <<c>> \in Seq(Char) /\ DOMAIN <<c>> = {1} /\ <<c>>[1] = c  BY OneOf
<1> QED BY <1>1, InkFacts DEF Text

LEMMA EndWordInk ==
  ASSUME NEW w \in Wrapping
  PROVE  EndWord(w) \in Wrapping /\ EndWord(w).word = <<>> /\ InkW(EndWord(w)) = InkW(w)
<1>1. PICK ls, t, d : ls = w.lines /\ t = w.line /\ d = w.word  OBVIOUS
<1>2. ls \in Seq(Text) /\ t \in Text /\ d \in Text /\ w = [lines |-> ls, line |-> t, word |-> d]  BY <1>1 DEF Wrapping
<1>3. PICK L, i, j : L = InkOf(ls) /\ i = Ink(t) /\ j = Ink(d)  OBVIOUS
<1>4. L \in Text /\ i \in Text /\ j \in Text /\ Ink(<<>>) = <<>>  BY <1>2, <1>3, InkOfAppend, InkFacts
<1>5. InkW(w) = (L \o i) \o j  BY <1>1, <1>3 DEF InkW
<1>6. PICK longer : longer = IF t = <<>> THEN d ELSE (t \o <<"_">>) \o d  OBVIOUS
<1>7. Ink(longer) = i \o j
  <2>1. CASE t = <<>>  BY <1>3, <1>4, <1>6, <2>1, Concats
  <2>2. CASE t # <<>>
    <3>1. "_" \in Char /\ "_" \notin Inked  BY DEF Char, Inked, White
    <3>2. <<"_">> \in Text /\ Ink(<<"_">>) = <<>>  BY <3>1, OneChar, InkOfBlank
    <3>3. t \o <<"_">> \in Text  BY <1>2, <3>2, Concats
    <3>4. Ink(t \o <<"_">>) = i \o <<>>  BY <1>2, <1>3, <3>2, InkFacts
    <3>5. Ink((t \o <<"_">>) \o d) = (i \o <<>>) \o j  BY <1>2, <1>3, <3>3, <3>4, InkFacts
    <3>6. i \o <<>> = i  BY <1>4, Concats
    <3> QED BY <1>6, <2>2, <3>5, <3>6
  <2> QED BY <2>1, <2>2
<1>8. EndWord(w) \in Wrapping  BY WrapType
<1>9. CASE d = <<>>
  <2>1. EndWord(w) = w  BY <1>1, <1>9 DEF EndWord
  <2> QED BY <1>1, <1>8, <1>9, <2>1
<1>10. CASE d # <<>> /\ Len(longer) <= LineWidth
  <2>1. EndWord(w) = [lines |-> ls, line |-> longer, word |-> <<>>]  BY <1>1, <1>2, <1>6, <1>10 DEF EndWord
  <2>a. InkW([lines |-> ls, line |-> longer, word |-> <<>>]) = (InkOf(ls) \o Ink(longer)) \o Ink(<<>>)  BY InkWOf, SMTT(60)
  <2>2. InkW(EndWord(w)) = (L \o (i \o j)) \o <<>>  BY <1>3, <1>4, <1>7, <2>1, <2>a
  <2>3. (L \o i) \o j = L \o (i \o j) /\ L \o (i \o j) \in Text
    <3>1. i \o j \in Text  BY <1>4, Concats
    <3>2. (L \o i) \o j = L \o (i \o j)  BY <1>4, Assoc
    <3>3. L \o (i \o j) \in Text  BY <1>4, <3>1, Concats
    <3> QED BY <3>2, <3>3
  <2>4. (L \o (i \o j)) \o <<>> = L \o (i \o j)  BY <2>3, Concats
  <2> QED BY <1>5, <1>8, <2>1, <2>2, <2>3, <2>4
<1>11. CASE d # <<>> /\ ~(Len(longer) <= LineWidth)
  <2>1. EndWord(w) = [lines |-> IF t = <<>> THEN ls ELSE Append(ls, t), line |-> d, word |-> <<>>]
    BY <1>1, <1>2, <1>6, <1>11 DEF EndWord
  <2>2. InkOf(IF t = <<>> THEN ls ELSE Append(ls, t)) = L \o i
    <3>1. CASE t = <<>>  BY <1>3, <1>4, <3>1, Concats
    <3>2. CASE t # <<>>
      <4>1. InkOf(Append(ls, t)) = L \o i  BY <1>2, <1>3, InkOfAppend
      <4> QED BY <3>2, <4>1
    <3> QED BY <3>1, <3>2
  <2>3. InkW(EndWord(w)) = ((L \o i) \o j) \o <<>>  BY <1>3, <1>4, <2>1, <2>2 DEF InkW
  <2>4. ((L \o i) \o j) \o <<>> = (L \o i) \o j
    <3>1. L \o i \in Text  BY <1>4, Concats
    <3>2. (L \o i) \o j \in Text  BY <1>4, <3>1, Concats
    <3> QED BY <3>2, Concats
  <2>5. EndWord(w).word = <<>>  BY <2>1
  <2>6. InkW(EndWord(w)) = InkW(w)  BY <1>5, <2>3, <2>4
  <2> QED BY <1>8, <2>5, <2>6
<1> QED BY <1>9, <1>10, <1>11

LEMMA EndParagraphInk ==
  ASSUME NEW w \in Wrapping
  PROVE  /\ EndParagraph(w) \in Wrapping /\ EndParagraph(w).lines # <<>>
         /\ InkOf(EndParagraph(w).lines) = InkW(w) /\ InkW(EndParagraph(w)) = InkW(w)
<1>1. PICK v \in Wrapping : v = EndWord(w)  BY EndWordInk
<1>2. v.word = <<>> /\ InkW(v) = InkW(w)  BY <1>1, EndWordInk
<1>3. v.lines \in Seq(Text) /\ v.line \in Text  BY DEF Wrapping
<1>4. EndParagraph(w) = [lines |-> Append(v.lines, v.line), line |-> <<>>, word |-> <<>>]  BY <1>1 DEF EndParagraph
<1>5. PICK L, i : L = InkOf(v.lines) /\ i = Ink(v.line)  OBVIOUS
<1>6. L \in Text /\ i \in Text /\ Ink(<<>>) = <<>>  BY <1>3, <1>5, InkOfAppend, InkFacts
<1>7. L \o i \in Text  BY <1>6, Concats
<1>8. (L \o i) \o <<>> = L \o i  BY <1>7, Concats
<1>9. InkW(v) = L \o i  BY <1>2, <1>5, <1>6, <1>8 DEF InkW
<1>10. InkOf(Append(v.lines, v.line)) = L \o i  BY <1>3, <1>5, InkOfAppend
<1>a. InkOf(Append(v.lines, v.line)) \o <<>> = L \o i  BY <1>8, <1>10
<1>e. InkW([lines |-> Append(v.lines, v.line), line |-> <<>>, word |-> <<>>]) = (InkOf(Append(v.lines, v.line)) \o Ink(<<>>)) \o Ink(<<>>)
  BY InkWOf
<1>f. InkW(EndParagraph(w)) = ((L \o i) \o <<>>) \o <<>>  BY <1>4, <1>6, <1>10, <1>e
<1>11. InkW(EndParagraph(w)) = L \o i  BY <1>8, <1>f
<1>12. Append(v.lines, v.line) # <<>>  BY <1>3, AppendProperties
<1>b. EndParagraph(w).lines = Append(v.lines, v.line)  BY <1>4
<1>c. EndParagraph(w) \in Wrapping  BY WrapType
<1>d. InkW(w) = L \o i  BY <1>2, <1>9
<1> QED BY <1>b, <1>c, <1>d, <1>10, <1>11, <1>12

LEMMA WrapInk ==
  ASSUME NEW w \in Wrapping, NEW c \in Char
  PROVE  InkW(Wrap(w, c)) = InkW(w) \o Ink(<<c>>)
<1>1. PICK ls, t, d : ls = w.lines /\ t = w.line /\ d = w.word  OBVIOUS
<1>2. ls \in Seq(Text) /\ t \in Text /\ d \in Text /\ w = [lines |-> ls, line |-> t, word |-> d]  BY <1>1 DEF Wrapping
<1>3. PICK L, i, j : L = InkOf(ls) /\ i = Ink(t) /\ j = Ink(d)  OBVIOUS
<1>4. L \in Text /\ i \in Text /\ j \in Text  BY <1>2, <1>3, InkOfAppend, InkFacts
<1>5. InkW(w) = (L \o i) \o j  BY <1>1, <1>3 DEF InkW
<1>6. L \o i \in Text /\ (L \o i) \o j \in Text
  <2>1. L \o i \in Text  BY <1>4, Concats
  <2> QED BY <1>4, <2>1, Concats
<1>7. CASE c \in {"/", "_"}
  <2>1. c \notin Inked  BY <1>7 DEF Inked, White
  <2>2. InkW(w) \o Ink(<<c>>) = InkW(w)  BY <1>5, <1>6, <2>1, InkOfBlank, Concats
  <2>3. Wrap(w, c) = EndParagraph(w) \/ Wrap(w, c) = EndWord(w)  BY <1>7 DEF Wrap
  <2> QED BY <2>2, <2>3, EndWordInk, EndParagraphInk
<1>8. CASE c \notin {"/", "_"}
  <2>1. Wrap(w, c) = [lines |-> ls, line |-> t, word |-> Append(d, c)]  BY <1>2, <1>8 DEF Wrap
  <2>2. Append(d, c) = d \o <<c>>  BY <1>2, AppendIsConcat DEF Text
  <2>3. <<c>> \in Text /\ Ink(<<c>>) \in Text  BY OneChar, InkFacts
  <2>4. Ink(d \o <<c>>) = j \o Ink(<<c>>)  BY <1>2, <1>3, <2>3, InkFacts
  <2>a. InkW([lines |-> ls, line |-> t, word |-> Append(d, c)]) = (InkOf(ls) \o Ink(t)) \o Ink(Append(d, c))  BY InkWOf, ZenonT(60)
  <2>5. InkW(Wrap(w, c)) = (L \o i) \o (j \o Ink(<<c>>))  BY <1>3, <2>1, <2>2, <2>4, <2>a
  <2>6. ((L \o i) \o j) \o Ink(<<c>>) = (L \o i) \o (j \o Ink(<<c>>))  BY <1>4, <1>6, <2>3, Assoc, ZenonT(60)
  <2> QED BY <1>5, <2>5, <2>6
<1> QED BY <1>7, <1>8

LEMMA WrappedInk == \A t \in Text : Wrapped(t) \in Wrapping /\ InkW(Wrapped(t)) = Ink(t)
<1> DEFINE P == {t \in Seq(Char) : InkW(Wrapped(t)) = Ink(t)}
<1>1. <<>> \in P
  <2>1. Wrapped(<<>>) = NoLines  BY WrappedFold
  <2>2. InkW(NoLines) = (<<>> \o <<>>) \o <<>>  BY InkOfAppend, InkFacts DEF InkW, NoLines
  <2>3. <<>> \in Text /\ <<>> \in Seq(Char)  BY EmptySeq DEF Text
  <2> QED BY <2>1, <2>2, <2>3, Concats, InkFacts
<1>2. ASSUME NEW t \in Seq(Char), NEW c \in Char, t \in P PROVE Append(t, c) \in P
  <2>1. Append(t, c) \in Seq(Char) /\ Append(t, c) = t \o <<c>>  BY AppendProperties, AppendIsConcat
  <2>2. Wrapped(Append(t, c)) = Wrap(Wrapped(t), c) /\ Wrapped(t) \in Wrapping  BY WrappedFold
  <2>3. InkW(Wrapped(Append(t, c))) = InkW(Wrapped(t)) \o Ink(<<c>>)  BY <2>2, WrapInk
  <2>4. Ink(t \o <<c>>) = Ink(t) \o Ink(<<c>>)
    <3>1. t \in Text /\ <<c>> \in Text  BY OneChar DEF Text
    <3> QED BY <3>1, InkFacts
  <2> QED BY <1>2, <2>1, <2>3, <2>4
<1> HIDE DEF P
<1>3. \A t \in Seq(Char) : t \in P  BY <1>1, <1>2, SeqInd
<1> QED BY <1>3, WrappedFold DEF P, Text

\* Measuring a text loses none of its ink, and putting its lines together neither.
LEMMA LinesInk ==
  ASSUME NEW t \in Text
  PROVE  InkOf(Lines(t)) = Ink(t) /\ (Lines(t) = <<>> <=> t = <<>>)
<1>1. CASE t = <<>>  BY <1>1, InkOfAppend, InkFacts DEF Lines
<1>2. CASE t # <<>>
  <2>1. Lines(t) = EndParagraph(Wrapped(t)).lines  BY <1>2 DEF Lines
  <2>2. Wrapped(t) \in Wrapping /\ InkW(Wrapped(t)) = Ink(t)  BY WrappedInk
  <2> QED BY <1>2, <2>1, <2>2, EndParagraphInk
<1> QED BY <1>1, <1>2

LEMMA UnwrappedInk == \A ls \in Seq(Text) : Ink(Unwrapped(ls)) = InkOf(ls)
<1> DEFINE P == {ls \in Seq(Text) : Ink(Unwrapped(ls)) = InkOf(ls)}
<1>1. <<>> \in P  BY UnwrappedFold, InkOfAppend, InkFacts, EmptySeq
<1>2. ASSUME NEW ls \in Seq(Text), NEW l \in Text, ls \in P PROVE Append(ls, l) \in P
  <2>1. Append(ls, l) \in Seq(Text)  BY AppendProperties
  <2>2. PICK u \in Text : u = Unwrapped(ls)  BY UnwrappedFold
  <2>3. Unwrapped(Append(ls, l)) = IF u = <<>> THEN l ELSE u \o <<"/">> \o l  BY <2>2, UnwrappedFold
  <2>4. InkOf(Append(ls, l)) = Ink(u) \o Ink(l)  BY <1>2, <2>2, InkOfAppend
  <2>5. Ink(u) \in Text /\ Ink(l) \in Text  BY InkFacts
  <2>6. CASE u = <<>>
    <3>1. <<>> \o Ink(l) = Ink(l)  BY <2>5, Concats
    <3> QED BY <2>1, <2>3, <2>4, <2>6, <3>1, InkFacts
  <2>7. CASE u # <<>>
    <3>1. "/" \in Char /\ "/" \notin Inked  BY DEF Char, Inked, White
    <3>2. <<"/">> \in Text /\ Ink(<<"/">>) = <<>>  BY <3>1, OneChar, InkOfBlank
    <3>3. u \o <<"/">> \in Text  BY <3>2, Concats
    <3>4. Ink(u \o <<"/">>) = Ink(u) \o <<>>  BY <3>2, InkFacts, ZenonT(60)
    <3>5. Ink((u \o <<"/">>) \o l) = (Ink(u) \o <<>>) \o Ink(l)  BY <3>3, <3>4, InkFacts
    <3>6. Ink(u) \o <<>> = Ink(u)  BY <2>5, Concats
    <3> QED BY <2>1, <2>3, <2>4, <2>7, <3>5, <3>6
  <2> QED BY <2>6, <2>7
<1> HIDE DEF P
<1>3. \A ls \in Seq(Text) : ls \in P  BY <1>1, <1>2, SeqInd
<1> QED BY <1>3 DEF P

(* ---- the paragraphs of a text ------------------------------------------- *)

LEMMA LineWidthType == LineWidth \in Nat \ {0} /\ Budget \in Nat \ {0, 1} /\ MaxChars \in Nat \ {0, 1} /\ ShortTail \in Nat
BY PagesAssumption

(* The paragraphs of a text: line feeds so far, the length and the blanks of    *)
(* the last paragraph, and how many letters were too many for one line.         *)
ParaType == [breaks : Nat, run : Nat, blanks : Nat, bad : Nat]
NewPara == [breaks |-> 0, run |-> 0, blanks |-> 0, bad |-> 0]
Gap(c) == IF c = "_" THEN 1 ELSE 0
Over(r, b) == IF r > LineWidth /\ b > 0 THEN 1 ELSE 0
ParaStep(p, c) ==
  IF c = "/" THEN [breaks |-> p.breaks + 1, run |-> 0, blanks |-> 0, bad |-> p.bad]
  ELSE [breaks |-> p.breaks, run |-> p.run + 1,
        blanks |-> p.blanks + Gap(c), bad |-> p.bad + Over(p.run + 1, p.blanks + Gap(c))]
Para(t) == FoldLeft(ParaStep, NewPara, t)
Breaks(t) == Para(t).breaks
Run(t) == Para(t).run
Blanks(t) == Para(t).blanks
Bad(t) == Para(t).bad

LEMMA GapType == \A c : Gap(c) \in Nat /\ (c # "_" => Gap(c) = 0) /\ (c = "_" => Gap(c) = 1)
BY DEF Gap

LEMMA OverFacts ==
  ASSUME NEW r \in Nat, NEW b \in Nat
  PROVE  /\ Over(r, b) \in Nat
         /\ Over(r, b) = 0 <=> r <= LineWidth \/ b = 0
BY LineWidthType DEF Over

LEMMA OverGrows ==
  ASSUME NEW r \in Nat, NEW b \in Nat, NEW r2 \in Nat, NEW b2 \in Nat, r <= r2, b <= b2
  PROVE  Over(r, b) <= Over(r2, b2)
BY LineWidthType DEF Over

LEMMA ParaStepType == NewPara \in ParaType /\ \A p \in ParaType, c \in Char : ParaStep(p, c) \in ParaType
<1>1. NewPara \in ParaType  BY DEF NewPara, ParaType
<1>2. ASSUME NEW p \in ParaType, NEW c \in Char PROVE ParaStep(p, c) \in ParaType
  <2>1. p.breaks \in Nat /\ p.run \in Nat /\ p.blanks \in Nat /\ p.bad \in Nat  BY DEF ParaType
  <2>2. Gap(c) \in Nat  BY GapType
  <2>a. p.run + 1 \in Nat /\ p.blanks + Gap(c) \in Nat  BY <2>1, <2>2
  <2>3. Over(p.run + 1, p.blanks + Gap(c)) \in Nat  BY <2>a, OverFacts
  <2>4. CASE c = "/"
    <3>1. ParaStep(p, c) = [breaks |-> p.breaks + 1, run |-> 0, blanks |-> 0, bad |-> p.bad]  BY <2>4 DEF ParaStep
    <3> QED BY <2>1, <3>1 DEF ParaType
  <2>5. CASE c # "/"
    <3>1. PICK g, o \in Nat : g = Gap(c) /\ o = Over(p.run + 1, p.blanks + Gap(c))  BY <2>2, <2>3
    <3>2. ParaStep(p, c) = [breaks |-> p.breaks, run |-> p.run + 1, blanks |-> p.blanks + g, bad |-> p.bad + o]
      BY <2>5, <3>1 DEF ParaStep
    <3> QED BY <2>1, <3>1, <3>2 DEF ParaType
  <2> QED BY <2>4, <2>5
<1> QED BY <1>1, <1>2

LEMMA ParaFold ==
  /\ Para(<<>>) = NewPara
  /\ \A t \in Seq(Char) : Para(t) \in ParaType
  /\ \A t \in Seq(Char), x \in Char : Para(Append(t, x)) = ParaStep(Para(t), x)
<1> DEFINE Op(a, x) == ParaStep(a, x)
           step == [p \in ParaType \X Char |-> Op(p[1], p[2])]
           H == [t \in Seq(Char) |-> Para(t)]
<1>1. Stepping(ParaType, Char, NewPara, step)
  BY ParaStepType DEF Stepping
<1>2. \A a \in ParaType, x \in Char : step[<<a, x>>] = Op(a, x)  OBVIOUS
<1> HIDE DEF step
<1>3. ASSUME NEW t \in Seq(Char) PROVE \E g : Folds(g, t, ParaType, NewPara, step) /\ H[t] = g[DOMAIN t]
  <2> DEFINE Body(g) == [T \in SUBSET DOMAIN t |-> IF T = {} THEN NewPara ELSE Op(g[T \ {Max(T)}], t[Max(T)])]
             iter == CHOOSE g : g = Body(g)
  <2>1. PICK g : Solved(g, t, ParaType, Char, NewPara, step)  BY <1>1, FoldSolved
  <2>2. g = Body(g)  BY <1>2, <2>1 DEF Solved
  <2>3. iter = Body(iter)  BY <2>2
  <2>4. Para(t) = iter[DOMAIN t]  BY DEF Para, NewPara, FoldLeft, MapThenFoldSet
  <2> HIDE DEF iter
  <2>5. Folds(iter, t, ParaType, NewPara, step)  BY <2>3, <1>2, <2>1, ZenonT(60) DEF Folds, Solved
  <2> QED BY <2>4, <2>5
<1>4. \A t \in Seq(Char) : H[t] = Para(t)  OBVIOUS
<1> HIDE DEF H, Op
<1>5. Computed(H, ParaType, Char, NewPara, step)
  <2>1. Folding(H, ParaType, Char, NewPara, step)  BY <1>1, <1>3 DEF Folding
  <2> QED BY <2>1, FoldFacts
<1>6. Para(<<>>) = NewPara /\ \A t \in Seq(Char) : Para(t) \in ParaType  BY <1>4, <1>5, EmptySeq DEF Computed
<1>7. ASSUME NEW t \in Seq(Char), NEW x \in Char PROVE Para(Append(t, x)) = Op(Para(t), x)
  <2>1. Append(t, x) \in Seq(Char)  BY AppendProperties
  <2>2. H[Append(t, x)] = step[<<H[t], x>>] /\ H[t] \in ParaType  BY <1>5 DEF Computed
  <2> QED BY <1>2, <1>4, <2>1, <2>2
<1> QED BY <1>6, <1>7 DEF Op

LEMMA ParaOfNone == Breaks(<<>>) = 0 /\ Run(<<>>) = 0 /\ Blanks(<<>>) = 0 /\ Bad(<<>>) = 0
BY ParaFold DEF NewPara, Breaks, Run, Blanks, Bad

LEMMA ParaTypes ==
  ASSUME NEW t \in Text
  PROVE  Breaks(t) \in Nat /\ Run(t) \in Nat /\ Blanks(t) \in Nat /\ Bad(t) \in Nat
<1>1. Para(t) \in ParaType  BY ParaFold DEF Text
<1> QED BY <1>1 DEF ParaType, Breaks, Run, Blanks, Bad

LEMMA ParaSteps ==
  ASSUME NEW t \in Text, NEW c \in Char
  PROVE  /\ Append(t, c) \in Text
         /\ c = "/" => /\ Breaks(Append(t, c)) = Breaks(t) + 1 /\ Run(Append(t, c)) = 0
                       /\ Blanks(Append(t, c)) = 0 /\ Bad(Append(t, c)) = Bad(t)
         /\ c # "/" => /\ Breaks(Append(t, c)) = Breaks(t) /\ Run(Append(t, c)) = Run(t) + 1
                       /\ Blanks(Append(t, c)) = Blanks(t) + Gap(c)
                       /\ Bad(Append(t, c)) = Bad(t) + Over(Run(t) + 1, Blanks(t) + Gap(c))
<1>1. Para(Append(t, c)) = ParaStep(Para(t), c)  BY ParaFold DEF Text
<1>2. Append(t, c) \in Text  BY AppendProperties DEF Text
<1>3. PICK p : p = Para(t)  OBVIOUS
<1>4. p.breaks = Breaks(t) /\ p.run = Run(t) /\ p.blanks = Blanks(t) /\ p.bad = Bad(t)
  BY <1>3 DEF Breaks, Run, Blanks, Bad
<1>5. CASE c = "/"
  <2>1. Para(Append(t, c)) = [breaks |-> p.breaks + 1, run |-> 0, blanks |-> 0, bad |-> p.bad]
    BY <1>1, <1>3, <1>5 DEF ParaStep
  <2> QED BY <1>2, <1>4, <1>5, <2>1 DEF Breaks, Run, Blanks, Bad
<1>6. CASE c # "/"
  <2>1. Para(Append(t, c)) =
          [breaks |-> p.breaks, run |-> p.run + 1,
           blanks |-> p.blanks + Gap(c), bad |-> p.bad + Over(p.run + 1, p.blanks + Gap(c))]
    BY <1>1, <1>3, <1>6 DEF ParaStep
  <2> QED BY <1>2, <1>4, <1>6, <2>1 DEF Breaks, Run, Blanks, Bad
<1> QED BY <1>5, <1>6

\* What is true of every text, letter by letter.
LEMMA TextInd ==
  ASSUME NEW P, <<>> \in P, \A t \in Text, c \in Char : t \in P => Append(t, c) \in P
  PROVE  \A t \in Text : t \in P
<1>1. \A t \in Seq(Char), c \in Char : t \in P => Append(t, c) \in P  BY DEF Text
<1>2. \A t \in Seq(Char) : t \in P  BY <1>1, SeqInd
<1> QED BY <1>2 DEF Text

\* A text of one paragraph that fits a line is not too wide.
LEMMA ParaShape ==
  \A t \in Text : /\ Bad(t) = 0 => Run(t) <= LineWidth \/ Blanks(t) = 0
                  /\ Breaks(t) = 0 => Run(t) = Len(t) /\ (Len(t) <= LineWidth => Bad(t) = 0)
                  /\ Breaks(t) = 0 /\ Blanks(t) = 0 => Bad(t) = 0
<1> DEFINE P == {t \in Text : /\ Bad(t) = 0 => Run(t) <= LineWidth \/ Blanks(t) = 0
                              /\ Breaks(t) = 0 => Run(t) = Len(t) /\ (Len(t) <= LineWidth => Bad(t) = 0)
                              /\ Breaks(t) = 0 /\ Blanks(t) = 0 => Bad(t) = 0}
<1>1. <<>> \in P
  <2>1. <<>> \in Text /\ Len(<<>>) = 0  BY EmptySeq DEF Text
  <2> QED BY <2>1, ParaOfNone, LineWidthType
<1>2. ASSUME NEW t \in Text, NEW c \in Char, t \in P PROVE Append(t, c) \in P
  <2>1. Len(Append(t, c)) = Len(t) + 1 /\ Len(t) \in Nat  BY AppendProperties, LenProperties DEF Text
  <2>2. Breaks(t) \in Nat /\ Run(t) \in Nat /\ Blanks(t) \in Nat /\ Bad(t) \in Nat  BY ParaTypes
  <2>3. CASE c = "/"
    <3>1. /\ Append(t, c) \in Text /\ Breaks(Append(t, c)) = Breaks(t) + 1 /\ Run(Append(t, c)) = 0
          /\ Blanks(Append(t, c)) = 0 /\ Bad(Append(t, c)) = Bad(t)
      BY <2>3, ParaSteps
    <3> QED BY <2>2, <3>1, LineWidthType
  <2>4. CASE c # "/"
    <3>1. /\ Append(t, c) \in Text /\ Breaks(Append(t, c)) = Breaks(t) /\ Run(Append(t, c)) = Run(t) + 1
          /\ Blanks(Append(t, c)) = Blanks(t) + Gap(c)
          /\ Bad(Append(t, c)) = Bad(t) + Over(Run(t) + 1, Blanks(t) + Gap(c))
      BY <2>4, ParaSteps
    <3>d. PICK g \in Nat : g = Gap(c)  BY GapType
    <3>a. PICK r \in Nat, b \in Nat : g = Gap(c) /\ r = Run(t) + 1 /\ b = Blanks(t) + g  BY <2>2, <3>d
    <3>b. PICK o \in Nat : o = Over(r, b) /\ (o = 0 <=> r <= LineWidth \/ b = 0)  BY OverFacts
    <3>c. Bad(Append(t, c)) = Bad(t) + o /\ Run(Append(t, c)) = r /\ Blanks(Append(t, c)) = b  BY <3>1, <3>a, <3>b
    <3>2. Bad(Append(t, c)) = 0 => Run(Append(t, c)) <= LineWidth \/ Blanks(Append(t, c)) = 0
      BY <2>2, <3>b, <3>c
    <3>3. Breaks(Append(t, c)) = 0 => /\ Run(Append(t, c)) = Len(Append(t, c))
                                      /\ Len(Append(t, c)) <= LineWidth => Bad(Append(t, c)) = 0
      <4>1. ASSUME Breaks(t) = 0 PROVE Run(t) = Len(t) /\ (Len(t) <= LineWidth => Bad(t) = 0)  BY <1>2, <4>1
      <4>2. ASSUME Breaks(t) = 0 PROVE r = Len(t) + 1 /\ (Len(t) + 1 <= LineWidth => Bad(t) = 0 /\ o = 0)
        BY <2>1, <2>2, <3>a, <3>b, <4>1, <4>2, LineWidthType
      <4> QED BY <2>1, <2>2, <3>1, <3>b, <3>c, <4>2
    <3>4. Breaks(Append(t, c)) = 0 /\ Blanks(Append(t, c)) = 0 => Bad(Append(t, c)) = 0
      <4>1. Breaks(t) = 0 /\ Blanks(t) = 0 => Bad(t) = 0  BY <1>2
      <4> QED BY <2>2, <3>1, <3>a, <3>b, <3>c, <4>1
    <3> QED BY <3>1, <3>2, <3>3, <3>4
  <2> QED BY <2>3, <2>4
<1> HIDE DEF P
<1>3. \A t \in Text : t \in P  BY <1>1, <1>2, TextInd
<1> QED BY <1>3 DEF P

LEMMA ConcatStep ==
  ASSUME NEW a \in Text, NEW t \in Text, NEW c \in Char
  PROVE  a \o t \in Text /\ a \o Append(t, c) = Append(a \o t, c)
<1>1. a \o t \in Text  BY Concats
<1> QED BY <1>1, ConcatAppend DEF Text

\* A prefix, a suffix: what a part of a text has, the text has.
LEMMA ParaOfParts ==
  ASSUME NEW a \in Text
  PROVE  \A t \in Text : /\ Breaks(a \o t) = Breaks(a) + Breaks(t)
                         /\ Bad(a) <= Bad(a \o t) /\ Bad(t) <= Bad(a \o t)
                         /\ Run(t) <= Run(a \o t) /\ Blanks(t) <= Blanks(a \o t)
                         /\ Run(a) = 0 /\ Blanks(a) = 0 =>
                              Run(a \o t) = Run(t) /\ Blanks(a \o t) = Blanks(t) /\ Bad(a \o t) = Bad(a) + Bad(t)
<1> DEFINE P == {t \in Text : /\ Breaks(a \o t) = Breaks(a) + Breaks(t)
                              /\ Bad(a) <= Bad(a \o t) /\ Bad(t) <= Bad(a \o t)
                              /\ Run(t) <= Run(a \o t) /\ Blanks(t) <= Blanks(a \o t)
                              /\ Run(a) = 0 /\ Blanks(a) = 0 =>
                                   Run(a \o t) = Run(t) /\ Blanks(a \o t) = Blanks(t) /\ Bad(a \o t) = Bad(a) + Bad(t)}
<1>0. Breaks(a) \in Nat /\ Run(a) \in Nat /\ Blanks(a) \in Nat /\ Bad(a) \in Nat  BY ParaTypes
<1>1. <<>> \in P
  <2>1. <<>> \in Text  BY EmptySeq DEF Text
  <2>2. a \o <<>> = a  BY <2>1, Concats
  <2>3. Breaks(a) = Breaks(a) + 0 /\ Bad(a) <= Bad(a) /\ 0 <= Bad(a) /\ 0 <= Run(a) /\ 0 <= Blanks(a) /\ Bad(a) = Bad(a) + 0
    BY <1>0
  <2> QED BY <2>1, <2>2, <2>3, ParaOfNone
<1>2. ASSUME NEW t \in Text, NEW c \in Char, t \in P PROVE Append(t, c) \in P
  <2>1. PICK u \in Text : u = a \o t /\ a \o Append(t, c) = Append(u, c)  BY ConcatStep
  <2>2. Breaks(t) \in Nat /\ Run(t) \in Nat /\ Blanks(t) \in Nat /\ Bad(t) \in Nat  BY ParaTypes
  <2>3. Breaks(u) \in Nat /\ Run(u) \in Nat /\ Blanks(u) \in Nat /\ Bad(u) \in Nat  BY ParaTypes
  <2>4. /\ Breaks(u) = Breaks(a) + Breaks(t)
        /\ Bad(a) <= Bad(u) /\ Bad(t) <= Bad(u)
        /\ Run(t) <= Run(u) /\ Blanks(t) <= Blanks(u)
        /\ Run(a) = 0 /\ Blanks(a) = 0 => Run(u) = Run(t) /\ Blanks(u) = Blanks(t) /\ Bad(u) = Bad(a) + Bad(t)
    BY <1>2, <2>1
  <2>5. PICK t2, u2 : t2 = Append(t, c) /\ u2 = Append(u, c)  OBVIOUS
  <2>6. t2 \in Text  BY <2>5, ParaSteps
  <2>7. /\ Breaks(u2) = Breaks(a) + Breaks(t2)
        /\ Bad(a) <= Bad(u2) /\ Bad(t2) <= Bad(u2)
        /\ Run(t2) <= Run(u2) /\ Blanks(t2) <= Blanks(u2)
        /\ Run(a) = 0 /\ Blanks(a) = 0 => Run(u2) = Run(t2) /\ Blanks(u2) = Blanks(t2) /\ Bad(u2) = Bad(a) + Bad(t2)
    <3>1. CASE c = "/"
      <4>1. Breaks(t2) = Breaks(t) + 1 /\ Run(t2) = 0 /\ Blanks(t2) = 0 /\ Bad(t2) = Bad(t)  BY <2>5, <3>1, ParaSteps
      <4>2. Breaks(u2) = Breaks(u) + 1 /\ Run(u2) = 0 /\ Blanks(u2) = 0 /\ Bad(u2) = Bad(u)  BY <2>5, <3>1, ParaSteps
      <4> QED BY <1>0, <2>2, <2>3, <2>4, <4>1, <4>2
    <3>2. CASE c # "/"
      <4>1. /\ Breaks(t2) = Breaks(t) /\ Run(t2) = Run(t) + 1
            /\ Blanks(t2) = Blanks(t) + Gap(c)
            /\ Bad(t2) = Bad(t) + Over(Run(t) + 1, Blanks(t) + Gap(c))
        BY <2>5, <3>2, ParaSteps
      <4>2. /\ Breaks(u2) = Breaks(u) /\ Run(u2) = Run(u) + 1
            /\ Blanks(u2) = Blanks(u) + Gap(c)
            /\ Bad(u2) = Bad(u) + Over(Run(u) + 1, Blanks(u) + Gap(c))
        BY <2>5, <3>2, ParaSteps
      <4>a. PICK g \in Nat, x \in Nat, y \in Nat : /\ g = Gap(c) /\ x = Over(Run(t) + 1, Blanks(t) + g)
                                                   /\ y = Over(Run(u) + 1, Blanks(u) + g) /\ x <= y
        <5>1. PICK g \in Nat : g = Gap(c)  BY GapType
        <5>2. /\ Run(t) + 1 \in Nat /\ Blanks(t) + g \in Nat /\ Run(u) + 1 \in Nat /\ Blanks(u) + g \in Nat
              /\ Run(t) + 1 <= Run(u) + 1 /\ Blanks(t) + g <= Blanks(u) + g
          BY <2>2, <2>3, <2>4
        <5>3. PICK x \in Nat : x = Over(Run(t) + 1, Blanks(t) + g)  BY <5>2, OverFacts
        <5>4. PICK y \in Nat : y = Over(Run(u) + 1, Blanks(u) + g)  BY <5>2, OverFacts
        <5>5. x <= y  BY <5>2, <5>3, <5>4, OverGrows
        <5> QED BY <5>1, <5>3, <5>4, <5>5
      <4>b. Bad(t2) = Bad(t) + x /\ Bad(u2) = Bad(u) + y /\ Blanks(t2) = Blanks(t) + g /\ Blanks(u2) = Blanks(u) + g
        BY <4>1, <4>2, <4>a
      <4>c. Run(u) = Run(t) /\ Blanks(u) = Blanks(t) => x = y  BY <4>a
      <4>3. Breaks(u2) = Breaks(a) + Breaks(t2) /\ Bad(a) <= Bad(u2) /\ Run(t2) <= Run(u2) /\ Blanks(t2) <= Blanks(u2)
        BY <1>0, <2>2, <2>3, <2>4, <4>1, <4>2, <4>a, <4>b, <4>c
      <4>4. Bad(t2) <= Bad(u2)  BY <1>0, <2>2, <2>3, <2>4, <4>1, <4>2, <4>a, <4>b, <4>c
      <4>5. Run(a) = 0 /\ Blanks(a) = 0 => Run(u2) = Run(t2) /\ Blanks(u2) = Blanks(t2) /\ Bad(u2) = Bad(a) + Bad(t2)
        BY <1>0, <2>2, <2>3, <2>4, <4>1, <4>2, <4>a, <4>b, <4>c
      <4> QED BY <4>3, <4>4, <4>5
    <3> QED BY <3>1, <3>2
  <2> QED BY <2>1, <2>5, <2>6, <2>7
<1> HIDE DEF P
<1>3. \A t \in Text : t \in P  BY <1>1, <1>2, TextInd
<1> QED BY <1>3 DEF P

Unmarked(t) == Only(t, Char \ {"*"})

\* Without its marks a text is no longer.
LEMMA ParaOfUnmarked ==
  \A t \in Text : /\ Unmarked(t) \in Text /\ Breaks(Unmarked(t)) = Breaks(t) /\ Run(Unmarked(t)) <= Run(t)
                  /\ Blanks(Unmarked(t)) = Blanks(t) /\ Bad(Unmarked(t)) <= Bad(t)
<1> DEFINE P == {t \in Text : /\ Unmarked(t) \in Text /\ Breaks(Unmarked(t)) = Breaks(t) /\ Run(Unmarked(t)) <= Run(t)
                              /\ Blanks(Unmarked(t)) = Blanks(t) /\ Bad(Unmarked(t)) <= Bad(t)}
<1>1. <<>> \in P
  <2>1. <<>> \in Text  BY EmptySeq DEF Text
  <2>2. Unmarked(<<>>) = <<>>  BY OnlyFold DEF Unmarked
  <2> QED BY <2>1, <2>2, ParaOfNone
<1>2. ASSUME NEW t \in Text, NEW c \in Char, t \in P PROVE Append(t, c) \in P
  <2>0. \A u \in Seq(Char), y \in Char : Only(Append(u, y), Char \ {"*"}) =
           IF y \in Char \ {"*"} THEN Append(Only(u, Char \ {"*"}), y) ELSE Only(u, Char \ {"*"})
    BY OnlyFold, Zenon
  <2>1. PICK u \in Text : u = Unmarked(t)  BY <1>2
  <2>2. Breaks(t) \in Nat /\ Run(t) \in Nat /\ Blanks(t) \in Nat /\ Bad(t) \in Nat  BY ParaTypes
  <2>3. Breaks(u) \in Nat /\ Run(u) \in Nat /\ Blanks(u) \in Nat /\ Bad(u) \in Nat  BY ParaTypes
  <2>4. Breaks(u) = Breaks(t) /\ Run(u) <= Run(t) /\ Blanks(u) = Blanks(t) /\ Bad(u) <= Bad(t)  BY <1>2, <2>1
  <2>5. PICK t2, u2 : t2 = Append(t, c) /\ u2 = Unmarked(Append(t, c))  OBVIOUS
  <2>6. u2 = IF c = "*" THEN u ELSE Append(u, c)  BY <2>0, <2>1, <2>5 DEF Unmarked, Text
  <2>7. t2 \in Text  BY <2>5, ParaSteps
  <2>8. u2 \in Text /\ Breaks(u2) = Breaks(t2) /\ Run(u2) <= Run(t2) /\ Blanks(u2) = Blanks(t2) /\ Bad(u2) <= Bad(t2)
    <3>1. CASE c = "/"
      <4>1. Breaks(t2) = Breaks(t) + 1 /\ Run(t2) = 0 /\ Blanks(t2) = 0 /\ Bad(t2) = Bad(t)  BY <2>5, <3>1, ParaSteps
      <4>2. u2 \in Text /\ Breaks(u2) = Breaks(u) + 1 /\ Run(u2) = 0 /\ Blanks(u2) = 0 /\ Bad(u2) = Bad(u)
        BY <2>6, <3>1, ParaSteps
      <4> QED BY <2>2, <2>3, <2>4, <4>1, <4>2
    <3>2. CASE c # "/"
      <4>1. /\ Breaks(t2) = Breaks(t) /\ Run(t2) = Run(t) + 1
            /\ Blanks(t2) = Blanks(t) + Gap(c)
            /\ Bad(t2) = Bad(t) + Over(Run(t) + 1, Blanks(t) + Gap(c))
        BY <2>5, <3>2, ParaSteps
      <4>2. CASE c = "*"
        <5>1. u2 = u /\ c # "_"  BY <2>6, <4>2
        <5>a. Gap(c) = 0  BY <5>1, GapType
        <5>2. Run(t) + 1 \in Nat /\ Blanks(t) + 0 \in Nat /\ Blanks(t) + 0 = Blanks(t)  BY <2>2
        <5>3. PICK o \in Nat : o = Over(Run(t) + 1, Blanks(t) + 0)  BY <5>2, OverFacts
        <5>4. Bad(t2) = Bad(t) + o /\ Blanks(t2) = Blanks(t)  BY <4>1, <5>a, <5>2, <5>3
        <5>5. u2 \in Text /\ Breaks(u2) = Breaks(u) /\ Run(u2) = Run(u) /\ Blanks(u2) = Blanks(u) /\ Bad(u2) = Bad(u)  BY <5>1
        <5>6. Breaks(u2) = Breaks(t2) /\ Run(u2) <= Run(t2)  BY <2>2, <2>3, <2>4, <4>1, <5>5
        <5>7. Blanks(u2) = Blanks(t2) /\ Bad(u2) <= Bad(t2)  BY <2>2, <2>3, <2>4, <5>4, <5>5
        <5> QED BY <5>5, <5>6, <5>7
      <4>3. CASE c # "*"
        <5>1. /\ u2 \in Text /\ Breaks(u2) = Breaks(u) /\ Run(u2) = Run(u) + 1
              /\ Blanks(u2) = Blanks(u) + Gap(c)
              /\ Bad(u2) = Bad(u) + Over(Run(u) + 1, Blanks(u) + Gap(c))
          BY <2>6, <3>2, <4>3, ParaSteps
        <5>a. PICK g \in Nat, x \in Nat, y \in Nat : /\ g = Gap(c) /\ x = Over(Run(t) + 1, Blanks(t) + g)
                                                     /\ y = Over(Run(u) + 1, Blanks(u) + g) /\ y <= x
          <6>1. PICK g \in Nat : g = Gap(c)  BY GapType
          <6>2. /\ Run(t) + 1 \in Nat /\ Blanks(t) + g \in Nat /\ Run(u) + 1 \in Nat /\ Blanks(u) + g \in Nat
                /\ Run(u) + 1 <= Run(t) + 1 /\ Blanks(u) + g <= Blanks(t) + g
            BY <2>2, <2>3, <2>4
          <6>3. PICK x \in Nat : x = Over(Run(t) + 1, Blanks(t) + g)  BY <6>2, OverFacts
          <6>4. PICK y \in Nat : y = Over(Run(u) + 1, Blanks(u) + g)  BY <6>2, OverFacts
          <6>5. y <= x  BY <6>2, <6>3, <6>4, OverGrows
          <6> QED BY <6>1, <6>3, <6>4, <6>5
        <5>b. Bad(t2) = Bad(t) + x /\ Bad(u2) = Bad(u) + y /\ Blanks(t2) = Blanks(t) + g /\ Blanks(u2) = Blanks(u) + g
          BY <4>1, <5>1, <5>a
        <5>2. Breaks(u2) = Breaks(t2) /\ Run(u2) <= Run(t2) /\ Blanks(u2) = Blanks(t2)  BY <2>2, <2>3, <2>4, <4>1, <5>1, <5>b
        <5>3. Bad(u2) <= Bad(t2)  BY <2>2, <2>3, <2>4, <5>a, <5>b
        <5> QED BY <5>1, <5>2, <5>3
      <4> QED BY <4>2, <4>3
    <3> QED BY <3>1, <3>2
  <2> QED BY <2>5, <2>7, <2>8
<1> HIDE DEF P
<1>3. \A t \in Text : t \in P  BY <1>1, <1>2, TextInd
<1> QED BY <1>3 DEF P

LEMMA ParaOfClean ==
  ASSUME NEW t \in Text
  PROVE  Clean(t) \in Text /\ Breaks(Clean(t)) <= Breaks(t) /\ Bad(Clean(t)) <= Bad(t)
<1>1. PICK u \in Text : Clean(t) = Strip(u) /\ (u = t \/ u = Unmarked(t))  BY ParaOfUnmarked DEF Clean, Unmarked
<1>2. Breaks(u) <= Breaks(t) /\ Bad(u) <= Bad(t) /\ Breaks(t) \in Nat /\ Bad(t) \in Nat
  <2>1. Breaks(t) \in Nat /\ Bad(t) \in Nat  BY ParaTypes
  <2>2. CASE u = t  BY <2>1, <2>2
  <2>3. CASE u = Unmarked(t)
    <3>1. Breaks(u) = Breaks(t) /\ Bad(u) <= Bad(t)  BY <2>3, ParaOfUnmarked
    <3> QED BY <2>1, <3>1
  <2> QED BY <1>1, <2>1, <2>2, <2>3
<1>3. PICK s \in Text : s = Strip(u)  BY StripParts DEF Trimmed
<1>4. PICK a, b \in Text : u = (a \o s) \o b  BY <1>3, StripParts
<1>5. PICK v \in Text : v = a \o s /\ u = v \o b
  <2>1. a \o s \in Text  BY Concats
  <2> QED BY <1>4, <2>1
<1>6. Breaks(v) = Breaks(a) + Breaks(s) /\ Bad(s) <= Bad(v)  BY <1>5, ParaOfParts
<1>7. Breaks(u) = Breaks(v) + Breaks(b) /\ Bad(v) <= Bad(u)  BY <1>5, ParaOfParts
<1>8. Breaks(a) \in Nat /\ Breaks(s) \in Nat /\ Breaks(b) \in Nat /\ Breaks(v) \in Nat /\ Breaks(u) \in Nat  BY ParaTypes
<1>9. Bad(s) \in Nat /\ Bad(v) \in Nat /\ Bad(u) \in Nat  BY ParaTypes
<1>10. Breaks(s) <= Breaks(t) /\ Bad(s) <= Bad(t)  BY <1>2, <1>6, <1>7, <1>8, <1>9
<1> QED BY <1>1, <1>3, <1>10

(* ---- lines that are wrapped again --------------------------------------- *)

\* A line is a paragraph that is not broken again, a word one without a blank.
Line == {t \in Text : Breaks(t) = 0 /\ Bad(t) = 0}
Word == {t \in Text : Breaks(t) = 0 /\ Blanks(t) = 0}
Setting == [lines : Seq(Line), line : Line, word : Word]

LEMMA EmptyText == <<>> \in Text /\ Len(<<>>) = 0
BY EmptySeq DEF Text

LEMMA AppendOfNone == \A c \in Char : Append(<<>>, c) = <<c>> /\ <<c>> \in Text
<1>1. \A c \in Char : Append(<<>>, c) = <<>> \o <<c>>  BY EmptySeq, AppendIsConcat
<1> QED BY <1>1, OneChar, Concats, EmptyText

LEMMA BlankPara == <<"_">> \in Text /\ Breaks(<<"_">>) = 0 /\ Len(<<"_">>) = 1
<1>1. "_" \in Char /\ "_" # "/"  BY DEF Char
<1>2. Append(<<>>, "_") = <<"_">> /\ <<"_">> \in Text  BY <1>1, AppendOfNone
<1>3. Breaks(Append(<<>>, "_")) = Breaks(<<>>)  BY <1>1, EmptyText, ParaSteps
<1> QED BY <1>2, <1>3, ParaOfNone

LEMMA BreakPara ==
  <<"/">> \in Text /\ Breaks(<<"/">>) = 1 /\ Run(<<"/">>) = 0 /\ Blanks(<<"/">>) = 0 /\ Bad(<<"/">>) = 0
<1>1. "/" \in Char  BY DEF Char
<1>2. Append(<<>>, "/") = <<"/">> /\ <<"/">> \in Text  BY <1>1, AppendOfNone
<1>3. /\ Breaks(Append(<<>>, "/")) = Breaks(<<>>) + 1 /\ Run(Append(<<>>, "/")) = 0
      /\ Blanks(Append(<<>>, "/")) = 0 /\ Bad(Append(<<>>, "/")) = Bad(<<>>)
  BY <1>1, EmptyText, ParaSteps
<1> QED BY <1>2, <1>3, ParaOfNone

LEMMA EmptyLine == <<>> \in Line /\ <<>> \in Word /\ Word \subseteq Line /\ Line \subseteq Text
<1>1. Word \subseteq Line  BY ParaShape DEF Word, Line
<1> QED BY <1>1, EmptyText, ParaOfNone DEF Word, Line

\* The blank between the line and the word.
Longer(t, d) == IF t = <<>> THEN d ELSE (t \o <<"_">>) \o d

LEMMA LongerFacts ==
  ASSUME NEW t \in Text, NEW d \in Text
  PROVE  /\ Longer(t, d) \in Text
         /\ t # <<>> => Breaks(Longer(t, d)) = Breaks(t) + Breaks(d) /\ Len(Longer(t, d)) = Len(t) + 1 + Len(d)
<1>1. CASE t = <<>>  BY <1>1 DEF Longer
<1>2. CASE t # <<>>
  <2>1. PICK u \in Text : u = t \o <<"_">>  BY BlankPara, Concats
  <2>2. Breaks(u) = Breaks(t) + 0 /\ Len(u) = Len(t) + 1
    <3>1. Breaks(t \o <<"_">>) = Breaks(t) + Breaks(<<"_">>)  BY BlankPara, ParaOfParts
    <3>2. Len(t \o <<"_">>) = Len(t) + Len(<<"_">>)  BY BlankPara, ConcatProperties DEF Text
    <3> QED BY <2>1, <3>1, <3>2, BlankPara
  <2>3. PICK v \in Text : v = u \o d  BY Concats
  <2>4. Breaks(v) = Breaks(u) + Breaks(d) /\ Len(v) = Len(u) + Len(d)
    <3>1. Breaks(u \o d) = Breaks(u) + Breaks(d)  BY ParaOfParts
    <3>2. Len(u \o d) = Len(u) + Len(d)  BY ConcatProperties DEF Text
    <3> QED BY <2>3, <3>1, <3>2
  <2>5. Longer(t, d) = v  BY <1>2, <2>1, <2>3 DEF Longer
  <2>6. Breaks(t) \in Nat  BY ParaTypes
  <2> QED BY <2>2, <2>4, <2>5, <2>6
<1> QED BY <1>1, <1>2

LEMMA EndWordBy ==
  ASSUME NEW w \in Wrapping
  PROVE  /\ w.word = <<>> => EndWord(w) = w
         /\ w.word # <<>> /\ Len(Longer(w.line, w.word)) <= LineWidth =>
              EndWord(w) = [lines |-> w.lines, line |-> Longer(w.line, w.word), word |-> <<>>]
         /\ w.word # <<>> /\ ~(Len(Longer(w.line, w.word)) <= LineWidth) =>
              EndWord(w) = [lines |-> IF w.line = <<>> THEN w.lines ELSE Append(w.lines, w.line),
                            line |-> w.word, word |-> <<>>]
<1>1. w = [lines |-> w.lines, line |-> w.line, word |-> w.word]  BY DEF Wrapping
<1>2. PICK l : l = Longer(w.line, w.word)  OBVIOUS
<1>3. l = IF w.line = <<>> THEN w.word ELSE w.line \o <<"_">> \o w.word  BY <1>2 DEF Longer
<1>4. PICK ls, t, d : ls = w.lines /\ t = w.line /\ d = w.word  OBVIOUS
<1>8. ls \in Seq(Text) /\ t \in Text /\ d \in Text /\ w = [lines |-> ls, line |-> t, word |-> d]  BY <1>4 DEF Wrapping
<1>9. l = IF t = <<>> THEN d ELSE (t \o <<"_">>) \o d  BY <1>2, <1>4 DEF Longer
<1>5. CASE w.word = <<>>  BY <1>5 DEF EndWord
<1>6. CASE w.word # <<>> /\ Len(l) <= LineWidth
  <2>1. EndWord(w) = [lines |-> ls, line |-> l, word |-> <<>>]  BY <1>4, <1>6, <1>8, <1>9 DEF EndWord
  <2> QED BY <1>2, <1>4, <1>6, <2>1
<1>7. CASE w.word # <<>> /\ ~(Len(l) <= LineWidth)
  <2>1. EndWord(w) = [lines |-> IF w.line = <<>> THEN w.lines ELSE Append(w.lines, w.line),
                      line |-> w.word, word |-> <<>>]
    BY <1>3, <1>7 DEF EndWord
  <2> QED BY <1>2, <1>7, <2>1
<1> QED BY <1>5, <1>6, <1>7

LEMMA EndWordSets ==
  ASSUME NEW w \in Setting
  PROVE  EndWord(w) \in Setting /\ EndWord(w).word = <<>>
<1>1. /\ w.lines \in Seq(Line) /\ w.line \in Line /\ w.word \in Word /\ w.line \in Text /\ w.word \in Text
      /\ w \in Wrapping
  <2>1. w.lines \in Seq(Line) /\ w.line \in Line /\ w.word \in Word  BY DEF Setting
  <2>2. w.lines \in Seq(Text) /\ w.line \in Text /\ w.word \in Text  BY <2>1, EmptyLine, SeqMonotonic DEF Word
  <2>3. w = [lines |-> w.lines, line |-> w.line, word |-> w.word]  BY DEF Setting
  <2> QED BY <2>1, <2>2, <2>3 DEF Wrapping
<1>2. PICK l : l = Longer(w.line, w.word)  OBVIOUS
<1>3. CASE w.word = <<>>  BY <1>1, <1>3, EndWordBy
<1>4. CASE w.word # <<>> /\ Len(l) <= LineWidth
  <2>1. EndWord(w) = [lines |-> w.lines, line |-> l, word |-> <<>>]  BY <1>1, <1>2, <1>4, EndWordBy
  <2>2. l \in Line
    <3>1. CASE w.line = <<>>
      <4>1. l = w.word  BY <1>2, <3>1 DEF Longer
      <4> QED BY <1>1, <4>1, EmptyLine
    <3>2. CASE w.line # <<>>
      <4>1. l \in Text /\ Breaks(l) = Breaks(w.line) + Breaks(w.word)  BY <1>1, <1>2, <3>2, LongerFacts
      <4>2. Breaks(w.line) = 0 /\ Breaks(w.word) = 0  BY <1>1 DEF Line, Word
      <4>3. Breaks(l) = 0  BY <4>1, <4>2
      <4>4. Bad(l) = 0  BY <1>4, <4>1, <4>3, ParaShape
      <4> QED BY <4>1, <4>3, <4>4 DEF Line
    <3> QED BY <3>1, <3>2
  <2> QED BY <1>1, <2>1, <2>2, EmptyLine DEF Setting
<1>5. CASE w.word # <<>> /\ ~(Len(l) <= LineWidth)
  <2>1. EndWord(w) = [lines |-> IF w.line = <<>> THEN w.lines ELSE Append(w.lines, w.line), line |-> w.word, word |-> <<>>]
    BY <1>1, <1>2, <1>5, EndWordBy
  <2>2. Append(w.lines, w.line) \in Seq(Line)  BY <1>1, AppendProperties
  <2>3. w.word \in Line  BY <1>1, EmptyLine
  <2> QED BY <1>1, <2>1, <2>2, <2>3, EmptyLine DEF Setting
<1> QED BY <1>3, <1>4, <1>5

LEMMA EndParagraphSets ==
  ASSUME NEW w \in Setting
  PROVE  EndParagraph(w) \in Setting
<1>1. PICK v \in Setting : v = EndWord(w)  BY EndWordSets
<1>2. EndParagraph(w) = [lines |-> Append(v.lines, v.line), line |-> <<>>, word |-> <<>>]  BY <1>1 DEF EndParagraph
<1>3. Append(v.lines, v.line) \in Seq(Line)  BY AppendProperties DEF Setting
<1> QED BY <1>2, <1>3, EmptyLine DEF Setting

LEMMA WrappedSets == \A t \in Text : Wrapped(t) \in Setting
<1> DEFINE P == {t \in Text : Wrapped(t) \in Setting}
<1>1. <<>> \in P
  <2>1. NoLines \in Setting  BY EmptyLine, EmptySeq DEF NoLines, Setting
  <2> QED BY <2>1, WrappedFold, EmptyText
<1>2. ASSUME NEW t \in Text, NEW c \in Char, t \in P PROVE Append(t, c) \in P
  <2>1. PICK w \in Setting : w = Wrapped(t)  BY <1>2
  <2>2. Wrapped(Append(t, c)) = Wrap(w, c) /\ Append(t, c) \in Text  BY <2>1, WrappedFold, ParaSteps DEF Text
  <2>3. CASE c = "/"
    <3>1. Wrap(w, c) = EndParagraph(w)  BY <2>3 DEF Wrap
    <3> QED BY <2>2, <3>1, EndParagraphSets
  <2>4. CASE c = "_"
    <3>1. Wrap(w, c) = EndWord(w)  BY <2>4 DEF Wrap
    <3> QED BY <2>2, <3>1, EndWordSets
  <2>5. CASE c # "/" /\ c # "_"
    <3>1. w.lines \in Seq(Line) /\ w.line \in Line /\ w.word \in Word /\ w.word \in Text  BY DEF Setting, Word
    <3>2. w = [lines |-> w.lines, line |-> w.line, word |-> w.word]  BY DEF Setting
    <3>3. Wrap(w, c) = [lines |-> w.lines, line |-> w.line, word |-> Append(w.word, c)]  BY <2>5, <3>2 DEF Wrap
    <3>4. /\ Append(w.word, c) \in Text /\ Breaks(Append(w.word, c)) = Breaks(w.word)
          /\ Blanks(Append(w.word, c)) = Blanks(w.word) + Gap(c)
      BY <2>5, <3>1, ParaSteps
    <3>5. Breaks(w.word) = 0 /\ Blanks(w.word) = 0 /\ Gap(c) = 0  BY <2>5, <3>1, GapType DEF Word
    <3>6. Append(w.word, c) \in Word  BY <3>4, <3>5 DEF Word
    <3>7. PICK ls \in Seq(Line), l \in Line, d \in Word : ls = w.lines /\ l = w.line /\ d = Append(w.word, c)  BY <3>1, <3>6
    <3>8. Wrap(w, c) = [lines |-> ls, line |-> l, word |-> d]  BY <3>3, <3>7
    <3>9. Wrap(w, c) \in Setting  BY <3>8 DEF Setting
    <3> QED BY <2>2, <3>9
  <2> QED BY <2>3, <2>4, <2>5
<1> HIDE DEF P
<1>3. \A t \in Text : t \in P  BY <1>1, <1>2, TextInd
<1> QED BY <1>3 DEF P

\* Text is set into such lines.
LEMMA LinesAreLines == ASSUME NEW t \in Text PROVE Lines(t) \in Seq(Line)
<1>1. CASE t = <<>>  BY <1>1, EmptySeq DEF Lines
<1>2. CASE t # <<>>
  <2>1. Lines(t) = EndParagraph(Wrapped(t)).lines  BY <1>2 DEF Lines
  <2> QED BY <2>1, WrappedSets, EndParagraphSets DEF Setting
<1> QED BY <1>1, <1>2

\* A text whose paragraphs fit has a line for each of them.
Tied(w, t) ==
  /\ Len(w.lines) = Breaks(t)
  /\ w.line = <<>> => Len(w.word) <= Run(t)
  /\ w.line # <<>> => Len(w.line) + 1 + Len(w.word) <= Run(t) /\ Blanks(t) > 0

LEMMA EndWordTied ==
  ASSUME NEW w \in Wrapping, NEW t \in Text, Bad(t) = 0, Tied(w, t)
  PROVE  Len(EndWord(w).lines) = Breaks(t) /\ Len(EndWord(w).line) <= Run(t) /\ EndWord(w).word = <<>>
<1>1. w.lines \in Seq(Text) /\ w.line \in Text /\ w.word \in Text  BY DEF Wrapping
<1>2. PICK l : l = Longer(w.line, w.word)  OBVIOUS
<1>3. Len(w.line) \in Nat /\ Len(w.word) \in Nat  BY <1>1, LenProperties DEF Text
<1>4. Run(t) \in Nat /\ Blanks(t) \in Nat  BY ParaTypes
<1>5. CASE w.line = <<>>
  <2>1. l = w.word /\ Len(w.word) <= Run(t) /\ Len(w.lines) = Breaks(t)  BY <1>2, <1>5 DEF Longer, Tied
  <2>2. EndWord(w).lines = w.lines /\ EndWord(w).line = w.word /\ EndWord(w).word = <<>>
    <3>1. CASE w.word = <<>>  BY <1>5, <3>1, EndWordBy
    <3>2. CASE w.word # <<>> /\ Len(l) <= LineWidth
      <4>1. EndWord(w) = [lines |-> w.lines, line |-> l, word |-> <<>>]  BY <1>2, <3>2, EndWordBy
      <4> QED BY <2>1, <4>1
    <3>3. CASE w.word # <<>> /\ ~(Len(l) <= LineWidth)
      <4>1. EndWord(w) = [lines |-> IF w.line = <<>> THEN w.lines ELSE Append(w.lines, w.line), line |-> w.word, word |-> <<>>]
        BY <1>2, <3>3, EndWordBy
      <4> QED BY <1>5, <4>1
    <3> QED BY <3>1, <3>2, <3>3
  <2> QED BY <2>1, <2>2
<1>6. CASE w.line # <<>>
  <2>1. Len(w.line) + 1 + Len(w.word) <= Run(t) /\ Blanks(t) > 0 /\ Len(w.lines) = Breaks(t)  BY <1>6 DEF Tied
  <2>2. Run(t) <= LineWidth
    <3>1. Run(t) <= LineWidth \/ Blanks(t) = 0  BY ParaShape
    <3> QED BY <1>4, <2>1, <3>1
  <2>3. Len(l) = Len(w.line) + 1 + Len(w.word)  BY <1>1, <1>2, <1>6, LongerFacts
  <2>a. PICK x \in Nat, y \in Nat, r \in Nat : x = Len(w.line) /\ y = Len(w.word) /\ r = Run(t)  BY <1>3, <1>4
  <2>b. x + 1 + y <= r /\ r <= LineWidth /\ Len(l) = x + 1 + y  BY <2>1, <2>2, <2>3, <2>a
  <2>c. x + 1 + y <= LineWidth /\ x <= r  BY <2>b, LineWidthType
  <2>4. Len(l) <= LineWidth /\ Len(l) <= Run(t) /\ Len(w.line) <= Run(t)  BY <2>a, <2>b, <2>c
  <2>5. CASE w.word = <<>>  BY <2>1, <2>4, <2>5, EndWordBy
  <2>6. CASE w.word # <<>>
    <3>1. EndWord(w) = [lines |-> w.lines, line |-> l, word |-> <<>>]  BY <1>2, <2>4, <2>6, EndWordBy
    <3> QED BY <2>1, <2>4, <3>1
  <2> QED BY <2>5, <2>6
<1> QED BY <1>5, <1>6

LEMMA WrappedTied == \A t \in Text : Bad(t) = 0 => Tied(Wrapped(t), t)
<1> DEFINE P == {t \in Text : Bad(t) = 0 => Tied(Wrapped(t), t)}
<1>1. <<>> \in P
  <2>1. Wrapped(<<>>) = NoLines  BY WrappedFold
  <2>2. Tied(NoLines, <<>>)  BY EmptyText, ParaOfNone DEF Tied, NoLines
  <2> QED BY <2>1, <2>2, EmptyText
<1>2. ASSUME NEW t \in Text, NEW c \in Char, t \in P PROVE Append(t, c) \in P
  <2>0. PICK t2 \in Text : t2 = Append(t, c)  BY ParaSteps
  <2>1. PICK w \in Wrapping : w = Wrapped(t)  BY WrappedInk
  <2>2. Wrapped(t2) = Wrap(w, c)  BY <2>0, <2>1, WrappedFold DEF Text
  <2>3. Breaks(t) \in Nat /\ Run(t) \in Nat /\ Blanks(t) \in Nat /\ Bad(t) \in Nat  BY ParaTypes
  <2>4. w.lines \in Seq(Text) /\ w.line \in Text /\ w.word \in Text  BY DEF Wrapping
  <2>5. SUFFICES ASSUME Bad(t2) = 0 PROVE Tied(Wrap(w, c), t2)  BY <2>0, <2>2
  <2>6. Bad(t) = 0
    <3>1. CASE c = "/"  BY <2>0, <2>5, <3>1, ParaSteps
    <3>2. CASE c # "/"
      <4>1. PICK g \in Nat : g = Gap(c)  BY GapType
      <4>2. Run(t) + 1 \in Nat /\ Blanks(t) + g \in Nat  BY <2>3
      <4>3. PICK o \in Nat : o = Over(Run(t) + 1, Blanks(t) + g)  BY <4>2, OverFacts
      <4>4. Bad(t2) = Bad(t) + o  BY <2>0, <3>2, <4>1, <4>3, ParaSteps
      <4> QED BY <2>3, <2>5, <4>4
    <3> QED BY <3>1, <3>2
  <2>7. Tied(w, t)  BY <1>2, <2>1, <2>6
  <2>8. PICK v \in Wrapping : v = EndWord(w)  BY EndWordInk
  <2>9. Len(v.lines) = Breaks(t) /\ Len(v.line) <= Run(t) /\ v.word = <<>>  BY <2>6, <2>7, <2>8, EndWordTied
  <2>10. v.lines \in Seq(Text) /\ v.line \in Text /\ Len(v.line) \in Nat  BY LenProperties DEF Wrapping, Text
  <2>11. CASE c = "/"
    <3>1. Wrap(w, c) = [lines |-> Append(v.lines, v.line), line |-> <<>>, word |-> <<>>]
      BY <2>8, <2>11 DEF Wrap, EndParagraph
    <3>2. Len(Append(v.lines, v.line)) = Len(v.lines) + 1  BY <2>10, AppendProperties
    <3>3. Breaks(t2) = Breaks(t) + 1 /\ Run(t2) = 0  BY <2>0, <2>11, ParaSteps
    <3>4. Len(Append(v.lines, v.line)) = Breaks(t2) /\ Len(<<>>) <= Run(t2)  BY <2>9, <3>2, <3>3, EmptyText
    <3> QED BY <3>1, <3>4 DEF Tied
  <2>12. CASE c = "_"
    <3>1. Wrap(w, c) = v  BY <2>8, <2>12 DEF Wrap
    <3>2. Breaks(t2) = Breaks(t) /\ Run(t2) = Run(t) + 1 /\ Blanks(t2) = Blanks(t) + Gap(c) /\ Gap(c) = 1
      BY <2>0, <2>12, ParaSteps, GapType
    <3>3. Len(v.word) = 0  BY <2>9, EmptyText
    <3>4. Len(v.word) <= Run(t2) /\ Len(v.line) + 1 + Len(v.word) <= Run(t2) /\ Blanks(t2) > 0
      BY <2>3, <2>9, <2>10, <3>2, <3>3
    <3> QED BY <2>9, <3>1, <3>2, <3>4 DEF Tied
  <2>13. CASE c # "/" /\ c # "_"
    <3>1. w = [lines |-> w.lines, line |-> w.line, word |-> w.word]  BY DEF Wrapping
    <3>2. Wrap(w, c) = [lines |-> w.lines, line |-> w.line, word |-> Append(w.word, c)]  BY <2>13, <3>1 DEF Wrap
    <3>3. Breaks(t2) = Breaks(t) /\ Run(t2) = Run(t) + 1 /\ Blanks(t2) = Blanks(t) + Gap(c) /\ Gap(c) = 0
      BY <2>0, <2>13, ParaSteps, GapType
    <3>4. Len(Append(w.word, c)) = Len(w.word) + 1 /\ Len(w.word) \in Nat /\ Len(w.line) \in Nat
      BY <2>4, AppendProperties, LenProperties DEF Text
    <3>5. Len(w.lines) = Breaks(t2)  BY <2>7, <3>3 DEF Tied
    <3>6. w.line = <<>> => Len(Append(w.word, c)) <= Run(t2)
      <4>1. w.line = <<>> => Len(w.word) <= Run(t)  BY <2>7 DEF Tied
      <4> QED BY <2>3, <3>3, <3>4, <4>1
    <3>7. w.line # <<>> => Len(w.line) + 1 + Len(Append(w.word, c)) <= Run(t2) /\ Blanks(t2) > 0
      <4>1. w.line # <<>> => Len(w.line) + 1 + Len(w.word) <= Run(t) /\ Blanks(t) > 0  BY <2>7 DEF Tied
      <4>2. ASSUME w.line # <<>> PROVE Len(w.line) + 1 + Len(w.word) <= Run(t) /\ Blanks(t) > 0  BY <4>1, <4>2
      <4>3. ASSUME w.line # <<>> PROVE Len(w.line) + 1 + Len(Append(w.word, c)) <= Run(t2) /\ Blanks(t2) > 0
        <5>1. PICK x \in Nat, y \in Nat, r \in Nat : x = Len(w.line) /\ y = Len(w.word) /\ r = Run(t)  BY <2>3, <3>4
        <5>2. x + 1 + y <= r  BY <4>2, <4>3, <5>1
        <5>3. Len(Append(w.word, c)) = y + 1 /\ Run(t2) = r + 1 /\ Blanks(t2) = Blanks(t) + 0  BY <3>3, <3>4, <5>1
        <5>4. x + 1 + (y + 1) <= r + 1  BY <5>2
        <5>5. Len(w.line) + 1 + Len(Append(w.word, c)) <= Run(t2)  BY <5>1, <5>3, <5>4
        <5>6. Blanks(t2) > 0
          <6>1. Blanks(t) > 0  BY <4>2, <4>3
          <6> QED BY <2>3, <5>3, <6>1
        <5> QED BY <5>5, <5>6
      <4> QED BY <4>3
    <3>8. Wrap(w, c).lines = w.lines /\ Wrap(w, c).line = w.line /\ Wrap(w, c).word = Append(w.word, c)  BY <3>2
    <3> QED BY <3>5, <3>6, <3>7, <3>8 DEF Tied
  <2> QED BY <2>11, <2>12, <2>13
<1> HIDE DEF P
<1>3. \A t \in Text : t \in P  BY <1>1, <1>2, TextInd
<1> QED BY <1>3 DEF P

\* A text has as many lines as paragraphs, when each of them fits.
LEMMA LinesCounted ==
  ASSUME NEW t \in Text, Bad(t) = 0, t # <<>>
  PROVE  Len(Lines(t)) = Breaks(t) + 1
<1>1. Lines(t) = EndParagraph(Wrapped(t)).lines  BY DEF Lines
<1>2. PICK w \in Wrapping : w = Wrapped(t)  BY WrappedInk
<1>3. PICK v \in Wrapping : v = EndWord(w)  BY EndWordInk
<1>4. Len(v.lines) = Breaks(t)  BY <1>2, <1>3, WrappedTied, EndWordTied
<1>5. EndParagraph(w).lines = Append(v.lines, v.line)  BY <1>3 DEF EndParagraph
<1>6. Len(Append(v.lines, v.line)) = Len(v.lines) + 1  BY AppendProperties DEF Wrapping
<1> QED BY <1>1, <1>2, <1>4, <1>5, <1>6

LEMMA UnwrappedPara ==
  \A ls \in Seq(Line) : /\ Unwrapped(ls) \in Text /\ Bad(Unwrapped(ls)) = 0
                        /\ Unwrapped(ls) # <<>> => Breaks(Unwrapped(ls)) + 1 <= Len(ls)
<1> DEFINE P == {ls \in Seq(Line) : /\ Unwrapped(ls) \in Text /\ Bad(Unwrapped(ls)) = 0
                                    /\ Unwrapped(ls) # <<>> => Breaks(Unwrapped(ls)) + 1 <= Len(ls)}
<1>1. <<>> \in P
  <2>1. Unwrapped(<<>>) = <<>> /\ <<>> \in Seq(Line)  BY UnwrappedFold, EmptySeq
  <2> QED BY <2>1, EmptyText, ParaOfNone
<1>2. ASSUME NEW ls \in Seq(Line), NEW l \in Line, ls \in P PROVE Append(ls, l) \in P
  <2>1. Append(ls, l) \in Seq(Line) /\ Len(Append(ls, l)) = Len(ls) + 1 /\ Len(ls) \in Nat
    BY AppendProperties, LenProperties
  <2>2. ls \in Seq(Text) /\ l \in Text /\ Breaks(l) = 0 /\ Bad(l) = 0  BY EmptyLine, SeqMonotonic DEF Line
  <2>3. PICK u \in Text : u = Unwrapped(ls)  BY <1>2
  <2>4. Bad(u) = 0 /\ (u # <<>> => Breaks(u) + 1 <= Len(ls))  BY <1>2, <2>3
  <2>5. Unwrapped(Append(ls, l)) = IF u = <<>> THEN l ELSE u \o <<"/">> \o l  BY <2>2, <2>3, UnwrappedFold
  <2>6. CASE u = <<>>
    <3>1. Unwrapped(Append(ls, l)) = l  BY <2>5, <2>6
    <3>2. Breaks(l) + 1 <= Len(Append(ls, l))  BY <2>1, <2>2
    <3> QED BY <2>1, <2>2, <3>1, <3>2
  <2>7. CASE u # <<>>
    <3>1. PICK v \in Text : v = u \o <<"/">>  BY BreakPara, Concats
    <3>2. "/" \in Char /\ <<"/">> \in Text  BY BreakPara DEF Char
    <3>3. v = Append(u, "/")  BY <3>1, <3>2, AppendIsConcat DEF Text
    <3>4. Breaks(v) = Breaks(u) + 1 /\ Run(v) = 0 /\ Blanks(v) = 0 /\ Bad(v) = 0  BY <2>4, <3>2, <3>3, ParaSteps
    <3>5. PICK x \in Text : x = v \o l  BY <2>2, Concats
    <3>6. Breaks(x) = Breaks(v) + Breaks(l) /\ Bad(x) = Bad(v) + Bad(l)  BY <2>2, <3>4, <3>5, ParaOfParts
    <3>7. Breaks(u) \in Nat  BY ParaTypes
    <3>8. Bad(x) = 0 /\ Breaks(x) + 1 <= Len(Append(ls, l))  BY <2>1, <2>2, <2>4, <2>7, <3>4, <3>6, <3>7
    <3>9. Unwrapped(Append(ls, l)) = x  BY <2>5, <2>7, <3>1, <3>5
    <3> QED BY <2>1, <3>8, <3>9
  <2> QED BY <2>6, <2>7
<1> HIDE DEF P
<1>3. \A ls \in Seq(Line) : ls \in P  BY <1>1, <1>2, SeqInd
<1> QED BY <1>3 DEF P

\* A card of lines is measured again when it is drawn: it has no more lines than it had.
LEMMA RewrapFacts ==
  ASSUME NEW ls \in Seq(Line)
  PROVE  /\ Unwrapped(ls) \in Text /\ Lines(Clean(Unwrapped(ls))) \in Seq(Text)
         /\ Len(Lines(Clean(Unwrapped(ls)))) <= Len(ls)
<1>1. PICK u \in Text : u = Unwrapped(ls)  BY UnwrappedPara
<1>2. Bad(u) = 0 /\ (u # <<>> => Breaks(u) + 1 <= Len(ls)) /\ Len(ls) \in Nat  BY <1>1, UnwrappedPara, LenProperties
<1>3. PICK c \in Text : c = Clean(u)  BY CleanType
<1>4. Breaks(c) <= Breaks(u) /\ Bad(c) <= Bad(u)  BY <1>3, ParaOfClean
<1>5. Breaks(c) \in Nat /\ Bad(c) \in Nat /\ Breaks(u) \in Nat  BY ParaTypes
<1>6. Bad(c) = 0  BY <1>2, <1>4, <1>5
<1>7. CASE c = <<>>
  <2>1. Lines(c) = <<>>  BY <1>7 DEF Lines
  <2> QED BY <1>1, <1>2, <1>3, <2>1, EmptyText, LinesType
<1>8. CASE c # <<>>
  <2>1. Len(Lines(c)) = Breaks(c) + 1  BY <1>6, <1>8, LinesCounted
  <2>2. u # <<>>
    <3>1. PICK x \in Text : c = Strip(x) /\ (x = u \/ x = Unmarked(u))  BY <1>3, ParaOfUnmarked DEF Clean, Unmarked
    <3>2. u = <<>> => Unmarked(u) = <<>>  BY OnlyFold DEF Unmarked
    <3>3. Strip(<<>>) = <<>>
      <4>1. Len(Strip(<<>>)) <= 0 /\ Strip(<<>>) \in Seq(Char)  BY EmptyText, StripParts DEF Trimmed, Text
      <4>2. Len(Strip(<<>>)) \in Nat  BY <4>1, LenProperties
      <4> QED BY <4>1, <4>2, EmptySeq
    <3> QED BY <1>8, <3>1, <3>2, <3>3
  <2>3. Breaks(c) + 1 <= Len(ls)  BY <1>2, <1>4, <1>5, <2>2
  <2> QED BY <1>1, <1>3, <2>1, <2>3, LinesType
<1> QED BY <1>7, <1>8

(* ---- walks along a sequence --------------------------------------------- *)

Pos == Nat \ {0}

\* A sequence from i on is its members up to k and the rest.
LEMMA CutSeq ==
  ASSUME NEW X, NEW t \in Seq(X), NEW i \in Pos, NEW k \in Nat, i <= k + 1, k <= Len(t)
  PROVE  /\ SubSeq(t, i, k) \in Seq(X) /\ Len(SubSeq(t, i, k)) = k - i + 1
         /\ SubSeq(t, k + 1, Len(t)) \in Seq(X) /\ SubSeq(t, i, Len(t)) \in Seq(X)
         /\ SubSeq(t, i, Len(t)) = SubSeq(t, i, k) \o SubSeq(t, k + 1, Len(t))
<1>1. Len(t) \in Nat /\ \A j \in 1..Len(t) : t[j] \in X  BY LenProperties, ElementOfSeq
<1>2. PICK n \in Nat : n = Len(t)  BY <1>1
<1>3. ASSUME NEW a \in Int, NEW b \in Int, a >= 1, b <= n, a <= b + 1
      PROVE  /\ SubSeq(t, a, b) \in Seq(X) /\ Len(SubSeq(t, a, b)) = b - a + 1
             /\ \A j \in 1..b-a+1 : SubSeq(t, a, b)[j] = t[a + j - 1]
  <2>1. \A j \in a..b : j \in 1..n  BY <1>3
  <2>2. \A j \in a..b : t[j] \in X  BY <1>1, <1>2, <2>1
  <2>3. /\ SubSeq(t, a, b) \in Seq(X) /\ Len(SubSeq(t, a, b)) = IF a <= b THEN b - a + 1 ELSE 0
        /\ \A j \in 1..b-a+1 : SubSeq(t, a, b)[j] = t[a + j - 1]
    BY <2>2, SubSeqProperties
  <2>4. ~(a <= b) => b - a + 1 = 0  BY <1>3
  <2> QED BY <2>3, <2>4
<1>4. i \in Int /\ k \in Int /\ k + 1 \in Int /\ i >= 1 /\ k <= n /\ k + 1 >= 1 /\ n <= n /\ k + 1 <= n + 1 /\ i <= n + 1
  <2>1. i \in Nat /\ i >= 1  BY DEF Pos
  <2>2. k <= n  BY <1>2
  <2> QED BY <1>2, <2>1, <2>2
<1>5. PICK a : a = SubSeq(t, i, k)  OBVIOUS
<1>6. a \in Seq(X) /\ Len(a) = k - i + 1 /\ \A j \in 1..k-i+1 : a[j] = t[i + j - 1]  BY <1>3, <1>4, <1>5
<1>7. PICK b : b = SubSeq(t, k + 1, n)  OBVIOUS
<1>8. b \in Seq(X) /\ Len(b) = n - (k + 1) + 1 /\ \A j \in 1..n-(k+1)+1 : b[j] = t[(k + 1) + j - 1]  BY <1>3, <1>4, <1>7
<1>9. PICK c : c = SubSeq(t, i, n)  OBVIOUS
<1>a. n \in Int /\ i \in Int /\ i >= 1 /\ n <= n /\ i <= n + 1  BY <1>4
<1>10. c \in Seq(X) /\ Len(c) = n - i + 1 /\ \A j \in 1..n-i+1 : c[j] = t[i + j - 1]  BY <1>3, <1>a, <1>9
<1>11. /\ a \o b \in Seq(X) /\ Len(a \o b) = Len(a) + Len(b)
       /\ \A j \in 1..Len(a)+Len(b) : (a \o b)[j] = IF j <= Len(a) THEN a[j] ELSE b[j - Len(a)]
  BY <1>6, <1>8, ConcatProperties
<1>12. PICK d \in Int : d = k - i + 1  BY <1>4
<1>13. Len(a \o b) = n - i + 1 /\ Len(a) = d /\ Len(a) + Len(b) = n - i + 1  BY <1>4, <1>6, <1>8, <1>11, <1>12
<1>14. ASSUME NEW j \in 1..n-i+1 PROVE (a \o b)[j] = c[j]
  <2>1. (a \o b)[j] = IF j <= d THEN a[j] ELSE b[j - d]  BY <1>11, <1>13
  <2>2. c[j] = t[i + j - 1]  BY <1>10
  <2>3. CASE j <= d
    <3>1. j \in 1..k-i+1  BY <1>4, <1>12, <2>3
    <3> QED BY <1>6, <2>1, <2>2, <2>3, <3>1
  <2>4. CASE ~(j <= d)
    <3>1. j - d \in 1..n-(k+1)+1 /\ (k + 1) + (j - d) - 1 = i + j - 1  BY <1>4, <1>12, <2>4
    <3> QED BY <1>8, <2>1, <2>2, <2>4, <3>1
  <2> QED BY <2>3, <2>4
<1>15. a \o b = c  BY <1>10, <1>11, <1>13, <1>14, SeqEqual
<1> QED BY <1>2, <1>5, <1>6, <1>7, <1>8, <1>9, <1>10, <1>15

LEMMA WholeSeq == ASSUME NEW X, NEW t \in Seq(X) PROVE SubSeq(t, 1, Len(t)) = t
<1>1. Len(t) \in Nat /\ \A j \in 1..Len(t) : t[j] \in X  BY LenProperties, ElementOfSeq
<1>2. PICK n \in Nat : n = Len(t)  BY <1>1
<1>3. 1 \in Int /\ n \in Int /\ n - 1 + 1 = n /\ \A j \in 1..n : 1 + j - 1 = j  BY <1>2
<1>4. /\ SubSeq(t, 1, n) \in Seq(X) /\ Len(SubSeq(t, 1, n)) = IF 1 <= n THEN n - 1 + 1 ELSE 0
      /\ \A j \in 1..n-1+1 : SubSeq(t, 1, n)[j] = t[1 + j - 1]
  BY <1>1, <1>2, <1>3, SubSeqProperties
<1>5. Len(SubSeq(t, 1, n)) = n  BY <1>4
<1>6. \A j \in 1..n : SubSeq(t, 1, n)[j] = t[j]  BY <1>3, <1>4
<1> QED BY <1>2, <1>4, <1>5, <1>6, SeqEqual

LEMMA NoSeq == ASSUME NEW X, NEW t \in Seq(X), NEW i \in Pos, i > Len(t) PROVE SubSeq(t, i, Len(t)) = <<>>
<1>1. Len(t) \in Int /\ i \in Int /\ Len(t) < i
  <2>1. Len(t) \in Nat  BY LenProperties
  <2>2. i \in Nat  BY DEF Pos
  <2> QED BY <2>1, <2>2
<1> QED BY <1>1, SubSeqEmpty

\* A recursive function that goes along a sequence: one value at each stop.
Walk(item, next, X) == item \in [Pos -> X] /\ next \in [Pos -> Pos] /\ \A i \in Pos : next[i] > i

Walks(f, item, next, n) == \A i \in Pos : f[i] = IF i > n THEN <<>> ELSE <<item[i]>> \o f[next[i]]

\* There is one, and what it gives is a sequence.
LEMMA WalkExists ==
  ASSUME NEW X, NEW n \in Nat, NEW item, NEW next, Walk(item, next, X)
  PROVE  \E g \in [Pos -> Seq(X)] : Walks(g, item, next, n)
<1> DEFINE V == Seq(X)
           rank == [i \in Pos |-> IF i > n THEN 0 ELSE n + 1 - i]
           stop == {i \in Pos : i > n}
           base == [i \in Pos |-> <<>>]
           step == [p \in Pos \X V |-> <<item[p[1]]>> \o p[2]]
<1>0. item \in [Pos -> X] /\ next \in [Pos -> Pos] /\ \A i \in Pos : next[i] \in Pos /\ next[i] > i  BY DEF Walk
<1>1. rank \in [Pos -> Nat]  BY DEF Pos
<1>2. base \in [Pos -> V]  BY EmptySeq
<1>3. step \in [Pos \X V -> V]
  <2>1. ASSUME NEW i \in Pos, NEW q \in V PROVE <<item[i]>> \o q \in V
    <3>1. <<item[i]>> \in Seq(X)  BY <1>0, OneOf
    <3> QED BY <3>1, ConcatProperties
  <2> HIDE DEF V
  <2> QED BY <2>1
<1>4. ASSUME NEW i \in Pos, i \notin stop PROVE rank[next[i]] < rank[i]
  <2>1. PICK k \in Pos : k = next[i] /\ k > i  BY <1>0
  <2>2. ~(i > n)  BY <1>4
  <2>3. rank[i] = n + 1 - i /\ rank[k] = IF k > n THEN 0 ELSE n + 1 - k  BY <2>2
  <2>4. i \in Nat /\ k \in Nat  BY DEF Pos
  <2> HIDE DEF rank
  <2> QED BY <2>1, <2>2, <2>3, <2>4
<1>5. \A i \in Pos, q \in V : step[<<i, q>>] = <<item[i]>> \o q  OBVIOUS
<1>6. \A i \in Pos : base[i] = <<>> /\ (i \in stop <=> i > n)  OBVIOUS
<1> HIDE DEF V, rank, stop, base, step
<1>7. Recursion(Pos, V, rank, stop, base, next, step)  BY <1>0, <1>1, <1>2, <1>3, <1>4 DEF Recursion
<1>8. PICK g : Recurses(g, Pos, V, stop, base, next, step)  BY <1>7, RecursionEnds
<1>9. g \in [Pos -> V]  BY <1>8 DEF Recurses
<1>10. ASSUME NEW i \in Pos PROVE g[i] = IF i > n THEN <<>> ELSE <<item[i]>> \o g[next[i]]
  <2>1. g[i] = IF i \in stop THEN base[i] ELSE step[<<i, g[next[i]]>>]  BY <1>8 DEF Recurses
  <2>2. g[next[i]] \in V  BY <1>0, <1>9
  <2> QED BY <1>5, <1>6, <2>1, <2>2
<1> QED BY <1>9, <1>10 DEF Walks, V

\* From the end of the sequence back to its start.
LEMMA WalkInd ==
  ASSUME NEW n \in Nat, NEW next \in [Pos -> Pos], \A i \in Pos : next[i] > i, NEW P,
         \A i \in Pos : i > n => i \in P,
         \A i \in Pos : i <= n /\ next[i] \in P => i \in P
  PROVE  \A i \in Pos : i \in P
<1> DEFINE S == {k \in Nat : \A i \in Pos : i + k > n => i \in P}
<1>0. Pos \subseteq Nat  BY DEF Pos
<1>1. 0 \in S
  <2>1. \A i \in Pos : i + 0 = i  BY <1>0
  <2> QED BY <2>1
<1>2. ASSUME NEW k \in Nat, k \in S PROVE k + 1 \in S
  <2>1. ASSUME NEW i \in Pos, i + (k + 1) > n PROVE i \in P
    <3>1. CASE i > n  BY <3>1
    <3>2. CASE ~(i > n)
      <4>1. i \in Nat /\ next[i] \in Pos /\ next[i] \in Nat /\ next[i] > i  BY <1>0
      <4>2. next[i] + k > n /\ i <= n  BY <2>1, <3>2, <4>1
      <4>3. next[i] \in P  BY <1>2, <4>1, <4>2
      <4> QED BY <4>2, <4>3
    <3> QED BY <3>1, <3>2
  <2> QED BY <2>1
<1> HIDE DEF S
<1>3. S = Nat
  <2>1. S \subseteq Nat  BY DEF S
  <2> QED BY <1>1, <1>2, <2>1, NatInd
<1>4. ASSUME NEW i \in Pos PROVE i \in P
  <2>1. i \in Nat /\ i >= 1 /\ i + n > n  BY DEF Pos
  <2> QED BY <1>3, <2>1 DEF S
<1> QED BY <1>4

(* ---- chunks that fit a card --------------------------------------------- *)

LEMMA MinOfTwo == ASSUME NEW a \in Int, NEW b \in Int PROVE Min({a, b}) = IF a <= b THEN a ELSE b
<1>1. PICK m : m = IF a <= b THEN a ELSE b  OBVIOUS
<1>2. m \in {a, b} /\ \A y \in {a, b} : m <= y  BY <1>1
<1>3. \A x \in {a, b} : (\A y \in {a, b} : x <= y) => x = m  BY <1>1
<1>4. Min({a, b}) = CHOOSE x \in {a, b} : \A y \in {a, b} : x <= y  BY DEF Min
<1>5. Min({a, b}) \in {a, b} /\ \A y \in {a, b} : Min({a, b}) <= y  BY <1>2, <1>4
<1> QED BY <1>1, <1>3, <1>5

\* The lines of card i under a heading of h lines; the bodies that fit.
Room(h, i) == IF i = 1 THEN Budget - h ELSE Budget
Low(size) == {t \in Text : Len(Lines(Clean(t))) <= size}

\* A card starts at line i.
Card(ls, h, i) == SubSeq(ls, i, Min({Len(ls), (i + Budget - (IF i = 1 THEN h ELSE 0)) - 1}))

LEMMA CardFacts ==
  ASSUME NEW ls \in Seq(Line), NEW h \in Nat, h < Budget, NEW i \in Pos, NEW next,
         next = i + Budget - (IF i = 1 THEN h ELSE 0)
  PROVE  /\ next \in Pos /\ next > i
         /\ i <= Len(ls) => /\ Card(ls, h, i) \in Seq(Line) /\ Unwrapped(Card(ls, h, i)) \in Low(Room(h, i))
                            /\ SubSeq(ls, i, Len(ls)) = Card(ls, h, i) \o SubSeq(ls, next, Len(ls))
<1>0. i \in Nat /\ i >= 1 /\ Budget \in Nat  BY LineWidthType DEF Pos
<1>1. PICK r \in Nat : r = Room(h, i) /\ r >= 1 /\ next = i + r
  <2>1. CASE i = 1  BY <1>0, <2>1 DEF Room
  <2>2. CASE i # 1
    <3>1. next = i + Budget  BY <1>0, <2>2
    <3> QED BY <1>0, <2>2, <3>1, LineWidthType DEF Room
  <2> QED BY <2>1, <2>2
<1>2. next \in Pos /\ next > i  BY <1>0, <1>1 DEF Pos
<1>3. ASSUME i <= Len(ls)
      PROVE  /\ Card(ls, h, i) \in Seq(Line) /\ Unwrapped(Card(ls, h, i)) \in Low(Room(h, i))
             /\ SubSeq(ls, i, Len(ls)) = Card(ls, h, i) \o SubSeq(ls, next, Len(ls))
  <2>1. PICK n \in Nat : n = Len(ls)  BY LenProperties
  <2>2. PICK k : k = Min({n, next - 1})  OBVIOUS
  <2>3. k = IF n <= next - 1 THEN n ELSE next - 1
    <3>1. n \in Int /\ next - 1 \in Int  BY <1>0, <1>1
    <3> QED BY <2>2, <3>1, MinOfTwo
  <2>a. i <= n /\ i \in Nat /\ i >= 1  BY <1>0, <1>3, <2>1
  <2>b. r \in Nat /\ r >= 1 /\ next = i + r  BY <1>1
  <2>4. k \in Nat /\ i <= k + 1 /\ k <= n /\ k - i + 1 <= r /\ i <= n
    <3>1. CASE n <= next - 1
      <4>1. k = n  BY <2>3, <3>1
      <4> QED BY <2>a, <2>b, <3>1, <4>1
    <3>2. CASE ~(n <= next - 1)
      <4>1. k = next - 1  BY <2>3, <3>2
      <4> QED BY <2>a, <2>b, <3>2, <4>1
    <3> QED BY <3>1, <3>2
  <2>5. PICK c : c = SubSeq(ls, i, k)  OBVIOUS
  <2>6. Card(ls, h, i) = c  BY <2>1, <2>2, <2>5 DEF Card
  <2>7. c \in Seq(Line) /\ Len(c) = k - i + 1 /\ SubSeq(ls, i, n) = c \o SubSeq(ls, k + 1, n)
    BY <2>1, <2>4, <2>5, CutSeq, ZenonT(60)
  <2>8. SubSeq(ls, k + 1, n) = SubSeq(ls, next, n)
    <3>1. CASE n <= next - 1
      <4>1. k + 1 \in Pos /\ k + 1 > n /\ next > n  BY <1>0, <1>1, <2>3, <2>4, <3>1, SMTT(60) DEF Pos
      <4>2. SubSeq(ls, k + 1, n) = <<>> /\ SubSeq(ls, next, n) = <<>>  BY <1>2, <2>1, <4>1, NoSeq
      <4> QED BY <4>2
    <3>2. CASE ~(n <= next - 1)
      <4>1. k + 1 = next  BY <1>0, <1>1, <2>3, <3>2
      <4> QED BY <4>1
    <3> QED BY <3>1, <3>2
  <2>9. Unwrapped(c) \in Low(r)
    <3>1. Unwrapped(c) \in Text /\ Lines(Clean(Unwrapped(c))) \in Seq(Text) /\ Len(Lines(Clean(Unwrapped(c)))) <= Len(c)
      BY <2>7, RewrapFacts
    <3>2. PICK x \in Nat : x = Len(Lines(Clean(Unwrapped(c))))  BY <3>1, LenProperties
    <3>3. x <= k - i + 1  BY <2>7, <3>1, <3>2
    <3>4. x <= r  BY <1>0, <1>1, <2>4, <3>3
    <3> QED BY <3>1, <3>2, <3>4 DEF Low
  <2> QED BY <1>1, <2>1, <2>6, <2>7, <2>8, <2>9
<1> QED BY <1>2, <1>3

\* The texts of the cards of a body, each with room on its card.
Fitted(r, h) ==
  /\ r \in Seq(Text)
  /\ \A j \in DOMAIN r : r[j] \in Low(Room(h, j))

(* A body is cut into cards that fit when they are measured again, and keeps    *)
(* its ink.                                                                     *)
LEMMA SplitPixelsFacts ==
  ASSUME NEW body \in Text, NEW heading \in Text, Len(Lines(heading)) < Budget
  PROVE  /\ Fitted(SplitByPixels(body, heading), Len(Lines(heading)))
         /\ InkOf(SplitByPixels(body, heading)) = Ink(body)
         /\ SplitByPixels(body, heading) = <<>> <=> body = <<>>
<1> DEFINE ls == Lines(body)
           h == Len(Lines(heading))
           n == Len(ls)
           Skip(i) == i + Budget - (IF i = 1 THEN h ELSE 0)
           Body(f) == [i \in Nat \ {0} |-> IF i > n THEN <<>> ELSE <<Unwrapped(Card(ls, h, i))>> \o f[Skip(i)]]
           item == [i \in Pos |-> IF i > n THEN <<>> ELSE Unwrapped(Card(ls, h, i))]
           next == [i \in Pos |-> Skip(i)]
           f == CHOOSE g : g = Body(g)
<1>1. ls \in Seq(Line) /\ ls \in Seq(Text) /\ n \in Nat /\ h \in Nat /\ h < Budget
  BY LinesAreLines, LinesType, LenProperties
<1>2. SplitByPixels(body, heading) = f[1]  BY DEF SplitByPixels, Card
<1> HIDE DEF ls, h, n
<1>3. ASSUME NEW i \in Pos
      PROVE  /\ Skip(i) \in Pos /\ Skip(i) > i
             /\ i <= n => /\ Card(ls, h, i) \in Seq(Line) /\ Unwrapped(Card(ls, h, i)) \in Low(Room(h, i))
                          /\ SubSeq(ls, i, n) = Card(ls, h, i) \o SubSeq(ls, Skip(i), n)
  <2>1. PICK x : x = Skip(i)  OBVIOUS
  <2>2. /\ x \in Pos /\ x > i
        /\ i <= n => /\ Card(ls, h, i) \in Seq(Line) /\ Unwrapped(Card(ls, h, i)) \in Low(Room(h, i))
                     /\ SubSeq(ls, i, n) = Card(ls, h, i) \o SubSeq(ls, x, n)
    BY <1>1, <2>1, CardFacts, ZenonT(60) DEF n
  <2> QED BY <2>1, <2>2
<1> HIDE DEF Skip
<1>4. next \in [Pos -> Pos] /\ \A i \in Pos : next[i] > i /\ next[i] = Skip(i)  BY <1>3
<1>5. item \in [Pos -> Text] /\ \A i \in Pos : i <= n => item[i] = Unwrapped(Card(ls, h, i))
  <2>1. \A i \in Pos : ~(i > n) <=> i <= n  BY <1>1 DEF Pos
  <2>2. \A i \in Pos : i <= n => Unwrapped(Card(ls, h, i)) \in Text  BY <1>3 DEF Low
  <2> QED BY <2>1, <2>2, EmptyText
<1>6. Walk(item, next, Text)  BY <1>4, <1>5 DEF Walk
<1>7. \A i \in Pos : ~(i > n) <=> i <= n  BY <1>1 DEF Pos
<1>8. \E g : g = Body(g)
  <2>1. PICK g \in [Pos -> Seq(Text)] : Walks(g, item, next, n)  BY <1>1, <1>6, WalkExists
  <2>2. \A i \in Pos : g[i] = IF i > n THEN <<>> ELSE <<Unwrapped(Card(ls, h, i))>> \o g[Skip(i)]
    <3> HIDE DEF item, next
    <3> QED BY <1>4, <1>5, <1>7, <2>1 DEF Walks
  <2>3. g = Body(g)  BY <2>2 DEF Pos
  <2> QED BY <2>3
<1>9. f = Body(f)
  <2> HIDE DEF Body
  <2> QED BY <1>8
<1> HIDE DEF f
<1>10. \A i \in Pos : f[i] = IF i > n THEN <<>> ELSE <<Unwrapped(Card(ls, h, i))>> \o f[Skip(i)]  BY <1>9 DEF Pos
<1> HIDE DEF Body, item, next
<1> DEFINE P == {i \in Pos : /\ f[i] \in Seq(Text) /\ InkOf(f[i]) = InkOf(SubSeq(ls, i, n)) /\ (f[i] = <<>> <=> i > n)
                             /\ i > 1 => f[i] \in Seq(Low(Budget))}
<1>11. ASSUME NEW i \in Pos, i > n PROVE i \in P
  <2>1. f[i] = <<>>  BY <1>10, <1>11
  <2>2. SubSeq(ls, i, n) = <<>>  BY <1>1, <1>11, NoSeq DEF n
  <2> QED BY <1>11, <2>1, <2>2, EmptySeq
<1>12. ASSUME NEW i \in Pos, i <= n, next[i] \in P PROVE i \in P
  <2>1. PICK c, j, r : c = Card(ls, h, i) /\ j = Skip(i) /\ r = f[j]  OBVIOUS
  <2>2. j = next[i] /\ j > i /\ j \in Pos /\ i >= 1  BY <1>3, <1>4, <2>1 DEF Pos
  <2>3. r \in Seq(Text) /\ InkOf(r) = InkOf(SubSeq(ls, j, n)) /\ (j > 1 => r \in Seq(Low(Budget)))  BY <1>12, <2>1, <2>2
  <2>4. c \in Seq(Line) /\ Unwrapped(c) \in Low(Room(h, i)) /\ SubSeq(ls, i, n) = c \o SubSeq(ls, j, n)
    BY <1>3, <1>12, <2>1
  <2>5. c \in Seq(Text) /\ Unwrapped(c) \in Text  BY <2>4, EmptyLine, SeqMonotonic DEF Low
  <2>6. PICK u \in Text : u = Unwrapped(c)  BY <2>5
  <2>7. f[i] = <<u>> \o r  BY <1>7, <1>10, <1>12, <2>1, <2>6
  <2>8. <<u>> \in Seq(Text) /\ Len(<<u>>) = 1  BY OneOf
  <2>9. f[i] \in Seq(Text) /\ f[i] # <<>>
    <3>1. f[i] \in Seq(Text) /\ Len(f[i]) = 1 + Len(r) /\ Len(r) \in Nat  BY <2>3, <2>7, <2>8, ConcatProperties, LenProperties
    <3>2. Len(f[i]) # 0  BY <3>1
    <3> QED BY <3>1, <3>2, EmptySeq
  <2>10. InkOf(f[i]) = Ink(u) \o InkOf(r)
    <3>1. InkOf(<<u>> \o r) = InkOf(<<u>>) \o InkOf(r)  BY <2>3, <2>8, InkOfConcat
    <3> QED BY <2>7, <3>1, InkOfOne
  <2>11. InkOf(SubSeq(ls, i, n)) = InkOf(c) \o InkOf(SubSeq(ls, j, n))
    <3>1. SubSeq(ls, j, n) \in Seq(Text)
      <4>1. CASE j > n
        <5>1. SubSeq(ls, j, n) = <<>>  BY <1>1, <2>2, <4>1, NoSeq DEF n
        <5> QED BY <5>1, EmptySeq
      <4>2. CASE ~(j > n)
        <5>1. j <= n + 1 /\ n <= n /\ j \in Nat  BY <1>1, <2>2, <4>2 DEF Pos
        <5> QED BY <1>1, <2>2, <5>1, CutSeq DEF n
      <4> QED BY <4>1, <4>2
    <3> QED BY <2>4, <2>5, <3>1, InkOfConcat
  <2>12. Ink(u) = InkOf(c)  BY <2>5, <2>6, UnwrappedInk
  <2>13. i > 1 => f[i] \in Seq(Low(Budget))
    <3>1. SUFFICES ASSUME i > 1 PROVE f[i] \in Seq(Low(Budget))  OBVIOUS
    <3>2. i # 1 /\ j > 1  BY <2>2, <3>1 DEF Pos
    <3>3. u \in Low(Budget)  BY <2>4, <2>6, <3>2 DEF Room
    <3>4. <<u>> \in Seq(Low(Budget))  BY <3>3, OneOf
    <3> QED BY <2>3, <2>7, <3>2, <3>4, ConcatProperties
  <2> QED BY <1>7, <1>12, <2>3, <2>9, <2>10, <2>11, <2>12, <2>13
<1> HIDE DEF P
<1>13. \A i \in Pos : i \in P  BY <1>1, <1>4, <1>11, <1>12, WalkInd
<1>14. 1 \in Pos  BY DEF Pos
<1>15. f[1] \in Seq(Text) /\ InkOf(f[1]) = InkOf(SubSeq(ls, 1, n)) /\ (f[1] = <<>> <=> 1 > n)  BY <1>13, <1>14 DEF P
<1>16. InkOf(SubSeq(ls, 1, n)) = Ink(body)
  <2>1. SubSeq(ls, 1, n) = ls  BY <1>1, WholeSeq DEF n
  <2> QED BY <2>1, LinesInk DEF ls
<1>17. 1 > n <=> body = <<>>
  <2>1. 1 > n <=> ls = <<>>
    <3>1. ls = <<>> <=> n = 0  BY <1>1, EmptySeq DEF n
    <3> QED BY <1>1, <3>1
  <2> QED BY <2>1, LinesInk DEF ls
<1>18. \A j \in DOMAIN f[1] : f[1][j] \in Low(Room(h, j))
  <2>1. CASE 1 > n
    <3>1. f[1] = <<>>  BY <1>15, <2>1
    <3>2. DOMAIN f[1] = 1..0  BY <3>1
    <3> QED BY <3>2
  <2>2. CASE ~(1 > n)
    <3>1. PICK c, j, r : c = Card(ls, h, 1) /\ j = Skip(1) /\ r = f[j]  OBVIOUS
    <3>2. 1 <= n  BY <1>7, <1>14, <2>2
    <3>3. j \in Pos /\ j > 1 /\ Unwrapped(c) \in Low(Room(h, 1))  BY <1>3, <1>14, <3>1, <3>2
    <3>4. PICK u : u = Unwrapped(c)  OBVIOUS
    <3>5. u \in Low(Room(h, 1)) /\ u \in Text  BY <3>3, <3>4 DEF Low
    <3>6. r \in Seq(Low(Budget)) /\ r \in Seq(Text)  BY <1>13, <3>1, <3>3 DEF P
    <3>7. f[1] = <<u>> \o r  BY <1>10, <1>14, <2>2, <3>1, <3>4
    <3>8. <<u>> \in Seq(Text) /\ Len(<<u>>) = 1 /\ <<u>>[1] = u  BY <3>5, OneOf
    <3>9. /\ Len(f[1]) = 1 + Len(r) /\ Len(r) \in Nat /\ DOMAIN f[1] = 1..Len(f[1])
          /\ \A k \in 1..1+Len(r) : f[1][k] = IF k <= 1 THEN <<u>>[k] ELSE r[k - 1]
      BY <3>6, <3>7, <3>8, ConcatProperties, LenProperties, <1>15
    <3>10. ASSUME NEW k \in 1..1+Len(r) PROVE f[1][k] \in Low(Room(h, k))
      <4>1. CASE k = 1
        <5>1. f[1][k] = u  BY <3>8, <3>9, <4>1
        <5> QED BY <3>5, <4>1, <5>1
      <4>2. CASE k # 1
        <5>1. k - 1 \in 1..Len(r) /\ ~(k <= 1)  BY <3>9, <4>2
        <5>2. r[k - 1] \in Low(Budget)  BY <3>6, <5>1, ElementOfSeq
        <5>3. f[1][k] = r[k - 1]  BY <3>9, <5>1
        <5> QED BY <4>2, <5>2, <5>3 DEF Room
      <4> QED BY <4>1, <4>2
    <3> QED BY <3>9, <3>10
  <2> QED BY <2>1, <2>2
<1> QED BY <1>2, <1>15, <1>16, <1>17, <1>18 DEF Fitted, h

LEMMA CleanOfBlank == ASSUME NEW t \in Text, Strip(t) = <<>> PROVE Clean(t) = <<>>
<1>1. Blank(t)  BY StripParts
<1>2. \A i \in DOMAIN t : t[i] # "*"  BY <1>1 DEF Blank, White
<1>3. {i \in DOMAIN t : t[i] = "*"} = {}  BY <1>2
<1> QED BY <1>3 DEF Clean

\* What a section is made of.
LEMMA SectionParts ==
  ASSUME NEW s \in Section
  PROVE  /\ s.heading \in Text /\ s.body \in Text /\ Len(s.heading) \in Nat /\ Len(s.body) \in Nat
         /\ Lines(s.heading) \in Seq(Text) /\ Lines(Clean(s.body)) \in Seq(Text)
         /\ Len(Lines(s.heading)) \in Nat /\ Len(Lines(Clean(s.body))) \in Nat
         /\ SectionLines(s) \in Seq(Text) /\ Len(SectionLines(s)) = Len(Lines(s.heading)) + Len(Lines(Clean(s.body)))
         /\ Chars(s) = Len(s.heading) + Len(s.body)
<1>1. s.heading \in Text /\ s.body \in Text  BY DEF Section
<1>2. Lines(s.heading) \in Seq(Text) /\ Lines(Clean(s.body)) \in Seq(Text)  BY <1>1, CleanType, LinesType
<1>3. Len(SectionLines(s)) = Len(Lines(s.heading)) + Len(Lines(Clean(s.body)))  BY <1>2, ConcatProperties DEF SectionLines
<1> QED BY <1>1, <1>2, <1>3, LenProperties, SectionLinesType DEF Text, Chars

\* A section that is too high is cut by lines, or by sentences.
LEMMA ChunksByPixelsFacts ==
  ASSUME NEW s, Titled(s), NEW splits \in BOOLEAN, Len(SectionLines(s)) > Budget
  PROVE  /\ ChunksByPixels(s, splits) \in Seq(Text)
         /\ InkOf(ChunksByPixels(s, splits)) = Ink(s.body)
         /\ splits => Fitted(ChunksByPixels(s, splits), Len(Lines(s.heading)))
         /\ ~splits => Chunks(ChunksByPixels(s, splits), MaxChars - Len(s.heading))
         /\ ChunksByPixels(s, splits) = <<>> <=> Strip(s.body) = <<>> /\ Chars(s) > MaxChars
<1>1. s \in Section /\ Len(s.heading) < MaxChars /\ Len(Lines(s.heading)) < Budget  BY DEF Titled
<1>2. /\ s.heading \in Text /\ s.body \in Text /\ Len(s.heading) \in Nat /\ Len(s.body) \in Nat
      /\ Len(Lines(s.heading)) \in Nat /\ Len(Lines(Clean(s.body))) \in Nat
      /\ Len(SectionLines(s)) = Len(Lines(s.heading)) + Len(Lines(Clean(s.body)))
      /\ Chars(s) = Len(s.heading) + Len(s.body)
  BY <1>1, SectionParts
<1>3. PICK c \in Text : c = Clean(s.body)  BY <1>2, CleanType
<1>4. c # <<>>
  <2>1. Len(Lines(c)) > 0  BY <1>1, <1>2, <1>3, LineWidthType
  <2>2. Lines(<<>>) = <<>>  BY DEF Lines
  <2> QED BY <2>1, <2>2, EmptyText
<1>5. Ink(c) = Ink(s.body)  BY <1>2, <1>3, InkOfClean
<1>6. Strip(s.body) # <<>>  BY <1>2, <1>3, <1>4, CleanOfBlank
<1>7. PICK r : r = SplitByPixels(c, s.heading)  OBVIOUS
<1>8. Fitted(r, Len(Lines(s.heading))) /\ InkOf(r) = Ink(c) /\ r # <<>>  BY <1>1, <1>2, <1>4, <1>7, SplitPixelsFacts
<1>9. CASE splits
  <2>1. ChunksByPixels(s, splits) = r  BY <1>3, <1>7, <1>8, <1>9 DEF ChunksByPixels
  <2> QED BY <1>5, <1>6, <1>8, <1>9, <2>1 DEF Fitted
<1>10. CASE ~splits
  <2>a. MaxChars \in Nat /\ Len(s.heading) \in Nat /\ Len(s.heading) < MaxChars  BY <1>1, <1>2, LineWidthType
  <2>b. MaxChars - Len(s.heading) \in Nat \ {0}  BY <2>a
  <2>1. PICK size \in Nat \ {0} : size = MaxChars - Len(s.heading)  BY <2>b
  <2>2. ChunksByPixels(s, splits) = SplitLongBody(s.body, size)  BY <1>10, <2>1 DEF ChunksByPixels
  <2>3. /\ Chunks(SplitLongBody(s.body, size), size) /\ InkOf(SplitLongBody(s.body, size)) = Ink(s.body)
        /\ SplitLongBody(s.body, size) = <<>> <=> Len(s.body) > size /\ Strip(s.body) = <<>>
    BY <1>2, SplitLongFacts
  <2> QED BY <1>6, <1>10, <2>1, <2>2, <2>3 DEF Chunks
<1> QED BY <1>9, <1>10
=============================================================================
