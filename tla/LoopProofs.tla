----------------------------- MODULE LoopProofs ------------------------------
(***************************************************************************)
(* Loops over sequences, as recursive functions on the positions: that     *)
(* they exist, what holds after each turn, and what the loop of Select     *)
(* comes to.  Induction is over sets of naturals.                          *)
(***************************************************************************)
EXTENDS Subsequence, SequencesExt, FiniteSetTheorems, WellFoundedInduction, TLAPS

-----------------------------------------------------------------------------
(* Induction, over sets of naturals *)

LEMMA Least ==
    ASSUME NEW T \in SUBSET Nat, T # {}
    PROVE  \E x \in T : \A y \in T : x <= y
  <1> DEFINE R == OpToRel(<, Nat)
  <1>1. IsWellFoundedOn(R, Nat)
    BY NatLessThanWellFounded
  <1>2. R = {ss \in Nat \X Nat : ss[1] < ss[2]}
    BY DEF OpToRel
  <1> HIDE DEF R
  <1>3. PICK x \in T : \A y \in T : ~(<<y, x>> \in R)
    BY <1>1, WFMin
  <1>4. \A y \in T : ~(y < x)
    BY <1>2, <1>3
  <1> QED BY <1>3, <1>4

LEMMA Induction ==
    ASSUME NEW T \in SUBSET Nat, 0 \in T, \A n \in T : n + 1 \in T
    PROVE  T = Nat
  <1>1. SUFFICES ASSUME Nat \ T # {} PROVE FALSE
    OBVIOUS
  <1>2. PICK x \in Nat \ T : \A y \in Nat \ T : x <= y
    BY <1>1, Least
  <1>3. x - 1 \in Nat /\ x - 1 < x
    BY <1>2
  <1>4. x - 1 \in T /\ (x - 1) + 1 \notin T
    BY <1>2, <1>3
  <1> QED BY <1>4

(* The functions that a first value and a step define. *)
Iterations(S, first, step) ==
    {f \in [Nat -> S] : f[0] = first /\ \A n \in Nat : f[n + 1] = step[n + 1][f[n]]}

(* What a first value and a step define exists: it is put together from    *)
(* its beginnings, which agree as far as they go.                          *)
LEMMA Recursion ==
    ASSUME NEW S, NEW first \in S, NEW step \in [Nat -> [S -> S]]
    PROVE  Iterations(S, first, step) # {}
  <1> DEFINE Begun(n) == {f \in [0..n -> S] :
                             f[0] = first /\ \A k \in 0..(n - 1) : f[k + 1] = step[k + 1][f[k]]}
             Agree(m) == \A n \in Nat : m <= n => \A f \in Begun(m), g \in Begun(n) : f[m] = g[m]
  <1>1. \A n \in Nat : Begun(n) # {}
    <2> DEFINE T == {n \in Nat : Begun(n) # {}}
    <2>1. [k \in 0..0 |-> first] \in Begun(0)
      OBVIOUS
    <2>2. ASSUME NEW n \in T PROVE n + 1 \in T
      <3>1. PICK f \in Begun(n) : TRUE
        OBVIOUS
      <3> DEFINE g == [k \in 0..(n + 1) |-> IF k = n + 1 THEN step[n + 1][f[n]] ELSE f[k]]
      <3>2. g \in [0..(n + 1) -> S] /\ g[0] = first
        BY <3>1
      <3>3. \A k \in 0..n : g[k + 1] = step[k + 1][g[k]]
        <4> TAKE k \in 0..n
        <4>1. CASE k = n
          BY <4>1, <3>1
        <4>2. CASE k # n
          BY <4>2, <3>1
        <4> QED BY <4>1, <4>2
      <3> HIDE DEF g
      <3>4. g \in Begun(n + 1)
        BY <3>2, <3>3
      <3> QED BY <3>4
    <2>3. 0 \in T
      BY <2>1
    <2> HIDE DEF T
    <2>4. T = Nat
      BY <2>2, <2>3, Induction DEF T
    <2> QED BY <2>4 DEF T
  <1>2. \A m \in Nat : Agree(m)
    <2> DEFINE T == {m \in Nat : Agree(m)}
    <2>1. Agree(0)
      OBVIOUS
    <2>2. ASSUME NEW m \in Nat, Agree(m) PROVE Agree(m + 1)
      <3> SUFFICES ASSUME NEW n \in Nat, m + 1 <= n, NEW f \in Begun(m + 1), NEW g \in Begun(n)
                   PROVE  f[m + 1] = g[m + 1]
        OBVIOUS
      <3> DEFINE h == [k \in 0..m |-> f[k]]
      <3>1. h \in Begun(m) /\ h[m] = f[m]
        OBVIOUS
      <3>2. h[m] = g[m]
        <4> HIDE DEF h, Begun
        <4> QED BY <3>1, <2>2
      <3>3. f[m + 1] = step[m + 1][f[m]] /\ g[m + 1] = step[m + 1][g[m]]
        OBVIOUS
      <3> HIDE DEF h
      <3> QED BY <3>1, <3>2, <3>3
    <2> HIDE DEF Agree
    <2>3. 0 \in T /\ \A m \in T : m + 1 \in T
      BY <2>1, <2>2
    <2> HIDE DEF T
    <2>4. T = Nat
      BY <2>3, Induction DEF T
    <2> QED BY <2>4 DEF T
  <1> DEFINE part == [n \in Nat |-> CHOOSE f : f \in Begun(n)]
             whole == [n \in Nat |-> part[n][n]]
  <1>3. \A n \in Nat : part[n] \in Begun(n)
    BY <1>1
  <1> HIDE DEF part
  <1>4. whole \in [Nat -> S] /\ whole[0] = first
    BY <1>3
  <1>5. ASSUME NEW n \in Nat PROVE whole[n + 1] = step[n + 1][whole[n]]
    <2>1. part[n + 1][n + 1] = step[n + 1][part[n + 1][n]]
      BY <1>3
    <2>2. part[n + 1][n] = part[n][n]
      <3>1. part[n] \in Begun(n) /\ part[n + 1] \in Begun(n + 1) /\ n <= n + 1
        BY <1>3
      <3> HIDE DEF Begun
      <3> QED BY <1>2, <3>1
    <2> QED BY <2>1, <2>2
  <1> HIDE DEF whole
  <1>6. whole \in Iterations(S, first, step)
    BY <1>4, <1>5 DEF Iterations
  <1> QED BY <1>6

(* The same for a loop of L turns. *)
LEMMA LoopInduction ==
    ASSUME NEW L \in Nat, NEW T, 0 \in T, \A n \in 1..L : n - 1 \in T => n \in T
    PROVE  0..L \subseteq T
  <1> DEFINE U == {n \in Nat : n <= L => n \in T}
  <1>1. 0 \in U
    OBVIOUS
  <1>2. ASSUME NEW n \in U PROVE n + 1 \in U
    <2>1. CASE n + 1 <= L
      <3>1. n + 1 \in 1..L /\ (n + 1) - 1 = n /\ n \in T
        BY <2>1
      <3> QED BY <3>1
    <2>2. CASE ~(n + 1 <= L)
      BY <2>2
    <2> QED BY <2>1, <2>2
  <1> HIDE DEF U
  <1>3. U = Nat
    BY <1>1, <1>2, Induction DEF U
  <1> QED BY <1>3 DEF U

Loops(L, S, first, step) ==
    {f \in [0..L -> S] : f[0] = first /\ \A n \in 1..L : f[n] = step[n][f[n - 1]]}

LEMMA LoopExists ==
    ASSUME NEW L \in Nat, NEW S, NEW first \in S, NEW step \in [1..L -> [S -> S]]
    PROVE  Loops(L, S, first, step) # {}
  <1> DEFINE onwards == [n \in Nat |-> IF n \in 1..L THEN step[n] ELSE [x \in S |-> x]]
  <1>1. onwards \in [Nat -> [S -> S]]
    OBVIOUS
  <1>2. \A n \in 1..L : onwards[n] = step[n]
    OBVIOUS
  <1> HIDE DEF onwards
  <1>3. PICK f \in Iterations(S, first, onwards) : TRUE
    BY <1>1, Recursion
  <1>4. f \in [Nat -> S] /\ f[0] = first /\ \A n \in Nat : f[n + 1] = onwards[n + 1][f[n]]
    BY <1>3 DEF Iterations
  <1> DEFINE g == [n \in 0..L |-> f[n]]
  <1>5. ASSUME NEW n \in 1..L PROVE g[n] = step[n][g[n - 1]]
    <2>1. n - 1 \in Nat /\ (n - 1) + 1 = n /\ n - 1 \in 0..L
      OBVIOUS
    <2>2. f[(n - 1) + 1] = onwards[(n - 1) + 1][f[n - 1]]
      BY <1>4, <2>1
    <2>3. f[n] = step[n][f[n - 1]]
      BY <1>2, <2>1, <2>2
    <2>4. g[n] = f[n] /\ g[n - 1] = f[n - 1]
      BY <2>1
    <2> QED BY <2>3, <2>4
  <1>6. g \in [0..L -> S] /\ g[0] = first
    BY <1>4
  <1> HIDE DEF g
  <1>7. g \in Loops(L, S, first, step)
    BY <1>5, <1>6 DEF Loops
  <1> QED BY <1>7

-----------------------------------------------------------------------------
(* Sequences *)

LEMMA AppendType ==
    ASSUME NEW N, NEW s \in Seq(N), NEW x \in N
    PROVE  /\ Append(s, x) \in Seq(N) /\ <<x>> \in Seq(N) /\ <<x>> # <<>>
           /\ s # <<>> => Front(s) \in Seq(N)
  BY DEF Front

LEMMA ConcatType ==
    ASSUME NEW N, NEW s \in Seq(N), NEW t \in Seq(N)
    PROVE  s \o t \in Seq(N)
  OBVIOUS

LEMMA ConcatFacts ==
    ASSUME NEW N, NEW s \in Seq(N), NEW t \in Seq(N)
    PROVE  /\ s \o t \in Seq(N) /\ Len(s \o t) = Len(s) + Len(t)
           /\ \A i \in 1..Len(s) : (s \o t)[i] = s[i]
           /\ \A j \in 1..Len(t) : (s \o t)[Len(s) + j] = t[j]
           /\ s \o <<>> = s /\ <<>> \o s = s
  OBVIOUS

LEMMA NextPrefix ==
    ASSUME NEW N, NEW s \in Seq(N), NEW t \in Seq(N), NEW j \in 1..Len(t)
    PROVE  Append(s \o SubSeq(t, 1, j - 1), t[j]) = s \o SubSeq(t, 1, j)
  OBVIOUS

LEMMA EmptyIs ==
    ASSUME NEW N, NEW s \in Seq(N)
    PROVE  s = <<>> <=> Len(s) = 0
  OBVIOUS

LEMMA SubSeqType ==
    ASSUME NEW N, NEW s \in Seq(N), NEW k \in 0..Len(s)
    PROVE  /\ SubSeq(s, 1, k) \in Seq(N) /\ Len(SubSeq(s, 1, k)) = k
           /\ \A i \in 1..k : SubSeq(s, 1, k)[i] = s[i]
  <1>1. SubSeq(s, 1, k) \in Seq(N)
    OBVIOUS
  <1>2. Len(SubSeq(s, 1, k)) = k
    OBVIOUS
  <1>3. \A i \in 1..k : SubSeq(s, 1, k)[i] = s[i]
    OBVIOUS
  <1> QED BY <1>1, <1>2, <1>3

LEMMA FrontLast ==
    ASSUME NEW N, NEW s \in Seq(N), s # <<>>
    PROVE  /\ Front(s) \in Seq(N) /\ Last(s) \in N /\ s = Append(Front(s), Last(s))
           /\ Len(Front(s)) = Len(s) - 1 /\ (Front(s) = <<>> <=> Len(s) = 1)
           /\ Len(s) \in Nat \ {0}
  <1> DEFINE L == Len(s)
             f == SubSeq(s, 1, L - 1)
  <1>1. L \in Nat /\ L >= 1 /\ s[L] \in N
    OBVIOUS
  <1>2. f \in Seq(N) /\ Len(f) = L - 1 /\ \A i \in 1..(L - 1) : f[i] = s[i]
    <2>1. L - 1 \in 0..L
      BY <1>1
    <2> QED BY <2>1, SubSeqType
  <1>3. s = Append(f, s[L])
    <2> DEFINE t == Append(f, s[L])
    <2>1. t \in Seq(N) /\ Len(t) = L
      BY <1>1, <1>2
    <2>2. \A i \in 1..L : t[i] = s[i]
      <3> TAKE i \in 1..L
      <3>1. CASE i = L
        BY <1>1, <1>2, <3>1
      <3>2. CASE i # L
        BY <1>1, <1>2, <3>2
      <3> QED BY <3>1, <3>2
    <2> HIDE DEF t
    <2>3. t = s
      BY <2>1, <2>2
    <2> QED BY <2>3 DEF t
  <1>4. f = <<>> <=> L = 1
    <2> HIDE DEF f, L
    <2>1. f = <<>> <=> Len(f) = 0
      BY <1>2, EmptyIs
    <2> QED BY <1>1, <1>2, <2>1
  <1> QED BY <1>1, <1>2, <1>3, <1>4 DEF Front, Last

LEMMA AppendSome ==
    ASSUME NEW N, NEW s \in Seq(N), NEW x \in N
    PROVE  Append(s, x) # <<>>
  <1> DEFINE t == Append(s, x)
  <1>1. Len(t) = Len(s) + 1 /\ Len(s) \in Nat
    OBVIOUS
  <1> HIDE DEF t
  <1>2. t # <<>>
    BY <1>1
  <1> QED BY <1>2 DEF t

LEMMA AppendLast ==
    ASSUME NEW N, NEW x \in N
    PROVE  \A s \in Seq(N) : Last(Append(s, x)) = x
  <1>1. ASSUME NEW s \in Seq(N) PROVE Last(Append(s, x)) = x
    BY DEF Last
  <1> QED BY <1>1

LEMMA AppendCancel ==
    ASSUME NEW N, NEW s \in Seq(N), NEW t \in Seq(N), NEW x \in N, Append(s, x) = Append(t, x)
    PROVE  s = t
  OBVIOUS

LEMMA ConcatAppend ==
    ASSUME NEW N, NEW x \in N
    PROVE  \A s, t \in Seq(N) : s \o Append(t, x) = Append(s \o t, x)
  <1>1. ASSUME NEW s \in Seq(N), NEW t \in Seq(N) PROVE s \o Append(t, x) = Append(s \o t, x)
    OBVIOUS
  <1> QED BY <1>1

LEMMA Cancel ==
    ASSUME NEW N, NEW s \in Seq(N), NEW t \in Seq(N), NEW u \in Seq(N), s \o t = s \o u
    PROVE  t = u
  <1>1. Len(t) = Len(u)
    BY ConcatFacts
  <1>2. \A j \in 1..Len(t) : t[j] = u[j]
    <2> TAKE j \in 1..Len(t)
    <2>1. (s \o t)[Len(s) + j] = t[j] /\ (s \o u)[Len(s) + j] = u[j]
      BY <1>1, ConcatFacts
    <2> QED BY <2>1
  <1> QED BY <1>1, <1>2

LEMMA CancelAll ==
    ASSUME NEW N, NEW s \in Seq(N), NEW t \in Seq(N), s \o t = s
    PROVE  t = <<>>
  OBVIOUS

LEMMA ConcatLast ==
    ASSUME NEW N, NEW s \in Seq(N), NEW t \in Seq(N), t # <<>>
    PROVE  s \o t # <<>> /\ Last(s \o t) = Last(t)
  BY DEF Last

LEMMA FewerValues ==
    ASSUME NEW N, NEW M \in SUBSET N, NEW s \in Seq(M)
    PROVE  s \in Seq(N)
  OBVIOUS

-----------------------------------------------------------------------------
(* Selections *)

Extended(before, s, K, n) == before \o (IF n \in K THEN <<s[n]>> ELSE <<>>)

Selections(S, s, K) ==
    {kept \in [0..Len(s) -> Seq(S)] :
        kept[0] = <<>> /\ \A n \in 1..Len(s) : kept[n] = Extended(kept[n - 1], s, K, n)}

LEMMA SelectWalk ==
    ASSUME NEW S, NEW s \in Seq(S), NEW K
    PROVE  \E kept \in Selections(S, s, K) : Select(s, K) = kept[Len(s)]
  <1> DEFINE L == Len(s)
             V == Seq(S)
             none == <<>>
             step == [n \in 1..L |-> [before \in V |-> Extended(before, s, K, n)]]
             walk(g) == [n \in 0..L |-> IF n = 0 THEN none ELSE Extended(g[n - 1], s, K, n)]
             kept == CHOOSE g : g = walk(g)
  <1>1. L \in Nat /\ none \in V
    OBVIOUS
  <1>2. \A n \in 1..L, before \in V : Extended(before, s, K, n) \in V
    BY DEF Extended
  <1>3. step \in [1..L -> [V -> V]]
    BY <1>2
  <1>4. \A n \in 1..L, before \in V : step[n][before] = Extended(before, s, K, n)
    OBVIOUS
  <1>5. Select(s, K) = kept[L]
    BY DEF Select, Extended
  <1> HIDE DEF L, V, none, step
  <1>6. PICK f \in Loops(L, V, none, step) : TRUE
    BY <1>1, <1>3, LoopExists
  <1>7. f \in [0..L -> V] /\ f[0] = none /\ \A n \in 1..L : f[n] = Extended(f[n - 1], s, K, n)
    <2>1. \A n \in 1..L : n - 1 \in 0..L
      BY <1>1
    <2> QED BY <1>4, <1>6, <2>1 DEF Loops
  <1>8. f = walk(f)
    <2>1. \A n \in 0..L : f[n] = IF n = 0 THEN none ELSE Extended(f[n - 1], s, K, n)
      BY <1>1, <1>7
    <2> QED BY <1>7, <2>1
  <1>9. kept = walk(kept)
    <2> HIDE DEF walk
    <2> QED BY <1>8
  <1> HIDE DEF kept
  <1>10. kept[0] = none /\ \A n \in 1..L : kept[n] = Extended(kept[n - 1], s, K, n)
    BY <1>1, <1>9
  <1>11. kept \in [0..L -> V]
    <2> DEFINE T == {n \in 0..L : kept[n] \in V}
    <2>1. 0 \in T
      BY <1>1, <1>10
    <2>2. ASSUME NEW n \in 1..L, n - 1 \in T PROVE n \in T
      BY <1>2, <1>10, <2>2
    <2> HIDE DEF T
    <2>3. 0..L \subseteq T
      BY <1>1, <2>1, <2>2, LoopInduction
    <2>4. \A n \in 0..L : kept[n] \in V
      BY <2>3 DEF T
    <2> QED BY <1>9, <2>4
  <1> QED BY <1>5, <1>10, <1>11 DEF Selections, L, V, none

LEMMA AppendOne ==
    ASSUME NEW S, NEW s \in Seq(S), NEW x \in S
    PROVE  /\ s \o <<x>> \in Seq(S) /\ Len(s \o <<x>>) = Len(s) + 1
           /\ ToSet(s \o <<x>>) = ToSet(s) \cup {x}
           /\ IsInjective(s) /\ x \notin ToSet(s) => IsInjective(s \o <<x>>)
  <1> DEFINE t == s \o <<x>>
  <1>1. t \in Seq(S) /\ Len(t) = Len(s) + 1 /\ t[Len(s) + 1] = x
    OBVIOUS
  <1>2. \A i \in 1..Len(s) : t[i] = s[i]
    OBVIOUS
  <1> HIDE DEF t
  <1>3. DOMAIN t = (DOMAIN s) \cup {Len(s) + 1} /\ DOMAIN s = 1..Len(s)
    BY <1>1
  <1>4. ToSet(t) = ToSet(s) \cup {x}
    BY <1>1, <1>2, <1>3 DEF ToSet
  <1>5. ASSUME IsInjective(s), x \notin ToSet(s) PROVE IsInjective(t)
    BY <1>1, <1>2, <1>3, <1>5 DEF IsInjective, ToSet
  <1> QED BY <1>1, <1>4, <1>5 DEF t

LEMMA UpToNext ==
    ASSUME NEW K \in SUBSET Nat, NEW n \in Nat \ {0}
    PROVE  /\ n \in K => K \cap 1..n = (K \cap 1..(n - 1)) \cup {n} /\ n \notin K \cap 1..(n - 1)
           /\ n \notin K => K \cap 1..n = K \cap 1..(n - 1)
  OBVIOUS

(* A selection has one element for each position selected.                 *)
LEMMA SelectFacts ==
    ASSUME NEW S, NEW s \in Seq(S), NEW K \in SUBSET DOMAIN s
    PROVE  /\ Select(s, K) \in Seq(S)
           /\ ToSet(Select(s, K)) = {s[i] : i \in K}
           /\ IsFiniteSet(K) /\ Len(Select(s, K)) = Cardinality(K)
           /\ (\A i, j \in K : s[i] = s[j] => i = j) => IsInjective(Select(s, K))
  <1> DEFINE L == Len(s)
             Upto(n) == K \cap 1..n
             Distinct_(P) == \A i, j \in P : s[i] = s[j] => i = j
             Right(kept, n) ==
                /\ kept \in Seq(S) /\ ToSet(kept) = {s[i] : i \in Upto(n)}
                /\ IsFiniteSet(Upto(n)) /\ Len(kept) = Cardinality(Upto(n))
                /\ Distinct_(K) => IsInjective(kept)
  <1>1. PICK kept \in Selections(S, s, K) : Select(s, K) = kept[L]
    BY SelectWalk
  <1>2. /\ kept \in [0..L -> Seq(S)] /\ kept[0] = <<>>
        /\ \A n \in 1..L : kept[n] = Extended(kept[n - 1], s, K, n)
    BY <1>1 DEF Selections
  <1>3. L \in Nat /\ Upto(L) = K
    OBVIOUS
  <1> DEFINE T == {n \in 0..L : Right(kept[n], n)}
  <1>4. Right(kept[0], 0)
    <2>1. Upto(0) = {}
      OBVIOUS
    <2>2. <<>> \in Seq(S) /\ ToSet(<<>>) = {} /\ Len(<<>>) = 0 /\ IsInjective(<<>>)
      BY DEF ToSet, IsInjective
    <2> QED BY <1>2, <2>1, <2>2, FS_EmptySet
  <1>5. ASSUME NEW n \in 1..L, Right(kept[n - 1], n - 1) PROVE Right(kept[n], n)
    <2>1. CASE n \in K
      <3>1. Upto(n) = Upto(n - 1) \cup {n} /\ n \notin Upto(n - 1)
        BY <2>1, UpToNext
      <3>2. kept[n] = kept[n - 1] \o <<s[n]>> /\ s[n] \in S
        <4>1. s[n] \in S
          OBVIOUS
        <4>2. kept[n] = Extended(kept[n - 1], s, K, n)
          BY <1>2
        <4> QED BY <2>1, <4>1, <4>2 DEF Extended
      <3>3. Distinct_(K) => s[n] \notin {s[i] : i \in Upto(n - 1)}
        BY <2>1, <3>1
      <3>4. IsFiniteSet(Upto(n)) /\ Cardinality(Upto(n)) = Cardinality(Upto(n - 1)) + 1
        <4> HIDE DEF Upto
        <4> QED BY <1>5, <3>1, FS_AddElement
      <3>5. {s[i] : i \in Upto(n)} = {s[i] : i \in Upto(n - 1)} \cup {s[n]}
        <4> DEFINE at(i) == s[i]
        <4> HIDE DEF Upto, at
        <4>1. {at(i) : i \in Upto(n)} = {at(i) : i \in Upto(n - 1)} \cup {at(n)}
          BY <3>1
        <4> QED BY <4>1 DEF at
      <3>6. /\ kept[n - 1] \in Seq(S) /\ ToSet(kept[n - 1]) = {s[i] : i \in Upto(n - 1)}
            /\ Len(kept[n - 1]) = Cardinality(Upto(n - 1))
            /\ Distinct_(K) => IsInjective(kept[n - 1])
        BY <1>5
      <3> HIDE DEF Upto, Distinct_
      <3>7. /\ kept[n] \in Seq(S) /\ Len(kept[n]) = Cardinality(Upto(n))
            /\ ToSet(kept[n]) = {s[i] : i \in Upto(n)}
        <4> DEFINE before == kept[n - 1]
                   after == kept[n]
                   x == s[n]
        <4> HIDE DEF before, after, x
        <4>1. after = before \o <<x>> /\ x \in S /\ before \in Seq(S)
          BY <3>2, <3>6 DEF before, after, x
        <4>2. /\ after \in Seq(S) /\ Len(after) = Len(before) + 1
              /\ ToSet(after) = ToSet(before) \cup {x}
          BY <4>1, AppendOne
        <4> QED BY <3>4, <3>5, <3>6, <4>2 DEF before, after, x
      <3>8. Distinct_(K) => IsInjective(kept[n])
        BY <3>2, <3>3, <3>6, AppendOne
      <3> QED BY <3>4, <3>7, <3>8
    <2>2. CASE n \notin K
      <3>1. Upto(n) = Upto(n - 1)
        BY <2>2, UpToNext
      <3>2. kept[n] = kept[n - 1]
        <4>1. kept[n - 1] \in Seq(S) /\ kept[n - 1] \o <<>> = kept[n - 1]
          BY <1>5
        <4>2. kept[n] = kept[n - 1] \o <<>>
          BY <1>2, <2>2 DEF Extended
        <4> QED BY <4>1, <4>2
      <3> HIDE DEF Upto, Distinct_
      <3> QED BY <1>5, <3>1, <3>2
    <2> QED BY <2>1, <2>2
  <1>6. Right(kept[L], L)
    <2> HIDE DEF Right, L
    <2>1. 0 \in T /\ \A n \in 1..L : n - 1 \in T => n \in T
      BY <1>3, <1>4, <1>5
    <2> HIDE DEF T
    <2>2. 0..L \subseteq T
      BY <1>3, <2>1, LoopInduction
    <2> QED BY <1>3, <2>2 DEF T
  <1> HIDE DEF L, Upto
  <1> QED BY <1>1, <1>3, <1>6

=============================================================================
