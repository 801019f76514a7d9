-------------------------- MODULE SubsequencesProofs --------------------------
(***************************************************************************)
(* The facts about sets of numbers and about sequences that the proofs of  *)
(* the other modules need.                                                 *)
(***************************************************************************)
EXTENDS Subsequences, SequencesExt, FiniteSetTheorems, TLAPS

(* Ranks order the numbers of a finite set.                                *)
LEMMA RankLemma ==
  ASSUME NEW S \in SUBSET Int, IsFiniteSet(S)
  PROVE  /\ Cardinality(S) \in Nat
         /\ \A x \in S : Rank(S, x) \in 1 .. Cardinality(S)
         /\ \A x, y \in S : x < y => Rank(S, x) < Rank(S, y)
<1> DEFINE n == Cardinality(S)
           below(x) == {y \in S : y <= x}
<1>1. n \in Nat
  BY FS_CardinalityType
<1>2. ASSUME NEW x \in S
      PROVE  /\ IsFiniteSet(below(x)) /\ Rank(S, x) \in Nat /\ Rank(S, x) <= n
             /\ Rank(S, x) # 0
  <2>1. below(x) \in SUBSET S /\ below(x) # {}
    OBVIOUS
  <2>2. IsFiniteSet(below(x)) /\ Cardinality(below(x)) <= n
    BY <2>1, FS_Subset
  <2>3. Cardinality(below(x)) \in Nat /\ Cardinality(below(x)) # 0
    BY <2>1, <2>2, FS_CardinalityType, FS_EmptySet
  <2> QED BY <2>2, <2>3 DEF Rank
<1>3. ASSUME NEW x \in S, NEW y \in S, x < y
      PROVE  Rank(S, x) < Rank(S, y)
  <2> x \in Int /\ y \in Int
    OBVIOUS
  <2>1. below(x) \in SUBSET below(y) /\ y \in below(y) /\ y \notin below(x)
    <3>1. \A z \in S : z \in Int /\ (z <= x => z <= y)
      BY <1>3
    <3>2. y <= y /\ ~ (y <= x)
      BY <1>3
    <3> QED BY <3>1, <3>2, Zenon
  <2>2. /\ Cardinality(below(x)) <= Cardinality(below(y))
        /\ Cardinality(below(y)) # Cardinality(below(x))
    BY <1>2, <2>1, FS_Subset
  <2> QED BY <1>2, <2>2 DEF Rank
<1>4. ASSUME NEW x \in S PROVE Rank(S, x) \in 1 .. n
  <2>1. Rank(S, x) \in Nat /\ Rank(S, x) <= n /\ Rank(S, x) # 0
    BY <1>2
  <2> HIDE DEF n
  <2> QED BY <1>1, <2>1
<1> HIDE DEF n, below
<1> QED BY <1>1, <1>3, <1>4 DEF n

(* Ascending lists the numbers of a finite set, each once, in their order. *)
LEMMA AscendingLemma ==
  ASSUME NEW S \in SUBSET Int, IsFiniteSet(S)
  PROVE  /\ Cardinality(S) \in Nat
         /\ Ascending(S) \in [1 .. Cardinality(S) -> S]
         /\ \A j, k \in 1 .. Cardinality(S) : j < k => Ascending(S)[j] < Ascending(S)[k]
         /\ \A x \in S : \E k \in 1 .. Cardinality(S) : Ascending(S)[k] = x
<1> DEFINE n == Cardinality(S)
           rank == [x \in S |-> Rank(S, x)]
<1>1. /\ n \in Nat /\ rank \in [S -> 1 .. n]
      /\ \A x, y \in S : x < y => rank[x] < rank[y]
  BY RankLemma
<1>2. rank \in Injection(S, 1 .. n)
  <2>1. \A x, y \in S : rank[x] = rank[y] => x = y
    <3> SUFFICES ASSUME NEW x \in S, NEW y \in S, rank[x] = rank[y], x # y PROVE FALSE
      OBVIOUS
    <3>1. x < y \/ y < x
      OBVIOUS
    <3>2. rank[x] \in Nat /\ (rank[x] < rank[y] \/ rank[y] < rank[x])
      BY <1>1, <3>1
    <3> QED BY <1>1, <3>2
  <2> QED BY <1>1, <2>1 DEF Injection, IsInjective
<1>3. rank \in Surjection(S, 1 .. n)
  <2>1. IsFiniteSet(1 .. n) /\ Cardinality(1 .. n) = n
    BY <1>1, FS_Interval
  <2> QED BY <1>2, <2>1, FS_Injection, Zenon
<1>4. \A k \in 1 .. n : \E x \in S : rank[x] = k
  BY <1>3 DEF Surjection
<1>5. ASSUME NEW k \in 1 .. n
      PROVE  Ascending(S)[k] \in S /\ Rank(S, Ascending(S)[k]) = k
  <2>1. Ascending(S)[k] = CHOOSE x \in S : Rank(S, x) = k
    BY DEF Ascending
  <2>2. \E x \in S : Rank(S, x) = k
    BY <1>4
  <2> QED BY <2>1, <2>2
<1>6. Ascending(S) \in [1 .. n -> S]
  BY <1>5 DEF Ascending
<1>7. ASSUME NEW j \in 1 .. n, NEW k \in 1 .. n, j < k
      PROVE  Ascending(S)[j] < Ascending(S)[k]
  <2>1. /\ Ascending(S)[j] \in S /\ Ascending(S)[k] \in S
        /\ rank[Ascending(S)[j]] = j /\ rank[Ascending(S)[k]] = k
    BY <1>5
  <2> DEFINE a == Ascending(S)[j]
             b == Ascending(S)[k]
  <2>2. a \in Int /\ b \in Int /\ a # b
    <3>1. a \in Int /\ b \in Int
      BY <2>1
    <3>2. j # k
      BY <1>7
    <3> QED BY <2>1, <3>1, <3>2, Zenon
  <2>3. ~ (b < a)
    <3> SUFFICES ASSUME b < a PROVE FALSE
      OBVIOUS
    <3>1. rank[b] < rank[a]
      BY <1>1, <2>1
    <3> QED BY <1>7, <2>1, <3>1
  <2> QED BY <2>2, <2>3
<1>8. ASSUME NEW x \in S PROVE \E k \in 1 .. n : Ascending(S)[k] = x
  <2> DEFINE k == rank[x]
  <2>1. k \in 1 .. n
    BY <1>1
  <2>2. Ascending(S)[k] \in S /\ rank[Ascending(S)[k]] = rank[x]
    BY <1>5, <2>1
  <2>3. Ascending(S)[k] = x
    BY <1>2, <2>2 DEF Injection, IsInjective
  <2> QED BY <2>1, <2>3
<1> QED BY <1>1, <1>6, <1>7, <1>8

(* The largest and the smallest number of a finite set that is not empty.  *)
LEMMA ExtremesLemma ==
  ASSUME NEW S \in SUBSET Int, IsFiniteSet(S), S # {}
  PROVE  /\ Max(S) \in S /\ \A x \in S : x <= Max(S)
         /\ Min(S) \in S /\ \A x \in S : Min(S) <= x
<1> DEFINE n == Cardinality(S)
           asc == Ascending(S)
<1>1. /\ n \in Nat /\ asc \in [1 .. n -> S]
      /\ \A j, k \in 1 .. n : j < k => asc[j] < asc[k]
      /\ \A x \in S : \E k \in 1 .. n : asc[k] = x
  BY AscendingLemma
<1>2. n # 0
  BY FS_EmptySet
<1> HIDE DEF n, asc
<1>3. /\ 1 \in 1 .. n /\ n \in 1 .. n
      /\ asc[1] \in S /\ asc[n] \in S
  BY <1>1, <1>2
<1>4. ASSUME NEW x \in S
      PROVE  asc[1] <= x /\ x <= asc[n]
  <2>1. PICK k \in 1 .. n : asc[k] = x
    BY <1>1
  <2>2. (k = 1 \/ asc[1] < asc[k]) /\ (k = n \/ asc[k] < asc[n])
    BY <1>1, <1>3, <2>1
  <2>3. asc[1] \in Int /\ asc[n] \in Int /\ x \in Int
    BY <1>3
  <2> QED BY <2>1, <2>2, <2>3
<1>5. \E x \in S : \A y \in S : x >= y
  <2>1. \A y \in S : asc[n] >= y
    BY <1>3, <1>4
  <2> QED BY <1>3, <2>1
<1>6. \E x \in S : \A y \in S : x =< y
  <2>1. \A y \in S : asc[1] =< y
    BY <1>3, <1>4
  <2> QED BY <1>3, <2>1
<1>7. Max(S) \in S /\ \A y \in S : Max(S) >= y
  BY <1>5 DEF Max
<1>8. Min(S) \in S /\ \A y \in S : Min(S) =< y
  BY <1>6 DEF Min
<1>9. \A x \in S : x <= Max(S)
  BY <1>7
<1> QED BY <1>7, <1>8, <1>9

(* What Keep leaves: elements of the sequence, in their order, and all     *)
(* that stand at the positions to keep.                                    *)
LEMMA KeepLemma ==
  ASSUME NEW T, NEW s \in Seq(T), NEW at \in SUBSET (1 .. Len(s))
  PROVE  /\ Keep(s, at) \in Seq(T)
         /\ \E position \in [1 .. Len(Keep(s, at)) -> at] :
              /\ \A k \in 1 .. Len(Keep(s, at)) : Keep(s, at)[k] = s[position[k]]
              /\ \A j, k \in 1 .. Len(Keep(s, at)) : j < k => position[j] < position[k]
              /\ \A i \in at : \E k \in 1 .. Len(Keep(s, at)) : position[k] = i
<1> DEFINE n == Cardinality(at)
           kept == Keep(s, at)
<1>1. at \in SUBSET Int /\ IsFiniteSet(at)
  <2>1. Len(s) \in Nat /\ IsFiniteSet(1 .. Len(s))
    BY FS_Interval
  <2>2. IsFiniteSet(at)
    BY <2>1, FS_Subset
  <2> QED BY <2>1, <2>2
<1>2. /\ n \in Nat /\ Ascending(at) \in [1 .. n -> at]
      /\ \A j, k \in 1 .. n : j < k => Ascending(at)[j] < Ascending(at)[k]
      /\ \A x \in at : \E k \in 1 .. n : Ascending(at)[k] = x
  BY <1>1, AscendingLemma
<1>3. kept = [k \in 1 .. n |-> s[Ascending(at)[k]]]
  BY <1>2 DEF Keep
<1>4. kept \in Seq(T) /\ Len(kept) = n
  <2>1. \A i \in at : s[i] \in T
    OBVIOUS
  <2> HIDE DEF n
  <2>3. \A k \in 1 .. n : s[Ascending(at)[k]] \in T
    BY <1>2, <2>1
  <2>2. kept \in [1 .. n -> T]
    BY <1>3, <2>3
  <2> QED BY <1>2, <2>2
<1> HIDE DEF kept
<1>5. /\ Ascending(at) \in [1 .. Len(kept) -> at]
      /\ \A k \in 1 .. Len(kept) : kept[k] = s[Ascending(at)[k]]
  BY <1>2, <1>3, <1>4
<1> QED BY <1>2, <1>4, <1>5 DEF kept

(* Induction over the natural numbers, for a set of them.                  *)
LEMMA NaturalsLemma ==
  ASSUME NEW S \in SUBSET Nat, 0 \in S, \A n \in S : n + 1 \in S
  PROVE  S = Nat
<1> DEFINE R == OpToRel(<, Nat)
           T == Nat \ S
<1>1. \A x, y \in Nat : x < y => <<x, y>> \in R
  BY DEF OpToRel
<1>2. IsWellFoundedOn(R, Nat)
  BY NatLessThanWellFounded
<1> HIDE DEF R
<1>3. SUFFICES ASSUME T # {} PROVE FALSE
  OBVIOUS
<1>4. PICK x \in T : \A y \in T : ~ (<<y, x>> \in R)
  <2>1. T \subseteq Nat
    OBVIOUS
  <2> QED BY <1>2, <1>3, <2>1, WFMin, Zenon
<1>5. x # 0 /\ x - 1 \in Nat
  OBVIOUS
<1>6. x - 1 \in S
  <2>1. x - 1 < x /\ x \in Nat
    BY <1>5
  <2>2. <<x - 1, x>> \in R
    BY <1>1, <1>5, <2>1
  <2> QED BY <1>4, <1>5, <2>2
<1> QED BY <1>5, <1>6

(* Two sequences one after the other.                                      *)
LEMMA ConcatLemma ==
  ASSUME NEW T, NEW s \in Seq(T), NEW t \in Seq(T)
  PROVE  /\ Len(s) \in Nat /\ Len(t) \in Nat
         /\ DOMAIN s = 1 .. Len(s) /\ DOMAIN t = 1 .. Len(t)
         /\ s \o t \in Seq(T) /\ Len(s \o t) = Len(s) + Len(t)
         /\ DOMAIN (s \o t) = 1 .. Len(s) + Len(t)
         /\ \A i \in 1 .. Len(s) : (s \o t)[i] = s[i]
         /\ \A k \in 1 .. Len(t) : (s \o t)[Len(s) + k] = t[k]
<1>1. /\ s \o t \in Seq(T) /\ Len(s \o t) = Len(s) + Len(t)
      /\ Len(s) \in Nat /\ Len(t) \in Nat
  OBVIOUS
<1>2. DOMAIN s = 1 .. Len(s) /\ DOMAIN t = 1 .. Len(t)
  OBVIOUS
<1>3. DOMAIN (s \o t) = 1 .. Len(s) + Len(t)
  BY <1>1
<1>4. \A i \in 1 .. Len(s) : (s \o t)[i] = s[i]
  OBVIOUS
<1>5. ASSUME NEW k \in 1 .. Len(t) PROVE (s \o t)[Len(s) + k] = t[k]
  <2>1. Len(s) + k \in 1 .. Len(s) + Len(t) /\ ~ (Len(s) + k <= Len(s))
    BY <1>1
  <2>2. (Len(s) + k) - Len(s) = k
    BY <1>1
  <2> QED BY <1>1, <2>1, <2>2
<1> QED BY <1>1, <1>2, <1>3, <1>4, <1>5
-----------------------------------------------------------------------------
(* The elements of t are those of the first n sequences, in their order:   *)
(* t[k] is element place[k] of sequence part[k].                           *)
Spread(t, seqs, n, part, place) ==
  /\ part \in [1 .. Len(t) -> 1 .. n] /\ place \in [1 .. Len(t) -> Nat]
  /\ \A k \in 1 .. Len(t) : place[k] \in DOMAIN seqs[part[k]]
                            /\ t[k] = seqs[part[k]][place[k]]
  /\ \A j, k \in 1 .. Len(t) : j < k =>
       part[j] < part[k] \/ (part[j] = part[k] /\ place[j] < place[k])
  /\ \A a \in 1 .. n : \A b \in DOMAIN seqs[a] :
       \E k \in 1 .. Len(t) : part[k] = a /\ place[k] = b

LEMMA SpreadLemma ==
  ASSUME NEW T, NEW seqs \in Seq(Seq(T)), NEW t \in Seq(T),
         NEW n \in Nat, n + 1 <= Len(seqs), NEW part, NEW place,
         Spread(t, seqs, n, part, place)
  PROVE  \E q, r : Spread(t \o seqs[n + 1], seqs, n + 1, q, r)
<1> DEFINE s == seqs[n + 1]
           u == t \o s
           l == Len(t)
           m == Len(s)
           q == [k \in 1 .. l + m |-> IF k <= l THEN part[k] ELSE n + 1]
           r == [k \in 1 .. l + m |-> IF k <= l THEN place[k] ELSE k - l]
<1>1. /\ part \in [1 .. l -> 1 .. n] /\ place \in [1 .. l -> Nat]
      /\ \A k \in 1 .. l : place[k] \in DOMAIN seqs[part[k]]
                           /\ t[k] = seqs[part[k]][place[k]]
      /\ \A j, k \in 1 .. l : j < k =>
           part[j] < part[k] \/ (part[j] = part[k] /\ place[j] < place[k])
      /\ \A a \in 1 .. n : \A b \in DOMAIN seqs[a] :
           \E k \in 1 .. l : part[k] = a /\ place[k] = b
  BY DEF Spread
<1>2. s \in Seq(T)
  OBVIOUS
<1>3. /\ l \in Nat /\ m \in Nat /\ DOMAIN s = 1 .. m
      /\ Len(u) = l + m
      /\ \A i \in 1 .. l : u[i] = t[i]
      /\ \A k \in 1 .. m : u[l + k] = s[k]
  BY <1>2, ConcatLemma
<1> HIDE DEF u, l, m
<1>4. /\ q \in [1 .. l + m -> 1 .. n + 1] /\ r \in [1 .. l + m -> Nat]
      /\ \A k \in 1 .. l : q[k] = part[k] /\ r[k] = place[k]
      /\ \A k \in 1 .. m : q[l + k] = n + 1 /\ r[l + k] = k
  <2>1. ASSUME NEW k \in 1 .. l + m
        PROVE  /\ q[k] \in 1 .. n + 1 /\ r[k] \in Nat
               /\ k <= l => q[k] = part[k] /\ r[k] = place[k]
               /\ k > l => q[k] = n + 1 /\ r[k] = k - l
    BY <1>1, <1>3
  <2>2. \A k \in 1 .. m : l + k \in 1 .. l + m /\ l + k > l /\ (l + k) - l = k
    BY <1>3
  <2>3. \A k \in 1 .. l : k \in 1 .. l + m /\ k <= l
    BY <1>3
  <2>4. q \in [1 .. l + m -> 1 .. n + 1] /\ r \in [1 .. l + m -> Nat]
    BY <2>1
  <2> HIDE DEF q, r
  <2> QED BY <2>1, <2>2, <2>3, <2>4
<1> HIDE DEF q, r
<1>5. \A k \in 1 .. l + m : k \in 1 .. l \/ \E i \in 1 .. m : k = l + i
  <2> SUFFICES ASSUME NEW k \in 1 .. l + m, k \notin 1 .. l
               PROVE  \E i \in 1 .. m : k = l + i
    OBVIOUS
  <2>1. k - l \in 1 .. m /\ k = l + (k - l)
    BY <1>3
  <2> QED BY <2>1
<1>6. ASSUME NEW k \in 1 .. l + m
      PROVE  r[k] \in DOMAIN seqs[q[k]] /\ u[k] = seqs[q[k]][r[k]]
  <2>1. CASE k \in 1 .. l
    BY <1>1, <1>3, <1>4, <2>1
  <2>2. ASSUME NEW i \in 1 .. m, k = l + i
        PROVE  r[k] \in DOMAIN seqs[q[k]] /\ u[k] = seqs[q[k]][r[k]]
    <3>1. q[k] = n + 1 /\ r[k] = i /\ u[k] = s[i] /\ i \in DOMAIN s
      BY <1>3, <1>4, <2>2
    <3> QED BY <3>1
  <2> QED BY <1>5, <2>1, <2>2
<1>7. ASSUME NEW j \in 1 .. l + m, NEW k \in 1 .. l + m, j < k
      PROVE  q[j] < q[k] \/ (q[j] = q[k] /\ r[j] < r[k])
  <2>1. CASE k \in 1 .. l
    <3>1. j \in 1 .. l
      BY <1>3, <1>7, <2>1
    <3> QED BY <1>1, <1>4, <1>7, <2>1, <3>1
  <2>2. ASSUME NEW i \in 1 .. m, k = l + i
        PROVE  q[j] < q[k] \/ (q[j] = q[k] /\ r[j] < r[k])
    <3>1. CASE j \in 1 .. l
      <4>1. q[j] \in 1 .. n /\ q[k] = n + 1
        BY <1>1, <1>4, <2>2, <3>1
      <4> QED BY <4>1
    <3>2. ASSUME NEW h \in 1 .. m, j = l + h
          PROVE  q[j] = q[k] /\ r[j] < r[k]
      <4>1. h < i
        BY <1>3, <1>7, <2>2, <3>2
      <4>2. q[j] = n + 1 /\ q[k] = n + 1 /\ r[j] = h /\ r[k] = i
        BY <1>4, <2>2, <3>2
      <4> QED BY <4>1, <4>2
    <3> QED BY <1>5, <3>1, <3>2
  <2> QED BY <1>5, <2>1, <2>2
<1>8. ASSUME NEW a \in 1 .. n + 1, NEW b \in DOMAIN seqs[a]
      PROVE  \E k \in 1 .. l + m : q[k] = a /\ r[k] = b
  <2>1. CASE a \in 1 .. n
    <3>1. PICK k \in 1 .. l : part[k] = a /\ place[k] = b
      BY <1>1, <2>1
    <3> QED BY <1>3, <1>4, <3>1
  <2>2. CASE a = n + 1
    <3>1. b \in 1 .. m /\ l + b \in 1 .. l + m
      BY <1>3, <2>2
    <3> QED BY <1>4, <2>2, <3>1
  <2> QED BY <2>1, <2>2
<1>9. Spread(u, seqs, n + 1, q, r)
  BY <1>3, <1>4, <1>6, <1>7, <1>8 DEF Spread
<1> QED BY <1>9 DEF u

(* FlattenSeq puts the sequences one after the other.                      *)
LEMMA FlattenLemma ==
  ASSUME NEW T, NEW seqs \in Seq(Seq(T))
  PROVE  /\ FlattenSeq(seqs) \in Seq(T)
         /\ \E part, place : Spread(FlattenSeq(seqs), seqs, Len(seqs), part, place)
<1> DEFINE L == Len(seqs)
           Rec(f, n) == /\ f \in [1 .. n -> Seq(T)]
                        /\ \A i \in 1 .. n : f[i] = IF i = 1 THEN seqs[i]
                                                    ELSE f[i - 1] \o seqs[i]
           Is(f) == f = [i \in 1 .. L |-> IF i = 1 THEN seqs[i] ELSE f[i - 1] \o seqs[i]]
           F == CHOOSE f : Is(f)
<1>1. L \in Nat /\ \A i \in 1 .. L : seqs[i] \in Seq(T)
  OBVIOUS
<1>2. CASE L = 0
  <2>1. FlattenSeq(seqs) = <<>>
    BY <1>2 DEF FlattenSeq
  <2>2. <<>> \in Seq(T) /\ Len(<<>>) = 0 /\ <<>> \in [1 .. 0 -> 1 .. 0] /\ <<>> \in [1 .. 0 -> Nat]
    OBVIOUS
  <2>3. Spread(<<>>, seqs, 0, <<>>, <<>>)
    BY <2>2 DEF Spread
  <2> QED BY <1>2, <2>1, <2>2, <2>3
<1>3. CASE L # 0
  <2>1. \E f : Rec(f, L)
    <3> DEFINE Exists(n) == \E f : Rec(f, n)
             S == {n \in Nat : n <= L => Exists(n)}
    <3>1. 0 \in S
      <4>1. Rec([i \in 1 .. 0 |-> <<>>], 0)
        OBVIOUS
      <4> QED BY <4>1
    <3>2. ASSUME NEW n \in Nat, n + 1 <= L, n <= L => Exists(n)
          PROVE  Exists(n + 1)
      <4>1. PICK f : Rec(f, n)
        <5>1. n <= L
          BY <1>1, <3>2
        <5> QED BY <3>2, <5>1
      <4> DEFINE g == [i \in 1 .. n + 1 |->
                         IF i = n + 1 THEN IF i = 1 THEN seqs[i] ELSE f[i - 1] \o seqs[i]
                         ELSE f[i]]
      <4>2. seqs[n + 1] \in Seq(T)
        BY <1>1, <3>2
      <4>3. ASSUME NEW i \in 1 .. n + 1
            PROVE  /\ g[i] \in Seq(T)
                   /\ g[i] = IF i = 1 THEN seqs[i] ELSE g[i - 1] \o seqs[i]
        <5>1. CASE i = n + 1
          <6>1. CASE n = 0
            BY <4>2, <5>1, <6>1
          <6>2. CASE n # 0
            <7>1. n \in 1 .. n /\ i - 1 = n /\ n # n + 1 /\ i # 1 /\ n \in 1 .. n + 1
              BY <5>1, <6>2
            <7>2. f[n] \in Seq(T) /\ g[n] = f[n] /\ g[i] = f[n] \o seqs[i]
              BY <4>1, <5>1, <7>1
            <7>3. f[n] \o seqs[n + 1] \in Seq(T)
              BY <4>2, <7>2
            <7> QED BY <5>1, <7>1, <7>2, <7>3
          <6> QED BY <6>1, <6>2
        <5>2. CASE i # n + 1
          <6>1. i \in 1 .. n /\ (i # 1 => i - 1 \in 1 .. n /\ i - 1 # n + 1)
            BY <5>2
          <6>2. g[i] = f[i] /\ (i # 1 => g[i - 1] = f[i - 1])
            BY <5>2, <6>1
          <6> QED BY <4>1, <6>1, <6>2
        <5> QED BY <5>1, <5>2
      <4>4. g \in [1 .. n + 1 -> Seq(T)]
        BY <4>3
      <4> HIDE DEF g
      <4>5. Rec(g, n + 1)
        BY <4>3, <4>4
      <4> QED BY <4>5
    <3> HIDE DEF Rec
    <3>3. S \in SUBSET Nat
      OBVIOUS
    <3> HIDE DEF Exists
    <3>4. \A n \in S : n + 1 \in S
      BY <3>2
    <3>5. S = Nat
      <4> HIDE DEF S
      <4> QED BY <3>1, <3>3, <3>4, NaturalsLemma
    <3> QED BY <1>1, <3>5 DEF Exists
  <2>2. PICK f : Rec(f, L)
    BY <2>1
  <2>3. Is(f)
    BY <2>2
  <2>4. Is(F)
    <3> HIDE DEF Is
    <3> QED BY <2>3
  <2>5. FlattenSeq(seqs) = F[L]
    BY <1>3 DEF FlattenSeq
  <2> HIDE DEF F
  <2>6. \A i \in 1 .. L : F[i] = IF i = 1 THEN seqs[i] ELSE F[i - 1] \o seqs[i]
    BY <2>4
  <2> DEFINE P(n) == F[n] \in Seq(T) /\ \E part, place : Spread(F[n], seqs, n, part, place)
             S == {n \in Nat : n + 1 <= L => P(n + 1)}
  <2>7. 0 \in S
    <3>1. <<>> \in Seq(T) /\ Len(<<>>) = 0 /\ <<>> \in [1 .. 0 -> 1 .. 0] /\ <<>> \in [1 .. 0 -> Nat]
      OBVIOUS
    <3>2. Spread(<<>>, seqs, 0, <<>>, <<>>)
      BY <3>1 DEF Spread
    <3>3. \E q, r : Spread(<<>> \o seqs[0 + 1], seqs, 0 + 1, q, r)
      <4>1. 0 \in Nat /\ 0 + 1 <= Len(seqs)
        BY <1>1, <1>3
      <4> HIDE DEF L
      <4> QED BY <3>1, <3>2, <4>1, SpreadLemma, Zenon
    <3>4. F[1] = seqs[1] /\ seqs[1] \in Seq(T) /\ <<>> \o seqs[1] = seqs[1]
      BY <1>1, <1>3, <2>6
    <3>5. P(1)
      BY <3>3, <3>4
    <3> QED BY <3>5
  <2>8. ASSUME NEW n \in S PROVE n + 1 \in S
    <3> SUFFICES ASSUME (n + 1) + 1 <= L PROVE P((n + 1) + 1)
      OBVIOUS
    <3>1. n + 1 \in Nat /\ n + 1 <= L /\ (n + 1) + 1 \in 1 .. L /\ (n + 1) + 1 # 1
          /\ ((n + 1) + 1) - 1 = n + 1
      BY <1>1
    <3>2. P(n + 1)
      BY <3>1
    <3>3. F[(n + 1) + 1] = F[n + 1] \o seqs[(n + 1) + 1] /\ seqs[(n + 1) + 1] \in Seq(T)
      BY <1>1, <2>6, <3>1
    <3> DEFINE k == n + 1
    <3> HIDE DEF k
    <3>4. k \in Nat /\ k + 1 <= Len(seqs) /\ F[k] \in Seq(T) /\ seqs[k + 1] \in Seq(T)
          /\ F[k + 1] = F[k] \o seqs[k + 1]
      BY <3>1, <3>2, <3>3 DEF k
    <3>5. PICK part, place : Spread(F[k], seqs, k, part, place)
      BY <3>2 DEF k
    <3>6. \E q, r : Spread(F[k] \o seqs[k + 1], seqs, k + 1, q, r)
      BY <3>4, <3>5, SpreadLemma
    <3>7. F[k] \o seqs[k + 1] \in Seq(T)
      BY <3>4
    <3> QED BY <3>4, <3>6, <3>7 DEF k
  <2> HIDE DEF P
  <2>9. S \in SUBSET Nat
    OBVIOUS
  <2>10. S = Nat
    <3> HIDE DEF S
    <3> QED BY <2>7, <2>8, <2>9, NaturalsLemma
  <2>11. L - 1 \in Nat /\ (L - 1) + 1 = L
    BY <1>1, <1>3
  <2>12. P(L)
    <3>1. L - 1 \in S
      BY <2>10, <2>11
    <3>2. (L - 1) + 1 <= L => P((L - 1) + 1)
      BY <3>1
    <3> QED BY <1>1, <2>11, <3>2
  <2> QED BY <2>5, <2>12 DEF P
<1> QED BY <1>2, <1>3

(* SortBy permutes the sequence: position k of the result comes from       *)
(* position from[k], keys never decrease, and equal keys keep their order. *)
LEMMA SortByLemma ==
  ASSUME NEW T, NEW s \in Seq(T), NEW key \in [1 .. Len(s) -> Int]
  PROVE  /\ SortBy(s, key) \in Seq(T) /\ Len(SortBy(s, key)) = Len(s)
         /\ \E from \in [1 .. Len(s) -> 1 .. Len(s)] :
              /\ \A k \in 1 .. Len(s) : SortBy(s, key)[k] = s[from[k]]
              /\ \A i \in 1 .. Len(s) : \E k \in 1 .. Len(s) : from[k] = i
              /\ \A j, k \in 1 .. Len(s) : j < k =>
                   \/ key[from[j]] < key[from[k]]
                   \/ key[from[j]] = key[from[k]] /\ from[j] < from[k]
<1> DEFINE n == Len(s)
           I == 1 .. n
           Before(j, i) == key[j] < key[i] \/ (key[j] = key[i] /\ j <= i)
           below(i) == {j \in I : Before(j, i)}
           place == [i \in I |-> Cardinality(below(i))]
           from == [k \in I |-> CHOOSE i \in I : place[i] = k]
<1>1. /\ n \in Nat /\ DOMAIN s = I /\ \A i \in I : s[i] \in T
      /\ IsFiniteSet(I) /\ Cardinality(I) = n
  <2>1. n \in Nat /\ DOMAIN s = I /\ \A i \in I : s[i] \in T
    OBVIOUS
  <2>2. ASSUME NEW m \in Nat PROVE IsFiniteSet(1 .. m) /\ Cardinality(1 .. m) = m
    BY FS_Interval
  <2> QED BY <2>1, <2>2
<1>2. \A i \in I : i \in Int /\ key[i] \in Int
  BY <1>1
<1>3. SortBy(s, key) = [k \in I |-> s[from[k]]]
  <2>1. SortBy(s, key) = [k \in I |-> s[CHOOSE i \in I : Place(s, key)[i] = k]]
    BY <1>1 DEF SortBy
  <2>2. Place(s, key) = place
    BY <1>1 DEF Place
  <2> QED BY <2>1, <2>2
<1> HIDE DEF n
<1>4. ASSUME NEW i \in I
      PROVE  /\ IsFiniteSet(below(i)) /\ i \in below(i)
             /\ place[i] \in I /\ place[i] = Cardinality(below(i))
  <2>1. i \in below(i) /\ below(i) \in SUBSET I
    BY <1>1, <1>2
  <2>2. IsFiniteSet(below(i)) /\ Cardinality(below(i)) <= n
    BY <1>1, <2>1, FS_Subset
  <2>3. Cardinality(below(i)) \in Nat /\ Cardinality(below(i)) # 0
    BY <2>1, <2>2, FS_CardinalityType, FS_EmptySet
  <2>4. place[i] = Cardinality(below(i))
    OBVIOUS
  <2> HIDE DEF below, place
  <2> QED BY <1>1, <2>1, <2>2, <2>3, <2>4
<1>5. ASSUME NEW i \in I, NEW j \in I, i # j, Before(i, j)
      PROVE  place[i] < place[j]
  <2>1. ~Before(j, i) /\ \A h \in I : Before(h, i) => Before(h, j)
    BY <1>1, <1>2, <1>5
  <2> HIDE DEF Before
  <2>2. below(i) \in SUBSET below(j) /\ j \notin below(i)
    BY <2>1
  <2>3. Cardinality(below(i)) <= Cardinality(below(j)) /\ Cardinality(below(i)) # Cardinality(below(j))
    BY <1>4, <2>2, FS_Subset
  <2>4. /\ place[i] = Cardinality(below(i)) /\ place[j] = Cardinality(below(j))
        /\ place[i] \in I /\ place[j] \in I
    BY <1>4
  <2> HIDE DEF below, place
  <2> QED BY <1>1, <2>3, <2>4
<1>6. \A i, j \in I : i # j => Before(i, j) \/ Before(j, i)
  BY <1>1, <1>2
<1>7. place \in [I -> I]
  BY <1>4
<1> HIDE DEF Before, below, place
<1>8. \A i, j \in I : place[i] = place[j] => i = j
  <2> SUFFICES ASSUME NEW i \in I, NEW j \in I, place[i] = place[j], i # j PROVE FALSE
    OBVIOUS
  <2>1. place[i] < place[j] \/ place[j] < place[i]
    BY <1>5, <1>6
  <2> QED BY <1>1, <1>7, <2>1
<1>9. \A k \in I : \E i \in I : place[i] = k
  <2>1. place \in Injection(I, I)
    BY <1>7, <1>8 DEF Injection, IsInjective
  <2>2. place \in Surjection(I, I)
    BY <1>1, <2>1, FS_Injection, Zenon
  <2> QED BY <2>2 DEF Surjection
<1>10. \A k \in I : from[k] \in I /\ place[from[k]] = k
  <2> SUFFICES ASSUME NEW k \in I PROVE from[k] \in I /\ place[from[k]] = k
    OBVIOUS
  <2>1. from[k] = CHOOSE i \in I : place[i] = k
    OBVIOUS
  <2>2. \E i \in I : place[i] = k
    BY <1>9
  <2> QED BY <2>1, <2>2
<1>11. from \in [I -> I]
  BY <1>10
<1> HIDE DEF from
<1>12. \A i \in I : from[place[i]] = i /\ place[i] \in I
  BY <1>7, <1>8, <1>10
<1>13. ASSUME NEW j \in I, NEW k \in I, j < k
       PROVE  \/ key[from[j]] < key[from[k]]
              \/ key[from[j]] = key[from[k]] /\ from[j] < from[k]
  <2>1. /\ from[j] \in I /\ from[k] \in I
        /\ place[from[j]] = j /\ place[from[k]] = k
    BY <1>10
  <2>2. j # k /\ ~(k < j)
    BY <1>1, <1>13
  <2>3. from[j] # from[k] /\ ~Before(from[k], from[j])
    BY <1>5, <2>1, <2>2
  <2>4. Before(from[j], from[k])
    BY <1>6, <2>1, <2>3
  <2> QED BY <1>1, <2>1, <2>3, <2>4 DEF Before
<1>14. SortBy(s, key) \in Seq(T) /\ Len(SortBy(s, key)) = n
  <2>1. [k \in 1 .. n |-> s[from[k]]] \in Seq(T) /\ Len([k \in 1 .. n |-> s[from[k]]]) = n
    BY <1>1, <1>10
  <2> QED BY <1>3, <2>1
<1>15. \A k \in I : SortBy(s, key)[k] = s[from[k]]
  BY <1>3
<1> QED BY <1>11, <1>12, <1>13, <1>14, <1>15, Zenon DEF n

(* A largest element is the maximum.                                       *)
LEMMA MaxIs ==
  ASSUME NEW S \in SUBSET Int, NEW x \in S, \A y \in S : y <= x
  PROVE  Max(S) = x
<1>1. Max(S) \in S /\ \A y \in S : Max(S) >= y
  BY DEF Max
<1>2. Max(S) \in Int /\ x \in Int /\ Max(S) <= x /\ x <= Max(S)
  BY <1>1
<1> QED BY <1>2

LEMMA MinIs ==
  ASSUME NEW S \in SUBSET Int, NEW x \in S, \A y \in S : x <= y
  PROVE  Min(S) = x
<1>1. Min(S) \in S /\ \A y \in S : Min(S) <= y
  BY DEF Min
<1>2. Min(S) \in Int /\ x \in Int /\ Min(S) <= x /\ x <= Min(S)
  BY <1>1
<1> QED BY <1>2

(* As many different numbers as there are places take every place, and     *)
(* places that are all taken need as many.                                 *)
LEMMA PlacesLemma ==
  ASSUME NEW m \in Nat, NEW n \in Nat, NEW h \in [1 .. m -> 0 .. (n - 1)],
         \A j, k \in 1 .. m : j # k => h[j] # h[k], m >= n
  PROVE  \A i \in 0 .. (n - 1) : \E k \in 1 .. m : h[k] = i
<1> DEFINE S == 1 .. m
           T == 0 .. (n - 1)
<1>1. /\ IsFiniteSet(S) /\ Cardinality(S) = m
      /\ IsFiniteSet(T) /\ Cardinality(T) = n
  <2>1. IsFiniteSet(1 .. m) /\ Cardinality(1 .. m) = IF 1 > m THEN 0 ELSE m - 1 + 1
    BY FS_Interval
  <2>2. /\ IsFiniteSet(0 .. (n - 1))
        /\ Cardinality(0 .. (n - 1)) = IF 0 > n - 1 THEN 0 ELSE (n - 1) - 0 + 1
    BY FS_Interval
  <2> QED BY <2>1, <2>2
<1>2. h \in Injection(S, T)
  BY DEF Injection, IsInjective
<1> HIDE DEF S, T
<1>3. /\ Cardinality(S) <= Cardinality(T)
      /\ Cardinality(S) = Cardinality(T) <=> h \in Surjection(S, T)
  BY <1>1, <1>2, FS_Injection
<1>4. h \in Surjection(S, T)
  BY <1>1, <1>3
<1> QED BY <1>4 DEF Surjection, S, T

LEMMA PlacesNeeded ==
  ASSUME NEW m \in Nat, NEW n \in Nat, NEW h \in [0 .. (n - 1) -> 1 .. m],
         \A i, j \in 0 .. (n - 1) : i # j => h[i] # h[j]
  PROVE  n <= m
<1> DEFINE S == 0 .. (n - 1)
           T == 1 .. m
<1>1. /\ IsFiniteSet(T) /\ Cardinality(T) = m
      /\ IsFiniteSet(S) /\ Cardinality(S) = n
  <2>1. IsFiniteSet(1 .. m) /\ Cardinality(1 .. m) = IF 1 > m THEN 0 ELSE m - 1 + 1
    BY FS_Interval
  <2>2. /\ IsFiniteSet(0 .. (n - 1))
        /\ Cardinality(0 .. (n - 1)) = IF 0 > n - 1 THEN 0 ELSE (n - 1) - 0 + 1
    BY FS_Interval
  <2> QED BY <2>1, <2>2
<1>2. h \in Injection(S, T)
  BY DEF Injection, IsInjective
<1> HIDE DEF S, T
<1>3. Cardinality(S) <= Cardinality(T)
  BY <1>1, <1>2, FS_Injection
<1> QED BY <1>1, <1>3
-----------------------------------------------------------------------------
(* Remainders, for a divisor that is no numeral.                           *)
LEMMA RemainderLemma ==
  ASSUME NEW a \in Int, NEW b \in Nat, b # 0
  PROVE  /\ a \div b \in Int /\ a % b \in Int
         /\ a = b * (a \div b) + (a % b) /\ 0 <= a % b /\ a % b < b
<1>1. a \div b \in Int /\ a % b \in Int /\ 0 <= a % b /\ a % b < b
  OBVIOUS
<1>2. a % b = a - b * (a \div b)
  OBVIOUS
<1>3. b * (a \div b) \in Int
  BY <1>1
<1> QED BY <1>1, <1>2, <1>3

LEMMA DistributesLemma ==
  ASSUME NEW a \in Int, NEW b \in Int, NEW c \in Int
  PROVE  a * (b - c) = a * b - a * c /\ a * b \in Int /\ a * c \in Int
OBVIOUS

LEMMA RemainderIs ==
  ASSUME NEW b \in Nat, b # 0, NEW q \in Int, NEW r \in 0 .. (b - 1)
  PROVE  (b * q + r) % b = r
<1> DEFINE a == b * q + r
           p == a \div b
<1>1. a \in Int /\ b * q \in Int
  OBVIOUS
<1>2. /\ p \in Int /\ a % b \in Int
      /\ a = b * p + (a % b) /\ 0 <= a % b /\ a % b < b
  BY <1>1, RemainderLemma
<1>3. b * q + r = b * p + (a % b)
  BY <1>2
<1> HIDE DEF a, p
<1>4. b * (q - p) = (a % b) - r
  <2>1. b * (q - p) = b * q - b * p /\ b * p \in Int
    BY <1>2, DistributesLemma
  <2> DEFINE bq == b * q
             bp == b * p
             s == a % b
  <2>2. bq \in Int /\ bp \in Int /\ s \in Int /\ bq + r = bp + s
    BY <1>1, <1>2, <1>3, <2>1
  <2> HIDE DEF bq, bp, s
  <2>3. bq - bp = s - r
    BY <2>2
  <2> QED BY <2>1, <2>3 DEF bq, bp, s
<1>5. q = p
  <2>1. CASE q - p >= 1
    <3>1. b * (q - p) >= b
      BY <1>2, <2>1
    <3> QED BY <1>2, <1>4, <3>1
  <2>2. CASE q - p <= -1
    <3>1. b * (q - p) <= -b
      BY <1>2, <2>2
    <3> QED BY <1>2, <1>4, <3>1
  <2> QED BY <1>2, <2>1, <2>2
<1> QED BY <1>1, <1>2, <1>3, <1>5 DEF a
=============================================================================
