--------------------------- MODULE Search_proofs ---------------------------
(***************************************************************************)
(* Searching.  For any scores, mask, k, threshold and cut into ranges, a   *)
(* scan answers the exact top-k, ties included, and a collector nothing    *)
(* less (TileScan); for any chunk size and any queries, the walk of an     *)
(* image holds at every chunk the best k so far, in order (ChunkScan); for *)
(* any streams, chunks and relays of the floors, the coordinator ends with *)
(* the best k of all the indexes (StreamScan).  And for any threads, pids  *)
(* and sizes, and any number of forks, a job only goes to a pool that has  *)
(* workers (ForkPool).                                                     *)
(*                                                                         *)
(* The first part is about the best n of a set of hits.  TopK defines them *)
(* by rank, the number of hits that are better, so what is needed of them  *)
(* follows from the ranks of a finite set being the numbers below its size.*)
(***************************************************************************)
EXTENDS TileScan, ChunkScan, StreamScan, ForkPool, FiniteSetTheorems, SequenceTheorems, TLAPS

-----------------------------------------------------------------------------
(* The order of hits, and what the best n of a set are.                    *)
HitType == [score : Int, slot : Int]

Betters(h, S) == {g \in S : Better(g, h)}

LEMMA HitIs == \A s, i \in Int : /\ Hit(s, i) \in HitType
                                 /\ Hit(s, i).score = s /\ Hit(s, i).slot = i
BY DEF Hit, HitType

LEMMA Fields == \A h \in HitType : h.score \in Int /\ h.slot \in Int
BY DEF HitType

(* A strict total order.                                                   *)
LEMMA OneBetter == ASSUME NEW a \in HitType, NEW b \in HitType, a # b
                   PROVE  (Better(a, b) \/ Better(b, a)) /\ ~ (Better(a, b) /\ Better(b, a))
<1>1. a = Hit(a.score, a.slot) /\ b = Hit(b.score, b.slot)
  BY DEF Hit, HitType
<1>2. ~ (a.score = b.score /\ a.slot = b.slot)
  BY <1>1
<1> QED BY <1>2, Fields DEF Better

LEMMA NotItself == \A a \in HitType : ~ Better(a, a)
BY Fields DEF Better

LEMMA BetterYet == \A a, b, c \in HitType : Better(a, b) /\ Better(b, c) => Better(a, c)
BY Fields DEF Better

LEMMA RankFinite ==
  ASSUME NEW S, S \subseteq HitType, IsFiniteSet(S), NEW h
  PROVE  /\ IsFiniteSet(Betters(h, S)) /\ Cardinality(Betters(h, S)) \in Nat
         /\ Cardinality(S) \in Nat
         /\ h \in S => Cardinality(Betters(h, S)) < Cardinality(S)
<1>1. Betters(h, S) \in SUBSET S
  BY DEF Betters
<1>2. IsFiniteSet(Betters(h, S)) /\ Cardinality(Betters(h, S)) <= Cardinality(S)
      /\ (Cardinality(S) = Cardinality(Betters(h, S)) => S = Betters(h, S))
  BY <1>1, FS_Subset
<1>3. Cardinality(Betters(h, S)) \in Nat /\ Cardinality(S) \in Nat
  BY <1>2, FS_CardinalityType
<1>4. h \in S => h \notin Betters(h, S)
  BY NotItself DEF Betters
<1> QED BY <1>2, <1>3, <1>4

(* The better of two hits has the lower rank.                              *)
LEMMA RankLess ==
  ASSUME NEW S, S \subseteq HitType, IsFiniteSet(S), NEW a \in S, NEW b \in S, Better(a, b)
  PROVE  Cardinality(Betters(a, S)) < Cardinality(Betters(b, S))
<1>1. Betters(a, S) \in SUBSET Betters(b, S)
  BY BetterYet DEF Betters
<1>2. a \in Betters(b, S) /\ a \notin Betters(a, S)
  BY NotItself DEF Betters
<1>3. IsFiniteSet(Betters(b, S)) /\ Cardinality(Betters(b, S)) \in Nat /\ Cardinality(Betters(a, S)) \in Nat
  BY RankFinite
<1>4. /\ Cardinality(Betters(a, S)) <= Cardinality(Betters(b, S))
      /\ Cardinality(Betters(a, S)) = Cardinality(Betters(b, S)) => Betters(b, S) = Betters(a, S)
  BY <1>1, <1>3, FS_Subset
<1> QED BY <1>2, <1>3, <1>4

(* The ranks of n hits are the numbers below n.                            *)
LEMMA RanksAre ==
  ASSUME NEW S, S \subseteq HitType, IsFiniteSet(S)
  PROVE  [h \in S |-> Cardinality(Betters(h, S))] \in Bijection(S, 0 .. Cardinality(S) - 1)
<1> DEFINE f == [h \in S |-> Cardinality(Betters(h, S))]
           T == 0 .. Cardinality(S) - 1
<1>1. f \in [S -> T]
  BY RankFinite
<1>2. \A a, b \in S : f[a] = f[b] => a = b
  <2> SUFFICES ASSUME NEW a \in S, NEW b \in S, f[a] = f[b], a # b PROVE FALSE
    OBVIOUS
  <2>1. CASE Better(a, b)
    BY <2>1, RankLess, RankFinite
  <2>2. CASE Better(b, a)
    BY <2>2, RankLess, RankFinite
  <2> QED BY <2>1, <2>2, OneBetter
<1>3. f \in Injection(S, T)
  BY <1>1, <1>2 DEF Injection, IsInjective
<1>4. IsFiniteSet(T) /\ Cardinality(T) = Cardinality(S)
  <2>1. Cardinality(S) \in Nat BY FS_CardinalityType
  <2>2. 0 \in Int /\ Cardinality(S) - 1 \in Int BY <2>1
  <2>3. IsFiniteSet(T) /\ Cardinality(T) = IF 0 > Cardinality(S) - 1 THEN 0 ELSE Cardinality(S) - 1 - 0 + 1
    BY <2>2, FS_Interval
  <2> QED BY <2>1, <2>3
<1> HIDE DEF f, T
<1>5. f \in Surjection(S, T)
  BY <1>3, <1>4, FS_Injection
<1> QED BY <1>3, <1>5 DEF Bijection, f, T

LEMMA BestIs == ASSUME NEW S, NEW n PROVE Best(S, n) = {h \in S : Cardinality(Betters(h, S)) < n}
BY DEF Best, Betters

(* There are n best, or as many as there are.                              *)
LEMMA BestSize ==
  ASSUME NEW S, S \subseteq HitType, IsFiniteSet(S), NEW n \in Nat
  PROVE  /\ Best(S, n) \subseteq S /\ IsFiniteSet(Best(S, n))
         /\ Cardinality(S) <= n => Best(S, n) = S
         /\ Cardinality(S) >= n => Cardinality(Best(S, n)) = n
<1> DEFINE B == Best(S, n)
           f == [h \in S |-> Cardinality(Betters(h, S))]
           g == [h \in B |-> f[h]]
<1>1. B \subseteq S
  BY BestIs
<1>2. IsFiniteSet(B)
  BY <1>1, FS_Subset
<1>3. ASSUME Cardinality(S) <= n PROVE B = S
  <2>1. \A h \in S : Cardinality(Betters(h, S)) < n
    BY <1>3, RankFinite
  <2> QED BY <2>1, BestIs
<1>4. ASSUME Cardinality(S) >= n PROVE Cardinality(B) = n
  <2>1. Cardinality(S) \in Nat BY FS_CardinalityType
  <2>2. f \in Bijection(S, 0 .. Cardinality(S) - 1)
    BY RanksAre
  <2>3. B = {h \in S : f[h] < n}
    BY BestIs
  <2> HIDE DEF f, B
  <2>4. g \in Bijection(B, 0 .. n - 1)
    <3>1. /\ f \in [S -> 0 .. Cardinality(S) - 1]
          /\ \A a, b \in S : f[a] = f[b] => a = b
          /\ \A t \in 0 .. Cardinality(S) - 1 : \E s \in S : f[s] = t
      BY <2>2 DEF Bijection, Injection, Surjection, IsInjective
    <3>2. g \in [B -> 0 .. n - 1]
      BY <2>1, <2>3, <3>1
    <3>3. \A a, b \in B : g[a] = g[b] => a = b
      BY <1>1, <3>1
    <3>4. \A t \in 0 .. n - 1 : \E s \in B : g[s] = t
      <4> TAKE t \in 0 .. n - 1
      <4>1. t \in 0 .. Cardinality(S) - 1 BY <1>4, <2>1
      <4>2. PICK s \in S : f[s] = t BY <3>1, <4>1
      <4>3. s \in B BY <2>3, <4>2
      <4> QED BY <4>2, <4>3
    <3> HIDE DEF g
    <3> QED BY <3>2, <3>3, <3>4 DEF Bijection, Injection, Surjection, IsInjective
  <2>5. ExistsBijection(B, 0 .. n - 1)
    BY <2>4 DEF ExistsBijection
  <2>6. Cardinality(0 .. n - 1) = Cardinality(B)
    BY <1>2, <2>5, FS_Bijection DEF B
  <2>7. Cardinality(0 .. n - 1) = IF 0 > n - 1 THEN 0 ELSE n - 1 - 0 + 1
    <3>1. 0 \in Int /\ n - 1 \in Int OBVIOUS
    <3> QED BY <3>1, FS_Interval
  <2> QED BY <2>6, <2>7
<1> QED BY <1>1, <1>2, <1>3, <1>4

(* The worst of a set is there.                                            *)
LEMMA WorstIs ==
  ASSUME NEW S, S \subseteq HitType, IsFiniteSet(S), S # {}
  PROVE  RescanMin(S) \in S /\ \A g \in S \ {RescanMin(S)} : Better(g, RescanMin(S))
<1> DEFINE f == [h \in S |-> Cardinality(Betters(h, S))]
<1>1. Cardinality(S) \in Nat \ {0}
  BY FS_CardinalityType, FS_EmptySet
<1>2. f \in Surjection(S, 0 .. Cardinality(S) - 1)
  BY RanksAre DEF Bijection
<1>3. Cardinality(S) - 1 \in 0 .. Cardinality(S) - 1
  BY <1>1
<1>4. PICK h \in S : f[h] = Cardinality(S) - 1
  <2> HIDE DEF f
  <2> QED BY <1>2, <1>3 DEF Surjection
<1>5. Betters(h, S) = S \ {h}
  <2>1. Betters(h, S) \in SUBSET (S \ {h})
    BY NotItself DEF Betters
  <2>2. IsFiniteSet(S \ {h}) /\ Cardinality(S \ {h}) = Cardinality(S) - 1
    BY FS_RemoveElement
  <2>3. Cardinality(S \ {h}) = Cardinality(Betters(h, S))
    BY <1>4, <2>2
  <2> QED BY <2>1, <2>2, <2>3, FS_Subset
<1>6. \A g \in S \ {h} : Better(g, h)
  BY <1>5 DEF Betters
<1> QED BY <1>6 DEF RescanMin

(* What is better than one of the best is one of them.                     *)
LEMMA BestUp ==
  ASSUME NEW S, NEW n, NEW h, NEW g, S \subseteq HitType, IsFiniteSet(S), n \in Nat,
         h \in Best(S, n), g \in S, Better(g, h)
  PROVE  g \in Best(S, n)
<1>1. h \in S /\ Cardinality(Betters(h, S)) < n
  BY BestIs
<1>2. Cardinality(Betters(g, S)) < Cardinality(Betters(h, S))
  BY <1>1, RankLess
<1>3. Cardinality(Betters(g, S)) \in Nat /\ Cardinality(Betters(h, S)) \in Nat
  BY RankFinite
<1> QED BY <1>1, <1>2, <1>3, BestIs

(* One of the best stays so among fewer.                                   *)
LEMMA BestOfFewer ==
  ASSUME NEW S, NEW T, NEW n, NEW h, S \subseteq HitType, IsFiniteSet(S), T \subseteq S, n \in Nat,
         h \in Best(S, n), h \in T
  PROVE  h \in Best(T, n)
<1>1. Cardinality(Betters(h, S)) < n
  BY BestIs
<1>2. Betters(h, T) \in SUBSET Betters(h, S) /\ IsFiniteSet(Betters(h, S))
  BY RankFinite DEF Betters
<1>3. Cardinality(Betters(h, T)) <= Cardinality(Betters(h, S))
  BY <1>2, FS_Subset
<1>4. IsFiniteSet(T) /\ T \subseteq HitType
  BY FS_Subset
<1>5. Cardinality(Betters(h, S)) \in Nat /\ Cardinality(Betters(h, T)) \in Nat
  BY <1>4, RankFinite
<1> QED BY <1>1, <1>3, <1>5, BestIs

(* Nothing but the best of a set decides what the best of a part are.      *)
LEMMA Absorb ==
  ASSUME NEW S, NEW T, NEW n, S \subseteq HitType, IsFiniteSet(S), T \subseteq S, n \in Nat,
         Best(S, n) \subseteq T
  PROVE  Best(T, n) = Best(S, n)
<1>1. Best(S, n) \subseteq Best(T, n)
  BY BestOfFewer
<1>2. ASSUME NEW h \in Best(T, n), h \notin Best(S, n) PROVE FALSE
  <2>1. h \in T /\ h \in S /\ Cardinality(Betters(h, T)) < n
    BY <1>2, BestIs
  <2>2. IsFiniteSet(T) /\ T \subseteq HitType
    BY FS_Subset
  <2>3. Cardinality(S) \in Nat /\ Cardinality(Betters(h, T)) \in Nat /\ IsFiniteSet(Betters(h, T))
    BY <2>2, RankFinite, FS_CardinalityType
  <2>4. Cardinality(S) > n
    BY <1>2, <2>1, <2>3, BestSize
  <2>5. Cardinality(Best(S, n)) = n /\ Best(S, n) \subseteq S
    BY <2>3, <2>4, BestSize
  <2>6. Best(S, n) \in SUBSET Betters(h, T)
    <3> SUFFICES ASSUME NEW g \in Best(S, n) PROVE Better(g, h)
      BY DEF Betters
    <3>1. g \in S /\ g # h BY <1>2, <2>5
    <3>2. ~ Better(h, g) BY <1>2, <2>1, <3>1, BestUp
    <3> QED BY <2>1, <3>1, <3>2, OneBetter
  <2>7. Cardinality(Best(S, n)) <= Cardinality(Betters(h, T))
    BY <2>3, <2>6, FS_Subset
  <2> QED BY <2>1, <2>3, <2>5, <2>7
<1> QED BY <1>1, <1>2

(* The best of a union need only the best of one side.                     *)
LEMMA BestUnion ==
  ASSUME NEW A, NEW B, NEW n, A \subseteq HitType, B \subseteq HitType,
         IsFiniteSet(A), IsFiniteSet(B), n \in Nat
  PROVE  Best(A \cup B, n) = Best(Best(A, n) \cup B, n)
<1> DEFINE S == A \cup B
           T == Best(A, n) \cup B
<1>1. IsFiniteSet(S) /\ S \subseteq HitType
  BY FS_Union
<1>2. T \subseteq S
  BY BestIs
<1>3. Best(S, n) \subseteq T
  <2> SUFFICES ASSUME NEW h \in Best(S, n), h \in A PROVE h \in Best(A, n)
    BY BestIs
  <2> QED BY <1>1, BestOfFewer
<1> HIDE DEF S, T
<1>4. Best(T, n) = Best(S, n)
  BY <1>1, <1>2, <1>3, Absorb
<1> QED BY <1>4 DEF S, T

(* Beaten by n others, a hit is not one of the best n.                     *)
LEMMA Beaten ==
  ASSUME NEW S, NEW T, NEW n, NEW h, S \subseteq HitType, IsFiniteSet(S), n \in Nat,
         T \subseteq S, Cardinality(T) >= n, \A g \in T : Better(g, h)
  PROVE  h \notin Best(S, n)
<1>1. T \in SUBSET Betters(h, S)
  BY DEF Betters
<1>2. IsFiniteSet(Betters(h, S)) /\ Cardinality(Betters(h, S)) \in Nat
  BY RankFinite
<1>3. Cardinality(T) <= Cardinality(Betters(h, S)) /\ IsFiniteSet(T)
  BY <1>1, <1>2, FS_Subset
<1>4. Cardinality(T) \in Nat
  BY <1>3, FS_CardinalityType
<1> QED BY <1>2, <1>3, <1>4, BestIs

AtLeast(S, f) == {h \in S : h.score >= f}

(* If n are at or above a floor, the best n are.                           *)
LEMMA FloorHeld ==
  ASSUME NEW S, NEW n, NEW f, S \subseteq HitType, IsFiniteSet(S), n \in Nat, f \in Int,
         Cardinality(AtLeast(S, f)) >= n
  PROVE  AtLeast(Best(S, n), f) = Best(S, n) /\ Cardinality(Best(S, n)) = n
<1>1. AtLeast(S, f) \in SUBSET S
  BY DEF AtLeast
<1>2. /\ IsFiniteSet(AtLeast(S, f)) /\ Cardinality(AtLeast(S, f)) <= Cardinality(S)
      /\ Cardinality(AtLeast(S, f)) \in Nat /\ Cardinality(S) \in Nat
  BY <1>1, FS_Subset, FS_CardinalityType
<1>3. Cardinality(Best(S, n)) = n /\ Best(S, n) \subseteq S
  BY <1>2, BestSize
<1>4. ASSUME NEW h \in Best(S, n) PROVE h.score >= f
  <2>1. SUFFICES ASSUME ~ (h.score >= f) PROVE FALSE
    OBVIOUS
  <2>2. h \in HitType /\ h.score \in Int
    BY <1>3, Fields
  <2>3. \A g \in AtLeast(S, f) : Better(g, h)
    BY <2>1, <2>2, Fields DEF AtLeast, Better
  <2> QED BY <1>1, <2>3, Beaten
<1> QED BY <1>3, <1>4 DEF AtLeast

(* The image of a finite set.                                              *)
LEMMA FiniteImage ==
  ASSUME NEW f, NEW S, IsFiniteSet(S)
  PROVE  /\ IsFiniteSet({f[a] : a \in S}) /\ Cardinality({f[a] : a \in S}) \in Nat
         /\ Cardinality({f[a] : a \in S}) <= Cardinality(S)
<1> DEFINE T == {f[a] : a \in S}
           g == [a \in S |-> f[a]]
<1>1. g \in Surjection(S, T)
  BY DEF Surjection
<1> HIDE DEF g, T
<1>2. IsFiniteSet(T) /\ Cardinality(T) <= Cardinality(S)
  BY <1>1, FS_Surjection
<1> QED BY <1>2, FS_CardinalityType DEF T

(* The least of finitely many numbers: the worst of hits with these scores. *)
LEMMA MinIs ==
  ASSUME NEW S, S \subseteq Int, IsFiniteSet(S), S # {}
  PROVE  Min(S) \in S /\ \A s \in S : Min(S) <= s
<1> DEFINE f == [s \in S |-> Hit(s, 0)]
           H == {f[s] : s \in S}
<1>1. IsFiniteSet(H)
  BY FiniteImage
<1>2. H \subseteq HitType /\ H # {}
  <2>1. \A s \in S : s \in Int /\ 0 \in Int
    OBVIOUS
  <2>2. \A s \in S : f[s] \in HitType
    BY <2>1, HitIs
  <2> HIDE DEF f
  <2> QED BY <2>2
<1>3. \A h \in H : h.score \in S
  BY HitIs
<1>4. \A s \in S : Hit(s, 0) \in H /\ Hit(s, 0).score = s
  BY HitIs
<1> HIDE DEF H
<1> DEFINE w == RescanMin(H)
<1>5. w \in H /\ \A g \in H \ {w} : Better(g, w)
  BY <1>1, <1>2, WorstIs
<1> HIDE DEF w
<1>6. \A s \in S : w.score <= s
  <2> SUFFICES ASSUME NEW s \in S PROVE w.score <= s
    OBVIOUS
  <2>1. Hit(s, 0) = w \/ Better(Hit(s, 0), w)
    BY <1>4, <1>5
  <2>2. w.score \in Int
    BY <1>3, <1>5
  <2> QED BY <1>4, <2>1, <2>2 DEF Better
<1>7. w.score \in S
  BY <1>3, <1>5
<1> QED BY <1>6, <1>7 DEF Min

LEMMA MinOfTwo == \A a, b \in Int : Min({a, b}) = IF a <= b THEN a ELSE b
BY DEF Min

-----------------------------------------------------------------------------
(* A heap or a collector, and the lanes it has been offered.               *)

MinHeld(h, k) == Cardinality(AtLeast(h.hits, h.min)) >= k

\* S are the hits offered above the cutoff c: the best k of them are held, and
\* the cutoff is c, or what k of the held are at or above.
HeapHolds(h, S, c, k, buffered) ==
    /\ h \in [hits : SUBSET HitType, min : Int]
    /\ h.hits \subseteq S /\ Best(S, k) \subseteq h.hits
    /\ h.min >= c /\ (h.min = c \/ MinHeld(h, k))
    /\ ~ buffered => /\ Cardinality(h.hits) <= k
                     /\ Cardinality(h.hits) = k => h.min = RescanMin(h.hits).score

LEMMA FreshHolds ==
  ASSUME NEW c \in Int, NEW k \in Nat \ {0}, NEW buffered
  PROVE  HeapHolds(Fresh(c), {}, c, k, buffered)
<1>1. Best({}, k) = {}
  BY BestIs
<1>2. Cardinality({}) = 0
  BY FS_EmptySet
<1> QED BY <1>1, <1>2 DEF HeapHolds, Fresh

LEMMA MaxOfTwo == \A a, b \in Int : Max({a, b}) = IF a >= b THEN a ELSE b
BY DEF Max

(* Hits at or above a score, among more of them.                           *)
LEMMA AtLeastMore ==
  ASSUME NEW S, NEW T, NEW f, NEW k \in Nat, IsFiniteSet(T), S \subseteq T, Cardinality(AtLeast(S, f)) >= k
  PROVE  Cardinality(AtLeast(T, f)) >= k
<1>1. AtLeast(T, f) \in SUBSET T /\ AtLeast(S, f) \in SUBSET AtLeast(T, f)
  BY DEF AtLeast
<1>2. IsFiniteSet(AtLeast(T, f))
  BY <1>1, FS_Subset
<1>3. IsFiniteSet(AtLeast(S, f)) /\ Cardinality(AtLeast(S, f)) <= Cardinality(AtLeast(T, f))
  BY <1>1, <1>2, FS_Subset
<1>4. Cardinality(AtLeast(S, f)) \in Nat /\ Cardinality(AtLeast(T, f)) \in Nat
  BY <1>2, <1>3, FS_CardinalityType
<1> QED BY <1>3, <1>4

(* All of a set is at or above the score of its worst.                     *)
LEMMA AllAtWorst ==
  ASSUME NEW S, S \subseteq HitType, IsFiniteSet(S), S # {}
  PROVE  /\ RescanMin(S).score \in Int /\ AtLeast(S, RescanMin(S).score) = S
<1> DEFINE w == RescanMin(S)
<1>1. w \in S /\ \A g \in S \ {w} : Better(g, w)
  BY WorstIs
<1> HIDE DEF w
<1>2. w.score \in Int
  BY <1>1, Fields
<1>3. \A g \in S : g.score >= w.score
  BY <1>1, <1>2, Fields DEF Better
<1> QED BY <1>2, <1>3 DEF AtLeast, w

(* A lane at or below a heap's cutoff is not among the best.               *)
LEMMA RefusedHolds ==
  ASSUME NEW h, NEW S, NEW hit \in HitType, NEW c \in Int, NEW k \in Nat \ {0}, NEW buffered \in BOOLEAN,
         S \subseteq HitType, IsFiniteSet(S), \A g \in S : g.slot < hit.slot,
         HeapHolds(h, S, c, k, buffered), hit.score > c, hit.score <= h.min
  PROVE  HeapHolds(h, S \cup {hit}, c, k, buffered)
<1> DEFINE S2 == S \cup {hit}
<1>1. IsFiniteSet(S2) /\ S2 \subseteq HitType
  BY FS_AddElement
<1>2. hit.score \in Int /\ h.min \in Int /\ h.hits \subseteq S
  BY Fields DEF HeapHolds
<1>3. MinHeld(h, k)
  BY <1>2 DEF HeapHolds
<1>4. AtLeast(h.hits, h.min) \subseteq S2
  BY <1>2 DEF AtLeast
<1>5. \A g \in AtLeast(h.hits, h.min) : Better(g, hit)
  BY <1>2, Fields DEF AtLeast, Better
<1>6. hit \notin Best(S2, k)
  <2> HIDE DEF S2
  <2> QED BY <1>1, <1>3, <1>4, <1>5, Beaten DEF MinHeld
<1>7. ASSUME NEW g \in Best(S2, k) PROVE g \in h.hits
  <2>1. g \in S BY <1>6, <1>7, BestIs
  <2>2. g \in Best(S, k)
    <3>1. S \subseteq S2 OBVIOUS
    <3> HIDE DEF S2
    <3> QED BY <1>1, <1>7, <2>1, <3>1, BestOfFewer
  <2> QED BY <2>2 DEF HeapHolds
<1> QED BY <1>2, <1>7 DEF HeapHolds

(* What the best of the lanes are among, once one more is held.            *)
LEMMA BestOneMore ==
  ASSUME NEW h, NEW S, NEW hit \in HitType, NEW c \in Int, NEW k \in Nat \ {0}, NEW buffered \in BOOLEAN,
         S \subseteq HitType, IsFiniteSet(S), HeapHolds(h, S, c, k, buffered)
  PROVE  /\ IsFiniteSet(S \cup {hit}) /\ S \cup {hit} \subseteq HitType
         /\ h.hits \cup {hit} \subseteq S \cup {hit} /\ IsFiniteSet(h.hits \cup {hit})
         /\ IsFiniteSet(h.hits)
         /\ Best(S \cup {hit}, k) \subseteq h.hits \cup {hit}
<1> DEFINE S2 == S \cup {hit}
<1>1. IsFiniteSet(S2) /\ S2 \subseteq HitType /\ S \subseteq S2
  BY FS_AddElement
<1>2. h.hits \subseteq S
  BY DEF HeapHolds
<1>3. IsFiniteSet(h.hits) /\ IsFiniteSet(h.hits \cup {hit})
  BY <1>2, FS_Subset, FS_AddElement
<1>4. ASSUME NEW g \in Best(S2, k), g # hit PROVE g \in h.hits
  <2>1. g \in S BY <1>4, BestIs
  <2>2. g \in Best(S, k)
    <3> HIDE DEF S2
    <3> QED BY <1>1, <1>4, <2>1, BestOfFewer
  <2> QED BY <2>2 DEF HeapHolds
<1> QED BY <1>1, <1>2, <1>3, <1>4

(* A collector compacted to its best half.                                 *)
LEMMA CompactHolds ==
  ASSUME NEW H, NEW S, NEW c \in Int, NEW k \in Nat \ {0},
         S \subseteq HitType, IsFiniteSet(S), H \subseteq S, Best(S, k) \subseteq H,
         \A g \in S : g.score > c, Cardinality(H) = 2 * k
  PROVE  HeapHolds(CompactHalf(H, 2 * k), S, c, k, TRUE)
<1> DEFINE keep == Best(H, k)
<1>1. Max({(2 * k) \div 2, 1}) = k
  BY MaxOfTwo
<1>2. CompactHalf(H, 2 * k) = [hits |-> keep, min |-> RescanMin(keep).score]
  BY <1>1 DEF CompactHalf
<1>3. IsFiniteSet(H) /\ H \subseteq HitType
  BY FS_Subset
<1>4. keep \subseteq H /\ IsFiniteSet(keep) /\ Cardinality(keep) = k
  <2>1. Cardinality(H) >= k OBVIOUS
  <2> QED BY <1>3, <2>1, BestSize
<1>5. Best(H, k) = Best(S, k)
  BY Absorb
<1> HIDE DEF keep
<1>6. keep # {}
  BY <1>4, FS_EmptySet
<1>7. RescanMin(keep) \in keep /\ RescanMin(keep).score \in Int /\ AtLeast(keep, RescanMin(keep).score) = keep
  BY <1>3, <1>4, <1>6, WorstIs, AllAtWorst
<1>8. RescanMin(keep).score > c
  BY <1>4, <1>7
<1>9. Best(S, k) = keep
  BY <1>5 DEF keep
<1> QED BY <1>2, <1>3, <1>4, <1>7, <1>8, <1>9 DEF HeapHolds, MinHeld

(* A collector that a lane is added to.                                    *)
LEMMA BufferedHolds ==
  ASSUME NEW h, NEW S, NEW hit \in HitType, NEW c \in Int, NEW k \in Nat \ {0},
         S \subseteq HitType, IsFiniteSet(S), \A g \in S : g.score > c,
         HeapHolds(h, S, c, k, TRUE), hit.score > h.min
  PROVE  HeapHolds(OfferBuffered(h, hit, 2 * k), S \cup {hit}, c, k, TRUE)
<1> DEFINE S2 == S \cup {hit}
           H == h.hits \cup {hit}
<1>1. /\ IsFiniteSet(S2) /\ S2 \subseteq HitType /\ H \subseteq S2 /\ IsFiniteSet(H)
      /\ Best(S2, k) \subseteq H
  BY BestOneMore
<1>2. h \in [hits : SUBSET HitType, min : Int] /\ hit.score \in Int /\ h.min >= c
  BY Fields DEF HeapHolds
<1>3. \A g \in S2 : g.score > c
  BY <1>2
<1>4. ~ (hit.score <= h.min)
  BY <1>2
<1>5. CASE Cardinality(H) = 2 * k
  <2>1. OfferBuffered(h, hit, 2 * k) = CompactHalf(H, 2 * k)
    BY <1>4, <1>5 DEF OfferBuffered
  <2> HIDE DEF S2, H
  <2> QED BY <1>1, <1>3, <1>5, <2>1, CompactHolds DEF S2
<1>6. CASE Cardinality(H) # 2 * k
  <2>1. OfferBuffered(h, hit, 2 * k) = [h EXCEPT !.hits = H]
    BY <1>4, <1>6 DEF OfferBuffered
  <2>2. [h EXCEPT !.hits = H] = [hits |-> H, min |-> h.min]
    BY <1>2
  <2>3. MinHeld(h, k) => Cardinality(AtLeast(H, h.min)) >= k
    BY <1>1, AtLeastMore DEF MinHeld
  <2> DEFINE n == [hits |-> H, min |-> h.min]
  <2>4. n.hits = H /\ n.min = h.min /\ (h.min = c \/ MinHeld(n, k))
    BY <2>3 DEF HeapHolds, MinHeld
  <2>5. n \in [hits : SUBSET HitType, min : Int]
    BY <1>1, <1>2
  <2> HIDE DEF n, H, S2
  <2>6. HeapHolds(n, S2, c, k, TRUE)
    BY <1>1, <1>2, <2>4, <2>5 DEF HeapHolds
  <2> QED BY <2>1, <2>2, <2>6 DEF n, S2
<1> QED BY <1>5, <1>6

(* A heap that a lane is added to, its worst evicted when it was full.     *)
LEMMA HeapTakes ==
  ASSUME NEW h, NEW S, NEW hit \in HitType, NEW c \in Int, NEW k \in Nat \ {0},
         S \subseteq HitType, IsFiniteSet(S), \A g \in S : g.score > c /\ g.slot < hit.slot,
         HeapHolds(h, S, c, k, FALSE), hit.score > h.min
  PROVE  HeapHolds(OfferHeap(h, hit, k), S \cup {hit}, c, k, FALSE)
<1> DEFINE S2 == S \cup {hit}
           w == RescanMin(h.hits)
           held == IF Cardinality(h.hits) < k THEN h.hits \cup {hit} ELSE (h.hits \ {w}) \cup {hit}
           m == IF Cardinality(held) < k THEN h.min ELSE RescanMin(held).score
<1>1. /\ IsFiniteSet(S2) /\ S2 \subseteq HitType /\ h.hits \cup {hit} \subseteq S2
      /\ IsFiniteSet(h.hits \cup {hit}) /\ IsFiniteSet(h.hits) /\ Best(S2, k) \subseteq h.hits \cup {hit}
  BY BestOneMore
<1>2. /\ h \in [hits : SUBSET HitType, min : Int] /\ hit.score \in Int /\ h.min >= c /\ h.hits \subseteq S
      /\ Cardinality(h.hits) <= k /\ Cardinality(h.hits) \in Nat /\ hit.slot \in Int
  BY <1>1, Fields, FS_CardinalityType DEF HeapHolds
<1>3. hit \notin h.hits
  BY <1>2
<1>4. OfferHeap(h, hit, k) = [hits |-> held, min |-> m]
  BY <1>2 DEF OfferHeap
<1>5. /\ held \subseteq S2 /\ IsFiniteSet(held) /\ Best(S2, k) \subseteq held /\ Cardinality(held) <= k
      /\ Cardinality(held) \in Nat
      /\ Cardinality(h.hits) < k => h.hits \subseteq held
      /\ ~ (Cardinality(h.hits) < k) => Cardinality(held) = k
  <2>1. CASE Cardinality(h.hits) < k
    <3>1. held = h.hits \cup {hit} BY <2>1
    <3>2. Cardinality(h.hits \cup {hit}) = Cardinality(h.hits) + 1
      BY <1>1, <1>3, FS_AddElement
    <3> HIDE DEF held, S2
    <3> QED BY <1>1, <1>2, <2>1, <3>1, <3>2
  <2>2. CASE ~ (Cardinality(h.hits) < k)
    <3>1. held = (h.hits \ {w}) \cup {hit} BY <2>2
    <3>2. Cardinality(h.hits) = k BY <1>2, <2>2
    <3>3. h.hits # {} BY <3>2, FS_EmptySet
    <3>4. h.hits \subseteq HitType BY <1>2
    <3>5. w \in h.hits /\ \A g \in h.hits \ {w} : Better(g, w)
      BY <1>1, <3>3, <3>4, WorstIs
    <3>6. h.min = w.score BY <3>2 DEF HeapHolds
    <3> HIDE DEF w
    <3>7. IsFiniteSet(h.hits \ {w}) /\ Cardinality(h.hits \ {w}) = k - 1
      BY <1>1, <3>2, <3>5, FS_RemoveElement
    <3>8. hit \notin h.hits \ {w}
      BY <1>3
    <3>9. IsFiniteSet(held) /\ Cardinality(held) = k
      <4>1. IsFiniteSet((h.hits \ {w}) \cup {hit})
            /\ Cardinality((h.hits \ {w}) \cup {hit}) = Cardinality(h.hits \ {w}) + 1
        BY <3>7, <3>8, FS_AddElement
      <4> HIDE DEF held
      <4> QED BY <3>1, <3>7, <4>1
    <3>10. held \subseteq S2
      BY <1>1, <3>1
    <3>11. \A g \in held : Better(g, w)
      BY <3>1, <3>5, <3>6 DEF Better
    <3> HIDE DEF held, S2
    <3>12. w \notin Best(S2, k)
      <4>1. k \in Nat /\ Cardinality(held) >= k BY <3>9
      <4> QED BY <1>1, <3>10, <3>11, <4>1, Beaten
    <3>13. Best(S2, k) \subseteq held
      BY <1>1, <3>1, <3>12
    <3> QED BY <2>2, <3>9, <3>10, <3>13
  <2> QED BY <2>1, <2>2
<1>6. held \subseteq HitType
  BY <1>1, <1>5
<1>7. \A g \in S2 : g.score > c
  BY <1>2
<1> DEFINE n == [hits |-> held, min |-> m]
<1>8. n.hits = held /\ n.min = m
  OBVIOUS
<1>9. /\ m \in Int /\ m >= c /\ (m = c \/ Cardinality(AtLeast(held, m)) >= k)
      /\ Cardinality(held) = k => m = RescanMin(held).score
  <2>1. CASE Cardinality(held) < k
    <3>1. m = h.min BY <2>1
    <3>2. h.hits \subseteq held BY <1>5, <2>1
    <3>3. h.min = c \/ Cardinality(AtLeast(h.hits, h.min)) >= k
      BY DEF HeapHolds, MinHeld
    <3> HIDE DEF held, m
    <3>4. Cardinality(AtLeast(h.hits, h.min)) >= k => Cardinality(AtLeast(held, h.min)) >= k
      BY <1>5, <3>2, AtLeastMore
    <3> QED BY <1>2, <2>1, <3>1, <3>3, <3>4
  <2>2. CASE ~ (Cardinality(held) < k)
    <3>1. m = RescanMin(held).score BY <2>2
    <3> HIDE DEF held, m
    <3>2. Cardinality(held) = k BY <1>5, <2>2
    <3>3. held # {} BY <3>2, FS_EmptySet
    <3>4. RescanMin(held) \in held /\ RescanMin(held).score \in Int
          /\ AtLeast(held, RescanMin(held).score) = held
      BY <1>5, <1>6, <3>3, WorstIs, AllAtWorst
    <3>5. m > c
      BY <1>5, <1>7, <3>1, <3>4
    <3> QED BY <3>1, <3>2, <3>4, <3>5
  <2> QED BY <2>1, <2>2
<1> HIDE DEF held, m, S2
<1>10. n \in [hits : SUBSET HitType, min : Int]
  BY <1>6, <1>9
<1> HIDE DEF n
<1>11. HeapHolds(n, S2, c, k, FALSE)
  BY <1>5, <1>8, <1>9, <1>10 DEF HeapHolds, MinHeld
<1> QED BY <1>4, <1>11 DEF n, S2

(* Offered the next lane, a heap or a collector holds the best so far.     *)
LEMMA OfferHolds ==
  ASSUME NEW h, NEW S, NEW hit \in HitType, NEW c \in Int, NEW k \in Nat \ {0}, NEW buffered \in BOOLEAN,
         NEW cap, NEW T,
         S \subseteq HitType, IsFiniteSet(S), \A g \in S : g.score > c /\ g.slot < hit.slot,
         HeapHolds(h, S, c, k, buffered),
         cap = IF buffered THEN 2 * k ELSE k,
         T = IF hit.score > c THEN S \cup {hit} ELSE S
  PROVE  HeapHolds(Offer(h, hit, cap, buffered), T, c, k, buffered)
<1>1. hit.score \in Int /\ h.min \in Int /\ h.min >= c
  BY Fields DEF HeapHolds
<1>2. CASE hit.score <= h.min
  <2>1. Offer(h, hit, cap, buffered) = h
    BY <1>2 DEF Offer, OfferBuffered, OfferHeap
  <2>2. CASE hit.score > c
    BY <1>2, <2>1, <2>2, RefusedHolds
  <2>3. CASE ~ (hit.score > c)
    BY <2>1, <2>3
  <2> QED BY <2>2, <2>3
<1>3. CASE hit.score > h.min
  <2>1. hit.score > c BY <1>1, <1>3
  <2>2. CASE buffered
    <3>1. HeapHolds(OfferBuffered(h, hit, 2 * k), S \cup {hit}, c, k, TRUE)
      BY <1>3, <2>2, BufferedHolds
    <3>2. buffered = TRUE BY <2>2
    <3> QED BY <2>1, <3>1, <3>2 DEF Offer
  <2>3. CASE ~ buffered
    <3>1. buffered = FALSE BY <2>3
    <3>2. HeapHolds(OfferHeap(h, hit, k), S \cup {hit}, c, k, FALSE)
      BY <1>3, <3>1, HeapTakes
    <3> QED BY <2>1, <3>1, <3>2 DEF Offer
  <2> QED BY <2>2, <2>3
<1> QED BY <1>1, <1>2, <1>3

-----------------------------------------------------------------------------
(* Rows.                                                                   *)

(* A row holds the hits, each at its rank.                                 *)
LEMMA RowIs ==
  ASSUME NEW S, S \subseteq HitType, IsFiniteSet(S)
  PROVE  /\ Row(S) \in Seq(S) /\ Len(Row(S)) = Cardinality(S) /\ Cardinality(S) \in Nat
         /\ ToSet(Row(S)) = S
         /\ \A n \in 1 .. Cardinality(S) :
               Row(S)[n] \in S /\ Cardinality(Betters(Row(S)[n], S)) = n - 1
<1> DEFINE c == Cardinality(S)
           r == Row(S)
           f == [h \in S |-> Cardinality(Betters(h, S))]
<1>1. c \in Nat
  BY FS_CardinalityType
<1>2. /\ f \in [S -> 0 .. c - 1] /\ \A a, b \in S : f[a] = f[b] => a = b
      /\ \A t \in 0 .. c - 1 : \E s \in S : f[s] = t
  <2>1. f \in Bijection(S, 0 .. c - 1) BY RanksAre
  <2> HIDE DEF f, c
  <2> QED BY <2>1 DEF Bijection, Injection, Surjection, IsInjective
<1>3. \A h \in S : f[h] = Cardinality(Betters(h, S))
  OBVIOUS
<1> DEFINE At(n) == CHOOSE h \in S : Cardinality(Betters(h, S)) = n - 1
<1>4. r = [n \in 1 .. c |-> At(n)]
  BY DEF Row, Betters
<1> HIDE DEF f, c, r
<1>5. ASSUME NEW n \in 1 .. c PROVE At(n) \in S /\ Cardinality(Betters(At(n), S)) = n - 1
  <2>1. n - 1 \in 0 .. c - 1 BY <1>1
  <2>2. \E h \in S : Cardinality(Betters(h, S)) = n - 1 BY <1>2, <1>3, <2>1
  <2> QED BY <2>2
<1> HIDE DEF At
<1>6. r \in [1 .. c -> S] /\ \A n \in 1 .. c : r[n] = At(n)
  BY <1>4, <1>5
<1>7. r \in Seq(S) /\ Len(r) = c /\ DOMAIN r = 1 .. c
  BY <1>1, <1>6
<1>8. \A n \in 1 .. c : r[n] \in S /\ Cardinality(Betters(r[n], S)) = n - 1
  BY <1>5, <1>6
<1>9. ToSet(r) = S
  <2>1. ToSet(r) = {r[n] : n \in 1 .. c}
    BY <1>7 DEF ToSet
  <2>2. ASSUME NEW h \in S PROVE h \in {r[n] : n \in 1 .. c}
    <3> DEFINE n == f[h] + 1
    <3>1. f[h] \in 0 .. c - 1 BY <1>2
    <3>2. n \in 1 .. c /\ n - 1 = f[h] BY <1>1, <3>1
    <3> HIDE DEF n
    <3>3. r[n] \in S /\ f[r[n]] = f[h] BY <1>3, <1>8, <3>2
    <3>4. r[n] = h BY <1>2, <3>3
    <3> QED BY <3>2, <3>4
  <2> QED BY <1>8, <2>1, <2>2
<1> QED BY <1>1, <1>7, <1>8, <1>9 DEF c, r

(* No two hits are at one place.                                           *)
LEMMA OneAtRank ==
  ASSUME NEW S, S \subseteq HitType, IsFiniteSet(S), NEW a \in S, NEW b \in S,
         Cardinality(Betters(a, S)) = Cardinality(Betters(b, S))
  PROVE  a = b
<1>1. SUFFICES ASSUME a # b PROVE FALSE
  OBVIOUS
<1>2. CASE Better(a, b) BY <1>2, RankLess, RankFinite
<1>3. CASE Better(b, a) BY <1>3, RankLess, RankFinite
<1> QED BY <1>1, <1>2, <1>3, OneBetter

(* The first n of a row are the row of the best n.                         *)
LEMMA RowCut ==
  ASSUME NEW S, S \subseteq HitType, IsFiniteSet(S), NEW n \in Nat
  PROVE  SubSeq(Row(S), 1, Min({n, Len(Row(S))})) = Row(Best(S, n))
<1> DEFINE c == Cardinality(S)
           B == Best(S, n)
           m == Min({n, Len(Row(S))})
           r == Row(S)
           b == Row(B)
<1>1. c \in Nat /\ Len(r) = c /\ r \in Seq(S)
      /\ \A i \in 1 .. c : r[i] \in S /\ Cardinality(Betters(r[i], S)) = i - 1
  BY RowIs
<1>2. m = IF n <= c THEN n ELSE c
  BY <1>1, MinOfTwo
<1>3. /\ B \subseteq S /\ IsFiniteSet(B) /\ B \subseteq HitType
      /\ Cardinality(B) = m
  <2>1. /\ B \subseteq S /\ IsFiniteSet(B)
        /\ c <= n => B = S
        /\ c >= n => Cardinality(B) = n
    BY BestSize
  <2> HIDE DEF B, m
  <2> QED BY <1>1, <1>2, <2>1 DEF c
<1>4. Len(b) = m /\ b \in Seq(B) /\ \A i \in 1 .. m : b[i] \in B /\ Cardinality(Betters(b[i], B)) = i - 1
  <2> HIDE DEF B, m
  <2> QED BY <1>3, RowIs
<1>5. m \in Nat /\ m <= c
  BY <1>1, <1>2
<1>6. ASSUME NEW h \in B PROVE Betters(h, B) = Betters(h, S)
  <2>1. \A g \in S : Better(g, h) => g \in B
    BY BestUp
  <2> QED BY <1>3, <2>1 DEF Betters
<1> HIDE DEF c, B, m, r, b
<1>7. ASSUME NEW i \in 1 .. m PROVE r[i] = b[i]
  <2>1. i \in 1 .. c BY <1>1, <1>5
  <2>2. r[i] \in S /\ Cardinality(Betters(r[i], S)) = i - 1 BY <1>1, <2>1
  <2>3. b[i] \in S /\ Cardinality(Betters(b[i], S)) = i - 1 BY <1>3, <1>4, <1>6
  <2> QED BY <2>2, <2>3, OneAtRank
<1> DEFINE u == SubSeq(r, 1, m)
<1>8. u \in Seq(S) /\ Len(u) = m /\ \A i \in 1 .. m : u[i] = r[i]
  BY <1>1, <1>5
<1> HIDE DEF u
<1>9. b \in Seq(S) /\ Len(b) = m
  BY <1>3, <1>4
<1>10. u = b
  BY <1>7, <1>8, <1>9
<1> QED BY <1>10 DEF u, r, m, b, B

(* A row's last is the worst of its hits.                                  *)
LEMMA RowLast ==
  ASSUME NEW S, S \subseteq HitType, IsFiniteSet(S), NEW k, k = Cardinality(S), k > 0
  PROVE  Row(S)[k] \in S /\ Row(S)[k].score \in Int /\ AtLeast(S, Row(S)[k].score) = S
<1>1. k \in Nat /\ k \in 1 .. k /\ S # {}
  <2>1. Cardinality(S) \in Nat BY FS_CardinalityType
  <2> QED BY <2>1, FS_EmptySet
<1> DEFINE w == Row(S)[k]
           f == RescanMin(S)
<1>2. w \in S /\ Cardinality(Betters(w, S)) = k - 1
  BY <1>1, RowIs
<1> HIDE DEF w
<1>3. f \in S /\ \A g \in S \ {f} : Better(g, f)
  BY <1>1, WorstIs
<1> HIDE DEF f
<1>4. w = f
  <2>1. SUFFICES ASSUME w # f PROVE FALSE
    OBVIOUS
  <2>2. Better(w, f) BY <1>2, <1>3, <2>1
  <2>3. Cardinality(Betters(w, S)) < Cardinality(Betters(f, S)) BY <1>2, <1>3, <2>2, RankLess
  <2>4. Cardinality(Betters(f, S)) < k /\ Cardinality(Betters(f, S)) \in Nat BY <1>3, RankFinite
  <2> QED BY <1>1, <1>2, <2>3, <2>4
<1>5. w.score \in Int /\ AtLeast(S, w.score) = S
  BY <1>1, <1>4, AllAtWorst DEF f
<1> QED BY <1>2, <1>5 DEF w

-----------------------------------------------------------------------------
(* Ranges.                                                                 *)

LEMMA DivIs ==
  ASSUME NEW a \in Nat, NEW b \in Nat \ {0}
  PROVE  /\ a \div b \in Nat /\ (a \div b) * b \in Nat
         /\ a % b = a - (a \div b) * b /\ a % b \in 0 .. b - 1
  OBVIOUS

LEMMA EvenIs == \A n \in Nat : (n + (n % 2)) \div 2 \in Nat /\ n + (n % 2) = 2 * ((n + (n % 2)) \div 2)
  OBVIOUS

LEMMA DivOf ==
  ASSUME NEW b \in Nat \ {0}, NEW m \in Nat, NEW w \in 0 .. b - 1
  PROVE  (m * b + w) \div b = m /\ (m * b) % b = 0
  OBVIOUS

LEMMA CeilIs == ASSUME NEW a \in Nat \ {0}, NEW b \in Nat \ {0} PROVE (a + b - 1) \div b \in Nat \ {0}
<1> DEFINE s == a + b - 1
           c == s \div b
<1>1. s \in Nat /\ s >= b
  OBVIOUS
<1> HIDE DEF s
<1>2. c \in Nat /\ c * b \in Nat /\ s % b = s - c * b /\ s % b \in 0 .. b - 1
  BY <1>1, DivIs
<1> HIDE DEF c
<1>3. ASSUME c = 0 PROVE FALSE
  <2>1. c * b = 0 BY <1>3
  <2> QED BY <1>1, <1>2, <2>1
<1> QED BY <1>2, <1>3 DEF c, s

\* The first slot of the range a slot is in.
RangeOf(v) == (v \div Stride(q.pieces)) * Stride(q.pieces)

(* A range is an even number of blocks: it starts on a word of the mask.   *)
LEMMA StrideIs ==
  ASSUME TileAssumption, BlockAssumption, Vecs > 0, NEW p \in Pieces
  PROVE  \E m \in Nat \ {0} : Stride(p) = m * Word /\ Stride(p) \in Nat \ {0}
<1>1. Vecs \in Nat /\ Block \in Nat \ {0} /\ p \in Nat \ {0}
  BY DEF TileAssumption, BlockAssumption
<1> DEFINE B == BlockCount
           n == (B + p - 1) \div p
           m == (n + (n % 2)) \div 2
<1>2. B \in Nat \ {0}
  <2>1. Vecs \in Nat \ {0} BY <1>1
  <2> QED BY <1>1, <2>1, CeilIs DEF BlockCount
<1> HIDE DEF B
<1>3. n \in Nat \ {0}
  BY <1>1, <1>2, CeilIs
<1>4. BlockRangeStride(B, p) = n + (n % 2)
  BY DEF BlockRangeStride
<1> HIDE DEF n
<1>5. m \in Nat \ {0} /\ n + (n % 2) = 2 * m
  <2>1. m \in Nat /\ n + (n % 2) = 2 * m
    BY <1>3, EvenIs
  <2>2. n % 2 \in Nat
    BY <1>3
  <2> HIDE DEF m
  <2> QED BY <1>3, <2>1, <2>2
<1> HIDE DEF m
<1>6. Stride(p) = (2 * m) * Block
  BY <1>4, <1>5 DEF Stride, B
<1>7. (2 * m) * Block = m * (2 * Block) /\ m * (2 * Block) \in Nat \ {0}
  BY <1>1, <1>5
<1> QED BY <1>5, <1>6, <1>7 DEF Word

(* The ranges are a partition of the slots.                                *)
LEMMA RangesAre ==
  ASSUME TileAssumption, BlockAssumption, NEW p \in Pieces, p = q.pieces
  PROVE  /\ \A v \in Slots : RangeOf(v) \in Firsts(p) /\ v - RangeOf(v) \in 0 .. RangeLen(RangeOf(v)) - 1
         /\ \A f \in Firsts(p) : /\ f \in Nat /\ f < Vecs /\ RangeLen(f) \in Nat \ {0}
                                 /\ f + RangeLen(f) <= Vecs /\ RangeLen(f) <= Stride(p)
                                 /\ (f \div Word) * Word = f
         /\ \A f \in Firsts(p) : \A w \in 0 .. RangeLen(f) - 1 : RangeOf(f + w) = f
<1>0. Vecs \in Nat /\ Block \in Nat \ {0} /\ Word \in Nat \ {0}
  BY DEF TileAssumption, BlockAssumption, Word
<1>1. CASE Vecs = 0
  <2>1. Slots = {} BY <1>0, <1>1 DEF Slots
  <2> QED BY <2>1 DEF Firsts
<1>2. CASE Vecs > 0
  <2> DEFINE S == Stride(p)
  <2>1. PICK m \in Nat \ {0} : S = m * Word /\ S \in Nat \ {0}
    BY <1>2, StrideIs
  <2>2. \A f : RangeLen(f) = Min({S, Vecs - f})
    BY DEF RangeLen
  <2>3. \A v : RangeOf(v) = (v \div S) * S
    BY DEF RangeOf
  <2>4. \A f : f \in Firsts(p) <=> f \in Slots /\ f % S = 0
    BY DEF Firsts
  <2> HIDE DEF S
  <2>5. \A f \in Slots : f \in Nat /\ f < Vecs /\ Vecs - f \in Nat \ {0}
    BY <1>0 DEF Slots
  <2>6. \A f \in Slots : RangeLen(f) = IF S <= Vecs - f THEN S ELSE Vecs - f
    <3> TAKE f \in Slots
    <3> DEFINE r == Vecs - f
    <3>1. r \in Nat \ {0} /\ RangeLen(f) = Min({S, r}) BY <2>2, <2>5
    <3> HIDE DEF r
    <3>2. RangeLen(f) = IF S <= r THEN S ELSE r BY <2>1, <3>1, MinOfTwo
    <3> QED BY <3>2 DEF r
  <2>7. ASSUME NEW v \in Slots
        PROVE  RangeOf(v) \in Firsts(p) /\ v - RangeOf(v) \in 0 .. RangeLen(RangeOf(v)) - 1
    <3>1. v \in Nat /\ v < Vecs BY <2>5
    <3> DEFINE d == v \div S
    <3>2. d \in Nat /\ d * S \in Nat /\ v % S = v - d * S /\ v % S \in 0 .. S - 1
      BY <2>1, <3>1, DivIs
    <3>3. RangeOf(v) = d * S BY <2>3
    <3> HIDE DEF d
    <3>4. 0 \in 0 .. S - 1 BY <2>1
    <3>5. (d * S) % S = 0 BY <2>1, <3>2, <3>4, DivOf
    <3>6. d * S \in Slots BY <1>0, <3>1, <3>2, <2>1 DEF Slots
    <3>7. RangeLen(d * S) = IF S <= Vecs - d * S THEN S ELSE Vecs - d * S
      BY <2>6, <3>6
    <3> QED BY <1>0, <2>1, <2>4, <3>1, <3>2, <3>3, <3>5, <3>6, <3>7
  <2>8. ASSUME NEW f \in Firsts(p)
        PROVE  /\ f \in Nat /\ f < Vecs /\ RangeLen(f) \in Nat \ {0}
               /\ f + RangeLen(f) <= Vecs /\ RangeLen(f) <= S
               /\ (f \div Word) * Word = f
               /\ \A w \in 0 .. RangeLen(f) - 1 : RangeOf(f + w) = f
    <3>1. f \in Slots /\ f % S = 0 /\ f \in Nat /\ f < Vecs BY <2>4, <2>5
    <3>2. RangeLen(f) \in Nat \ {0} /\ f + RangeLen(f) <= Vecs /\ RangeLen(f) <= S
      BY <1>0, <2>1, <2>5, <2>6, <3>1
    <3> DEFINE d == f \div S
    <3>3. d \in Nat /\ d * S \in Nat /\ f % S = f - d * S BY <2>1, <3>1, DivIs
    <3> HIDE DEF d
    <3>4. f = d * S BY <2>1, <3>1, <3>3
    <3>5. f = (d * m) * Word
      <4>1. d * (m * Word) = (d * m) * Word BY <1>0, <2>1, <3>3
      <4> QED BY <2>1, <3>4, <4>1
    <3>6. d * m \in Nat BY <2>1, <3>3
    <3> DEFINE e == d * m
    <3>7. e \in Nat /\ f = e * Word BY <3>5, <3>6
    <3> HIDE DEF e
    <3>8. (f \div Word) * Word = f
      <4>1. 0 \in 0 .. Word - 1 /\ e * Word + 0 = f BY <1>0, <3>7
      <4>2. (e * Word + 0) \div Word = e BY <1>0, <3>7, <4>1, DivOf
      <4> QED BY <3>7, <4>1, <4>2
    <3>9. ASSUME NEW w \in 0 .. RangeLen(f) - 1 PROVE RangeOf(f + w) = f
      <4>1. w \in 0 .. S - 1 BY <2>1, <3>2
      <4>2. (d * S + w) \div S = d BY <2>1, <3>3, <4>1, DivOf
      <4> QED BY <2>3, <3>4, <4>2
    <3> QED BY <3>1, <3>2, <3>8, <3>9
  <2> QED BY <2>7, <2>8 DEF S
<1> QED BY <1>0, <1>1, <1>2

(* The hits a call is after, and those a scan may hold.                    *)
Floor == IF q.buffered THEN NegInf ELSE q.cutoff
HitAt(v) == Hit(Score(v), v)
Answer == {HitAt(v) : v \in {w \in q.mask : Score(w) >= Floor}}
Admitted == {HitAt(v) : v \in {w \in q.mask : Score(w) > Cutoff}}

\* Those of the first n lanes of a range, as its heap numbers them.
LaneHits(first, n) ==
    {Hit(Score(first + w), w) : w \in {u \in 0 .. n - 1 : first + u \in q.mask /\ Score(first + u) > Cutoff}}


ScanInv == /\ scan.first \in Firsts(q.pieces) \ todo /\ scan.lane \in Nat
           /\ scan = [first |-> scan.first, lane |-> scan.lane, heap |-> scan.heap]
           /\ HeapHolds(scan.heap, LaneHits(scan.first, scan.lane), Cutoff, q.k, q.buffered)

TileInv ==
    /\ q \in Calls /\ todo \subseteq Firsts(q.pieces) /\ pass \in {"first", "again"}
    /\ found \subseteq Admitted
    /\ scan = Idle \/ ScanInv
    /\ result # <<>> => /\ todo = {} /\ scan = Idle
                        /\ result[1] = Best(Answer, q.k)
    /\ result = <<>> => \A v \in q.mask :
          HitAt(v) \in Best(Admitted, q.k) =>
             RangeOf(v) \in todo \/ RangeOf(v) = scan.first \/ HitAt(v) \in found

LEMMA CallIs ==
  ASSUME TileAssumption, q \in Calls
  PROVE  /\ q.score \in [Slots -> Scores] /\ q.mask \in Masks /\ q.pieces \in Pieces
         /\ q.k \in Nat \ {0} /\ q.buffered \in BOOLEAN
         /\ q.cutoff \in Int /\ q.cutoff >= NegInf /\ NegInf \in Int
         /\ q.mask \subseteq Slots /\ IsFiniteSet(q.mask)
         /\ \A v \in Slots : Score(v) \in Int /\ Score(v) > NegInf /\ v \in Nat
         /\ Cutoff \in Int /\ Cutoff >= NegInf
         /\ ~ q.buffered => \A v \in Slots : Score(v) > Cutoff <=> Score(v) >= q.cutoff
<1>1. /\ q.score \in [Slots -> Scores] /\ q.mask \in Masks /\ q.pieces \in Pieces
      /\ q.k \in Keep /\ q.buffered \in BOOLEAN /\ q.cutoff \in {NegInf} \cup Scores
  BY DEF Calls
<1>2. /\ Vecs \in Nat /\ Scores \subseteq Int /\ Masks \subseteq SUBSET (0 .. Vecs - 1)
      /\ Pieces \subseteq Nat \ {0} /\ Keep \subseteq Nat \ {0} /\ \A s \in Scores : s > NegInf
  BY DEF TileAssumption
<1>3. NegInf \in Int /\ NegInf = -1000
  BY DEF NegInf
<1>4. q.mask \subseteq Slots /\ IsFiniteSet(q.mask)
  <2>1. q.mask \subseteq Slots BY <1>1, <1>2 DEF Slots
  <2>2. 0 \in Int /\ Vecs - 1 \in Int BY <1>2
  <2>3. IsFiniteSet(Slots) BY <2>2, FS_Interval DEF Slots
  <2> QED BY <2>1, <2>3, FS_Subset
<1>5. \A v \in Slots : Score(v) \in Int /\ Score(v) > NegInf /\ v \in Nat
  <2> TAKE v \in Slots
  <2>1. q.score[v] \in Scores BY <1>1
  <2>2. v \in Nat BY <1>2 DEF Slots
  <2> QED BY <1>2, <2>1, <2>2 DEF Score
<1>6. q.cutoff \in Int /\ q.cutoff >= NegInf
  <2>1. CASE q.cutoff = NegInf BY <1>3, <2>1
  <2>2. CASE q.cutoff \in Scores
    <3>1. q.cutoff > NegInf BY <1>2, <2>2
    <3>2. q.cutoff \in Int BY <1>2, <2>2
    <3> QED BY <1>3, <3>1, <3>2
  <2> QED BY <1>1, <2>1, <2>2
<1>7. Cutoff \in Int /\ Cutoff >= NegInf
  BY <1>3, <1>6 DEF Cutoff, NextDown
<1>8. ASSUME ~ q.buffered, NEW v \in Slots PROVE Score(v) > Cutoff <=> Score(v) >= q.cutoff
  BY <1>3, <1>5, <1>6, <1>8 DEF Cutoff, NextDown
<1>9. q.k \in Nat \ {0}
  BY <1>1, <1>2
<1> QED BY <1>1, <1>3, <1>4, <1>5, <1>6, <1>7, <1>8, <1>9

LEMMA SlotHits ==
  ASSUME TileAssumption, q \in Calls, NEW v \in Slots
  PROVE  HitAt(v) \in HitType /\ HitAt(v).score = Score(v) /\ HitAt(v).slot = v
<1>1. Score(v) \in Int /\ v \in Int
  BY CallIs
<1> QED BY <1>1, HitIs DEF HitAt

LEMMA AdmittedIs ==
  ASSUME TileAssumption, q \in Calls
  PROVE  /\ Admitted \subseteq Answer /\ Answer \subseteq HitType
         /\ IsFiniteSet(Answer) /\ IsFiniteSet(Admitted) /\ Admitted \subseteq HitType
         /\ (q.buffered => Cutoff = NegInf) => Admitted = Answer
         /\ \A h \in Answer : h \in Admitted <=> h.score > Cutoff
<1>1. \A v \in q.mask : v \in Slots /\ Score(v) \in Int /\ Score(v) > NegInf
  BY CallIs
<1>2. \A v \in q.mask : Score(v) > Cutoff => Score(v) >= Floor
  <2> SUFFICES ASSUME NEW v \in q.mask, Score(v) > Cutoff PROVE Score(v) >= Floor
    OBVIOUS
  <2>1. CASE q.buffered
    BY <1>1, <2>1 DEF Floor, NegInf
  <2>2. CASE ~ q.buffered
    BY <1>1, <2>2, CallIs DEF Floor
  <2> QED BY <2>1, <2>2
<1>3. (q.buffered => Cutoff = NegInf) => \A v \in q.mask : Score(v) > Cutoff
                                            \/ ~ (Score(v) >= Floor)
  <2> SUFFICES ASSUME q.buffered => Cutoff = NegInf, NEW v \in q.mask, Score(v) >= Floor
               PROVE  Score(v) > Cutoff
    OBVIOUS
  <2>1. CASE q.buffered
    BY <1>1, <2>1
  <2>2. CASE ~ q.buffered
    BY <1>1, <2>2, CallIs DEF Floor
  <2> QED BY <2>1, <2>2
<1>4. Admitted \subseteq Answer /\ ((q.buffered => Cutoff = NegInf) => Admitted = Answer)
  BY <1>2, <1>3 DEF Admitted, Answer
<1>5. Answer \subseteq HitType /\ \A v \in q.mask : HitAt(v).score = Score(v)
  BY <1>1, SlotHits DEF Answer
<1>6. IsFiniteSet(Answer)
  <2> DEFINE W == {w \in q.mask : Score(w) >= Floor}
             f == [v \in W |-> HitAt(v)]
  <2>1. IsFiniteSet(W)
    <3>1. W \in SUBSET q.mask OBVIOUS
    <3> QED BY <3>1, CallIs, FS_Subset
  <2>2. Answer = {f[v] : v \in W} BY DEF Answer
  <2> HIDE DEF f, W
  <2> QED BY <2>1, <2>2, FiniteImage
<1>7. IsFiniteSet(Admitted) /\ Admitted \subseteq HitType
  BY <1>4, <1>5, <1>6, FS_Subset
<1>8. \A h \in Answer : h \in Admitted <=> h.score > Cutoff
  BY <1>5 DEF Answer, Admitted
<1> QED BY <1>4, <1>5, <1>6, <1>7, <1>8

LEMMA LaneHitsAre ==
  ASSUME TileAssumption, q \in Calls, NEW first \in Nat, NEW n \in Nat
  PROVE  /\ LaneHits(first, n) \subseteq HitType /\ IsFiniteSet(LaneHits(first, n))
         /\ \A g \in LaneHits(first, n) : /\ g.score > Cutoff /\ g.slot \in 0 .. n - 1
                                          /\ first + g.slot \in q.mask /\ g.score = Score(first + g.slot)
<1> DEFINE W == {u \in 0 .. n - 1 : first + u \in q.mask /\ Score(first + u) > Cutoff}
           f == [w \in W |-> Hit(Score(first + w), w)]
<1>1. \A w \in W : w \in 0 .. n - 1 /\ first + w \in q.mask /\ Score(first + w) > Cutoff
  OBVIOUS
<1>2. \A w \in W : w \in Int /\ Score(first + w) \in Int
  <2> TAKE w \in W
  <2>1. first + w \in Slots BY <1>1, CallIs
  <2>2. w \in Int BY <1>1
  <2> QED BY <2>1, <2>2, CallIs
<1>3. LaneHits(first, n) = {f[w] : w \in W}
  BY DEF LaneHits
<1>4. IsFiniteSet(W)
  <2>1. W \in SUBSET (0 .. n - 1) OBVIOUS
  <2>2. 0 \in Int /\ n - 1 \in Int OBVIOUS
  <2>3. IsFiniteSet(0 .. n - 1) BY <2>2, FS_Interval
  <2> HIDE DEF W
  <2> QED BY <2>1, <2>3, FS_Subset
<1> HIDE DEF W
<1>5. \A w \in W : f[w] \in HitType /\ f[w].score = Score(first + w) /\ f[w].slot = w
  BY <1>2, HitIs
<1> HIDE DEF f
<1>6. IsFiniteSet(LaneHits(first, n))
  <2>1. IsFiniteSet({f[w] : w \in W})
    BY <1>4, FiniteImage
  <2> QED BY <1>3, <2>1
<1> QED BY <1>1, <1>3, <1>5, <1>6

LEMMA LaneMore ==
  ASSUME NEW first \in Nat, NEW n \in Nat
  PROVE  /\ LaneHits(first, 0) = {}
         /\ LaneHits(first, n + 1) =
              IF first + n \in q.mask /\ Score(first + n) > Cutoff
              THEN LaneHits(first, n) \cup {Hit(Score(first + n), n)} ELSE LaneHits(first, n)
         /\ \A m \in Nat : (\A v \in n .. n + m - 1 : first + v \notin q.mask) =>
              LaneHits(first, n + m) = LaneHits(first, n)
<1>1. \A u : u \in 0 .. n + 1 - 1 <=> (u \in 0 .. n - 1 \/ u = n)
  OBVIOUS
<1>2. LaneHits(first, n + 1) =
        IF first + n \in q.mask /\ Score(first + n) > Cutoff
        THEN LaneHits(first, n) \cup {Hit(Score(first + n), n)} ELSE LaneHits(first, n)
  BY <1>1 DEF LaneHits
<1>3. ASSUME NEW m \in Nat, \A v \in n .. n + m - 1 : first + v \notin q.mask
      PROVE  LaneHits(first, n + m) = LaneHits(first, n)
  <2>1. \A u : u \in 0 .. n + m - 1 <=> (u \in 0 .. n - 1 \/ u \in n .. n + m - 1)
    BY <1>3
  <2>2. \A u : (u \in 0 .. n + m - 1 /\ first + u \in q.mask) <=> (u \in 0 .. n - 1 /\ first + u \in q.mask)
    BY <1>3, <2>1
  <2> DEFINE W(k) == {u \in 0 .. k - 1 : first + u \in q.mask /\ Score(first + u) > Cutoff}
             A == W(n + m)
             B == W(n)
  <2>3. A = B
    BY <2>2
  <2>4. /\ LaneHits(first, n + m) = {Hit(Score(first + w), w) : w \in A}
        /\ LaneHits(first, n) = {Hit(Score(first + w), w) : w \in B}
    BY DEF LaneHits
  <2> HIDE DEF A, B
  <2> QED BY <2>3, <2>4
<1>4. LaneHits(first, 0) = {}
  BY DEF LaneHits
<1> QED BY <1>2, <1>3, <1>4

(* One of the best of a scan, numbered as its range does, is one of the    *)
(* best of the range.                                                      *)
LEMMA BestOfRange ==
  ASSUME NEW S, NEW T, NEW d, NEW n, NEW h, S \subseteq HitType, IsFiniteSet(S), T \subseteq HitType,
         IsFiniteSet(T), d \in Int, n \in Nat, h \in T,
         \A g \in T : Hit(g.score, g.slot + d) \in S, Hit(h.score, h.slot + d) \in Best(S, n)
  PROVE  h \in Best(T, n)
<1> DEFINE up(g) == Hit(g.score, g.slot + d)
           B == Betters(up(h), S)
           f == [g \in B |-> Hit(g.score, g.slot - d)]
           U == {f[g] : g \in B}
<1>1. up(h) \in S /\ Cardinality(B) < n
  BY BestIs
<1>2. \A g \in T : g.score \in Int /\ g.slot \in Int /\ g.slot + d \in Int /\ g.slot + d - d = g.slot
                   /\ g = Hit(g.score, g.slot)
  BY DEF HitType, Hit
<1>3. IsFiniteSet(B) /\ Cardinality(B) \in Nat
  BY RankFinite
<1>4. \A g \in T : up(g).score = g.score /\ up(g).slot = g.slot + d
  BY DEF Hit
<1>5. ASSUME NEW g \in Betters(h, T) PROVE g \in U
  <2>1. g \in T /\ Better(g, h) BY DEF Betters
  <2>2. up(g) \in S BY <2>1
  <2>3. Better(up(g), up(h)) BY <1>2, <1>4, <2>1 DEF Better
  <2>4. up(g) \in B BY <2>1, <2>3 DEF Betters
  <2>5. f[up(g)] = Hit(up(g).score, up(g).slot - d) BY <2>4
  <2>6. f[up(g)] = g BY <1>2, <1>4, <2>1, <2>5
  <2> HIDE DEF f, up, B
  <2> QED BY <2>4, <2>6
<1> HIDE DEF f, B
<1>6. IsFiniteSet(U) /\ Cardinality(U) \in Nat /\ Cardinality(U) <= Cardinality(B)
  BY <1>3, FiniteImage
<1> HIDE DEF U
<1>7. Cardinality(Betters(h, T)) <= Cardinality(U)
  <2>1. Betters(h, T) \in SUBSET U BY <1>5
  <2> QED BY <1>6, <2>1, FS_Subset
<1>8. Cardinality(Betters(h, T)) \in Nat
  BY RankFinite
<1> QED BY <1>1, <1>3, <1>6, <1>7, <1>8, BestIs

(* What a range's heap holds, numbered as the scan does.                   *)
LEMMA RebasedIs ==
  ASSUME TileAssumption, BlockAssumption, q \in Calls, ScanInv
  PROVE  /\ Rebased \subseteq Admitted
         /\ \A v \in q.mask : HitAt(v) \in Best(Admitted, q.k) /\ RangeOf(v) = scan.first
                              /\ v - scan.first < scan.lane => HitAt(v) \in Rebased
<1> DEFINE first == scan.first
           L == LaneHits(first, scan.lane)
<1>1. first \in Nat /\ scan.lane \in Nat
  BY CallIs, RangesAre DEF ScanInv
<1>2. L \subseteq HitType /\ IsFiniteSet(L)
  BY <1>1, LaneHitsAre
<1>3. scan.heap.hits \subseteq L /\ Best(L, q.k) \subseteq scan.heap.hits
  BY DEF ScanInv, HeapHolds
<1>4. ASSUME NEW g \in L
      PROVE  Hit(g.score, g.slot + first) \in Admitted
  <2>1. g.score > Cutoff /\ g.slot \in Int /\ first + g.slot \in q.mask /\ g.score = Score(first + g.slot)
    BY <1>1, LaneHitsAre
  <2>2. g.slot + first = first + g.slot BY <1>1, <2>1
  <2>3. Hit(g.score, g.slot + first) = HitAt(first + g.slot)
    BY <2>1, <2>2 DEF HitAt
  <2> QED BY <2>1, <2>3 DEF Admitted
<1>5. Rebased \subseteq Admitted
  BY <1>3, <1>4 DEF Rebased
<1>6. ASSUME NEW v \in q.mask, HitAt(v) \in Best(Admitted, q.k), RangeOf(v) = first, v - first < scan.lane
      PROVE  HitAt(v) \in Rebased
  <2> DEFINE w == v - first
             h == Hit(Score(v), w)
  <2>1. v \in Slots /\ v \in Nat /\ Score(v) \in Int
    BY CallIs
  <2>2. w \in 0 .. scan.lane - 1 /\ first + w = v
    <3>1. v - RangeOf(v) \in 0 .. RangeLen(RangeOf(v)) - 1
      BY <2>1, CallIs, RangesAre
    <3> QED BY <1>1, <1>6, <2>1, <3>1
  <2>3. Score(v) > Cutoff
    <3>1. HitAt(v) \in Admitted BY <1>6, BestIs
    <3>2. HitAt(v).score > Cutoff BY <3>1, AdmittedIs
    <3> QED BY <2>1, <3>2, SlotHits
  <2>4. h \in L
    BY <2>2, <2>3 DEF LaneHits
  <2>5. h.score = Score(v) /\ h.slot = w BY DEF Hit
  <2>6. w + first = v BY <1>1, <2>1
  <2>7. Hit(h.score, h.slot + first) = HitAt(v)
    BY <2>5, <2>6 DEF HitAt
  <2>8. Admitted \subseteq HitType /\ IsFiniteSet(Admitted) /\ q.k \in Nat
    BY AdmittedIs, CallIs
  <2> HIDE DEF h, L
  <2>9. h \in Best(L, q.k)
    <3>1. \A g \in L : Hit(g.score, g.slot + first) \in Admitted
      BY <1>4
    <3>2. first \in Int /\ Hit(h.score, h.slot + first) \in Best(Admitted, q.k)
      BY <1>1, <1>6, <2>7
    <3> HIDE DEF first
    <3> QED BY <1>2, <2>4, <2>8, <3>1, <3>2, BestOfRange
  <2>10. h \in scan.heap.hits BY <1>3, <2>9
  <2> QED BY <2>7, <2>10 DEF Rebased
<1> QED BY <1>5, <1>6

(* A step that leaves the call and the pass alone leaves what is admitted. *)
LEMMA CallStays ==
  ASSUME UNCHANGED <<q, pass>>
  PROVE  /\ Cutoff' = Cutoff /\ Admitted' = Admitted /\ Answer' = Answer
         /\ \A v : RangeOf(v)' = RangeOf(v) /\ HitAt(v)' = HitAt(v)
<1>1. Cutoff' = Cutoff BY DEF Cutoff
<1>2. \A v : Score(v)' = Score(v) BY DEF Score
<1>3. \A v : RangeOf(v)' = RangeOf(v) /\ HitAt(v)' = HitAt(v) BY DEF RangeOf, HitAt, Score
<1>4. Floor' = Floor BY DEF Floor
<1>5. Admitted' = Admitted BY <1>1 DEF Admitted, HitAt, Score
<1>6. Answer' = Answer BY <1>4 DEF Answer, HitAt, Score
<1> QED BY <1>1, <1>3, <1>5, <1>6

LEMMA ScanNext ==
  ASSUME NEW f, NEW n, NEW h, UNCHANGED <<q, pass>>, scan' = [first |-> f, lane |-> n, heap |-> h],
         f \in Firsts(q.pieces), f \notin todo', n \in Nat,
         HeapHolds(h, LaneHits(f, n), Cutoff, q.k, q.buffered)
  PROVE  ScanInv'
<1>1. scan'.first = f /\ scan'.lane = n /\ scan'.heap = h
  OBVIOUS
<1>2. LaneHits(scan.first, scan.lane)' = LaneHits(f, n)
  BY <1>1, CallStays DEF LaneHits, Score
<1>3. Cutoff' = Cutoff
  BY CallStays
<1> QED BY <1>1, <1>2, <1>3 DEF ScanInv

LEMMA IdleIs == Idle.first = -1
BY DEF Idle

LEMMA InitTile == ASSUME TileAssumption, BlockAssumption, TileInit PROVE TileInv
<1>1. q \in Calls /\ todo = Firsts(q.pieces) /\ scan = Idle /\ found = {} /\ pass = "first" /\ result = <<>>
  BY DEF TileInit
<1>2. \A v \in q.mask : RangeOf(v) \in todo
  BY <1>1, CallIs, RangesAre
<1> QED BY <1>1, <1>2 DEF TileInv

LEMMA ClaimKeeps ==
  ASSUME TileAssumption, BlockAssumption, TileInv, NEW first \in Slots, Claim(first) PROVE TileInv'
<1>1. /\ scan = Idle /\ first \in todo /\ todo' = todo \ {first} /\ UNCHANGED <<q, found, pass, result>>
      /\ scan' = [first |-> first, lane |-> 0, heap |-> Fresh(Cutoff)]
  BY DEF Claim
<1>2. first \in Firsts(q.pieces) /\ todo' \subseteq Firsts(q.pieces) /\ q \in Calls
  BY <1>1 DEF TileInv
<1>3. first \in Nat
  BY <1>2, CallIs, RangesAre
<1>4. HeapHolds(Fresh(Cutoff), LaneHits(first, 0), Cutoff, q.k, q.buffered)
  <2>1. LaneHits(first, 0) = {}
    BY <1>3, LaneMore, 0 \in Nat
  <2>2. Cutoff \in Int /\ q.k \in Nat \ {0}
    BY <1>2, CallIs
  <2> QED BY <2>1, <2>2, FreshHolds
<1>5. ScanInv'
  BY <1>1, <1>2, <1>4, ScanNext
<1>6. scan'.first = first /\ result' = <<>>
  BY <1>1 DEF TileInv
<1>7. \A v \in q.mask : HitAt(v) \in Best(Admitted, q.k) =>
         RangeOf(v) \in todo' \/ RangeOf(v) = scan'.first \/ HitAt(v) \in found
  <2> SUFFICES ASSUME NEW v \in q.mask, HitAt(v) \in Best(Admitted, q.k)
               PROVE  RangeOf(v) \in todo' \/ RangeOf(v) = scan'.first \/ HitAt(v) \in found
    OBVIOUS
  <2>1. RangeOf(v) \in todo \/ RangeOf(v) = scan.first \/ HitAt(v) \in found
    BY <1>1, <1>6 DEF TileInv
  <2>2. RangeOf(v) \in Nat
    BY <1>2, CallIs, RangesAre
  <2>3. RangeOf(v) # scan.first
    BY <1>1, <2>2, IdleIs
  <2> QED BY <1>1, <1>6, <2>1, <2>3
<1> QED BY <1>1, <1>2, <1>5, <1>6, <1>7, CallStays DEF TileInv

LEMMA NextLaneKeeps ==
  ASSUME TileAssumption, BlockAssumption, TileInv, NextLane PROVE TileInv'
<1> DEFINE first == scan.first
           n == scan.lane
           h == scan.heap
<1>1. /\ scan # Idle /\ n < RangeLen(first) /\ UNCHANGED <<q, todo, found, pass, result>>
      /\ \/ scan.lane % Block = 0 /\ BlockSkipped /\ scan' = [scan EXCEPT !.lane = @ + Block]
         \/ scan' = [scan EXCEPT
                !.lane = @ + 1,
                !.heap = IF scan.lane \notin Allowed THEN @
                         ELSE Offer(@, Hit(Score(scan.first + scan.lane), scan.lane),
                                    Capacity, q.buffered)]
  BY DEF NextLane
<1>2. ScanInv /\ q \in Calls /\ first \in Firsts(q.pieces) /\ first \notin todo /\ n \in Nat
      /\ scan = [first |-> first, lane |-> n, heap |-> h]
      /\ HeapHolds(h, LaneHits(first, n), Cutoff, q.k, q.buffered)
  BY <1>1 DEF TileInv, ScanInv
<1>3. first \in Nat /\ (first \div Word) * Word = first /\ first + RangeLen(first) <= Vecs
      /\ RangeLen(first) \in Nat /\ Vecs \in Nat /\ Block \in Nat \ {0}
  BY <1>2, CallIs, RangesAre DEF TileAssumption, BlockAssumption
<1>4. \A v \in Nat : v \in Allowed <=> first + v \in q.mask
  <2>1. Allowed = {s - first : s \in q.mask}
    BY <1>3 DEF Allowed, MaskSlice
  <2>2. \A s \in q.mask : s \in Nat BY <1>2, CallIs
  <2> HIDE DEF first
  <2> TAKE v \in Nat
  <2>3. ASSUME v \in Allowed PROVE first + v \in q.mask
    <3>1. PICK s \in q.mask : v = s - first BY <2>1, <2>3
    <3>2. first + v = s BY <1>3, <2>2, <3>1
    <3> QED BY <3>2
  <2>4. ASSUME first + v \in q.mask PROVE v \in Allowed
    <3>1. v = (first + v) - first BY <1>3
    <3> QED BY <2>1, <2>4, <3>1
  <2> QED BY <2>3, <2>4
<1>5. PICK m, g :
        /\ m \in Nat /\ scan' = [first |-> first, lane |-> m, heap |-> g]
        /\ HeapHolds(g, LaneHits(first, m), Cutoff, q.k, q.buffered)
  <2>1. CASE BlockSkipped /\ scan' = [scan EXCEPT !.lane = @ + Block]
    <3>1. scan' = [first |-> first, lane |-> n + Block, heap |-> h] /\ n + Block \in Nat
      BY <1>2, <1>3, <2>1
    <3>2. \A v \in n .. n + Block - 1 : v \notin Allowed
      BY <2>1 DEF BlockSkipped
    <3>3. \A v \in n .. n + Block - 1 : first + v \notin q.mask
      BY <1>2, <1>4, <3>2
    <3>4. Block \in Nat
      BY <1>3
    <3> HIDE DEF first, n
    <3>5. LaneHits(first, n + Block) = LaneHits(first, n)
      BY <1>2, <1>3, <3>3, <3>4, LaneMore
    <3> QED BY <1>2, <3>1, <3>5
  <2>2. CASE scan' = [scan EXCEPT
                !.lane = @ + 1,
                !.heap = IF scan.lane \notin Allowed THEN @
                         ELSE Offer(@, Hit(Score(scan.first + scan.lane), scan.lane),
                                    Capacity, q.buffered)]
    <3> DEFINE hit == Hit(Score(first + n), n)
               g == IF n \notin Allowed THEN h ELSE Offer(h, hit, Capacity, q.buffered)
    <3>1. scan' = [first |-> first, lane |-> n + 1, heap |-> g]
      BY <1>2, <2>2
    <3>2. n + 1 \in Nat BY <1>2
    <3>3. first + n \in Slots /\ n \in Int
      BY <1>1, <1>2, <1>3 DEF Slots
    <3>4. Score(first + n) \in Int BY <1>2, <3>3, CallIs
    <3>5. hit \in HitType /\ hit.score = Score(first + n) /\ hit.slot = n
      BY <3>3, <3>4, HitIs
    <3>6. Capacity = IF q.buffered THEN 2 * q.k ELSE q.k
      BY DEF Capacity
    <3>7. /\ LaneHits(first, n) \subseteq HitType /\ IsFiniteSet(LaneHits(first, n))
          /\ \A x \in LaneHits(first, n) : x.score > Cutoff /\ x.slot \in 0 .. n - 1
      BY <1>2, <1>3, LaneHitsAre
    <3>8. LaneHits(first, n + 1) =
            IF first + n \in q.mask /\ Score(first + n) > Cutoff
            THEN LaneHits(first, n) \cup {hit} ELSE LaneHits(first, n)
      BY <1>2, <1>3, LaneMore
    <3>9. HeapHolds(g, LaneHits(first, n + 1), Cutoff, q.k, q.buffered)
      <4>1. CASE n \notin Allowed
        <5>1. first + n \notin q.mask BY <1>2, <1>4, <4>1
        <5> QED BY <1>2, <3>8, <4>1, <5>1
      <4>2. CASE n \in Allowed
        <5>1. first + n \in q.mask BY <1>2, <1>4, <4>2
        <5> DEFINE S == LaneHits(first, n)
        <5>2. g = Offer(h, hit, Capacity, q.buffered)
          BY <4>2
        <5>3. LaneHits(first, n + 1) = IF hit.score > Cutoff THEN S \cup {hit} ELSE S
          BY <3>5, <3>8, <5>1
        <5>4. \A x \in S : x.score > Cutoff /\ x.slot < hit.slot
          BY <1>2, <3>5, <3>7
        <5>5. Cutoff \in Int /\ q.k \in Nat \ {0} /\ q.buffered \in BOOLEAN
          BY <1>2, CallIs
        <5> HIDE DEF hit, g, h
        <5>6. S \subseteq HitType /\ IsFiniteSet(S) /\ HeapHolds(h, S, Cutoff, q.k, q.buffered)
          BY <1>2, <3>7
        <5> HIDE DEF S
        <5> DEFINE c == Cutoff
                   k == q.k
                   b == q.buffered
        <5>7. c \in Int /\ k \in Nat \ {0} /\ b \in BOOLEAN /\ HeapHolds(h, S, c, k, b)
              /\ \A x \in S : x.score > c /\ x.slot < hit.slot
          BY <5>4, <5>5, <5>6
        <5> HIDE DEF c, k, b
        <5>8. Capacity = IF b THEN 2 * k ELSE k
          BY <3>6 DEF c, k, b
        <5>9. LaneHits(first, n + 1) = IF hit.score > c THEN S \cup {hit} ELSE S
          BY <5>3 DEF c
        <5> DEFINE T == LaneHits(first, n + 1)
                   cap == Capacity
        <5> HIDE DEF T, cap
        <5>10. cap = (IF b THEN 2 * k ELSE k) /\ T = (IF hit.score > c THEN S \cup {hit} ELSE S)
          BY <5>8, <5>9 DEF T, cap
        <5>11. hit \in HitType /\ S \subseteq HitType /\ IsFiniteSet(S)
          BY <3>5, <5>6
        <5>12. HeapHolds(Offer(h, hit, cap, b), T, c, k, b)
          BY <5>7, <5>10, <5>11, OfferHolds, SMTT(60)
        <5> QED BY <5>2, <5>12 DEF c, k, b, T, cap
      <4> QED BY <4>1, <4>2
    <3> HIDE DEF g
    <3> QED BY <3>1, <3>2, <3>9
  <2> QED BY <1>1, <2>1, <2>2
<1>6. ScanInv' /\ scan'.first = first
  <2> HIDE DEF first
  <2>1. first \notin todo' BY <1>1, <1>2
  <2> QED BY <1>1, <1>2, <1>5, <2>1, ScanNext
<1>7. result = <<>>
  BY <1>1 DEF TileInv
<1> QED BY <1>1, <1>6, <1>7, CallStays DEF TileInv

LEMMA RangeDoneKeeps ==
  ASSUME TileAssumption, BlockAssumption, TileInv, RangeDone PROVE TileInv'
<1>1. /\ scan # Idle /\ scan.lane >= RangeLen(scan.first) /\ found' = found \cup Rebased /\ scan' = Idle
      /\ UNCHANGED <<q, todo, pass, result>>
  BY DEF RangeDone
<1>2. ScanInv /\ q \in Calls /\ result = <<>> /\ scan.lane \in Nat
  BY <1>1 DEF TileInv, ScanInv
<1>3. Rebased \subseteq Admitted
  BY <1>2, RebasedIs
<1>4. ASSUME NEW v \in q.mask, HitAt(v) \in Best(Admitted, q.k)
      PROVE  RangeOf(v) \in todo \/ HitAt(v) \in found'
  <2>1. RangeOf(v) \in todo \/ RangeOf(v) = scan.first \/ HitAt(v) \in found
    BY <1>2, <1>4 DEF TileInv
  <2>2. CASE RangeOf(v) = scan.first
    <3>1. /\ RangeOf(v) \in Firsts(q.pieces) /\ v - RangeOf(v) \in 0 .. RangeLen(RangeOf(v)) - 1
      BY <1>2, CallIs, RangesAre
    <3>2. RangeLen(scan.first) \in Nat
      BY <1>2, <2>2, <3>1, CallIs, RangesAre
    <3>3. v - scan.first < scan.lane
      BY <1>1, <1>2, <2>2, <3>1, <3>2
    <3> QED BY <1>1, <1>2, <1>4, <2>2, <3>3, RebasedIs
  <2> QED BY <1>1, <2>1, <2>2
<1> QED BY <1>1, <1>2, <1>3, <1>4, CallStays DEF TileInv

(* What the scan's ranges found, merged: the best of what it admitted.     *)
LEMMA MergedIs ==
  ASSUME TileAssumption, BlockAssumption, TileInv, todo = {}, scan = Idle, result = <<>>
  PROVE  Merged = Best(Admitted, q.k)
<1>1. q \in Calls /\ found \subseteq Admitted
  BY DEF TileInv
<1>2. q.k \in Nat \ {0} /\ Max({(2 * q.k) \div 2, 1}) = q.k
  <2>1. q.k \in Nat \ {0} BY <1>1, CallIs
  <2>2. (2 * q.k) \div 2 = q.k BY <2>1
  <2> QED BY <2>1, <2>2, MaxOfTwo
<1>3. Merged = Best(found, q.k)
  BY <1>2 DEF Merged, Merge, Capacity
<1>4. ASSUME NEW h \in Best(Admitted, q.k) PROVE h \in found
  <2>1. h \in Admitted BY <1>4, BestIs
  <2>2. PICK v \in q.mask : h = HitAt(v) BY <2>1 DEF Admitted
  <2>3. RangeOf(v) \in todo \/ RangeOf(v) = scan.first \/ HitAt(v) \in found
    BY <1>4, <2>2 DEF TileInv
  <2>4. RangeOf(v) \in Nat
    BY <1>1, CallIs, RangesAre
  <2> QED BY <2>2, <2>3, <2>4, IdleIs
<1>5. Admitted \subseteq HitType /\ IsFiniteSet(Admitted)
  BY <1>1, AdmittedIs
<1> QED BY <1>1, <1>2, <1>3, <1>4, <1>5, Absorb

LEMMA RescanKeeps ==
  ASSUME TileAssumption, BlockAssumption, TileInv, Rescan PROVE TileInv'
<1>1. /\ scan = Idle /\ result = <<>> /\ pass' = "again" /\ todo' = Firsts(q.pieces) /\ found' = {}
      /\ UNCHANGED <<q, scan, result>> /\ q \in Calls
  BY DEF Rescan, TileInv
<1>2. \A v \in q.mask : RangeOf(v) \in todo' /\ RangeOf(v)' = RangeOf(v)
  BY <1>1, CallIs, RangesAre DEF RangeOf
<1>3. \A v \in q.mask : RangeOf(v)' \in todo'
  BY <1>2
<1> QED BY <1>1, <1>3 DEF TileInv

(* A scan that is not short has the answer: its seed cost it nothing.      *)
LEMMA ReturnKeeps ==
  ASSUME TileAssumption, BlockAssumption, TileInv, ReturnBest PROVE TileInv'
<1>1. /\ todo = {} /\ scan = Idle /\ result = <<>> /\ ~ Short /\ result' = <<Merged>>
      /\ UNCHANGED <<q, todo, scan, found, pass>> /\ q \in Calls
  BY DEF ReturnBest, TileInv
<1>2. Merged = Best(Admitted, q.k)
  BY <1>1, MergedIs
<1>3. /\ Admitted \subseteq Answer /\ Answer \subseteq HitType
      /\ IsFiniteSet(Answer) /\ IsFiniteSet(Admitted) /\ Admitted \subseteq HitType
      /\ (q.buffered => Cutoff = NegInf) => Admitted = Answer
      /\ \A h \in Answer : h \in Admitted <=> h.score > Cutoff
  BY <1>1, AdmittedIs
<1>4. q.k \in Nat /\ Cutoff \in Int /\ NegInf \in Int
  BY <1>1, CallIs
<1>5. Best(Admitted, q.k) = Best(Answer, q.k)
  <2>1. CASE q.buffered => Cutoff = NegInf
    BY <1>3, <2>1
  <2>2. CASE ~ (q.buffered => Cutoff = NegInf)
    <3>1. pass = "first" /\ q.cutoff # NegInf /\ q.buffered
      BY <2>2 DEF Cutoff, TileInv
    <3>2. ~ (Cardinality(Merged) < q.k)
      BY <1>1, <3>1 DEF Short
    <3> DEFINE B == Best(Admitted, q.k)
    <3>3. B \subseteq Admitted /\ IsFiniteSet(B) /\ Cardinality(B) \in Nat
      <4>1. B \subseteq Admitted /\ IsFiniteSet(B) BY <1>3, <1>4, BestSize
      <4> QED BY <4>1, FS_CardinalityType
    <3>4. Cardinality(B) >= q.k
      BY <1>2, <1>4, <3>2, <3>3
    <3>5. ASSUME NEW h \in Best(Answer, q.k), h \notin Admitted PROVE FALSE
      <4>1. h \in Answer BY <3>5, BestIs
      <4>2. ~ (h.score > Cutoff) BY <1>3, <3>5, <4>1
      <4>3. \A g \in B : g.score > Cutoff /\ g \in HitType /\ g \in Answer BY <1>3, <3>3
      <4> HIDE DEF B
      <4>4. \A g \in B : Better(g, h)
        <5> TAKE g \in B
        <5>1. g.score \in Int /\ h.score \in Int BY <1>3, <4>1, <4>3, Fields
        <5> QED BY <1>4, <4>2, <4>3, <5>1 DEF Better
      <4>5. h \notin Best(Answer, q.k)
        <5>1. B \subseteq Answer BY <4>3
        <5> QED BY <1>3, <1>4, <3>4, <4>4, <5>1, Beaten
      <4> QED BY <3>5, <4>5
    <3>6. Best(Answer, q.k) \subseteq Admitted BY <3>5
    <3> QED BY <1>3, <1>4, <3>6, Absorb
  <2> QED BY <2>1, <2>2
<1>6. result'[1] = Best(Answer, q.k) /\ result' # <<>>
  BY <1>1, <1>2, <1>5
<1>7. Answer' = Answer /\ Admitted' = Admitted
  BY <1>1, CallStays
<1> QED BY <1>1, <1>6, <1>7 DEF TileInv

LEMMA TileStutter == ASSUME TileInv, UNCHANGED tileVars PROVE TileInv'
<1>1. UNCHANGED <<q, todo, scan, found, pass, result>>
  BY DEF tileVars
<1>2. ScanInv' = ScanInv
  BY <1>1 DEF ScanInv, LaneHits, Score, Cutoff
<1> QED BY <1>1, <1>2, CallStays DEF TileInv

(* However a scan is cut and whatever order its ranges end in, each of the *)
(* best it is after is in a range to come, in the heap of the one being    *)
(* scanned, or found (search_single_query_block_parallel).                 *)
THEOREM TileInvariance == TileSpec => []TileInv
<1>1. TileInit => TileInv
  BY TileAssumption, BlockAssumption, InitTile
<1>2. TileInv /\ [TileNext]_tileVars => TileInv'
  <2> SUFFICES ASSUME TileInv, [TileNext]_tileVars PROVE TileInv'
    OBVIOUS
  <2>1. ASSUME NEW f \in Slots, Claim(f) PROVE TileInv'
    BY <2>1, TileAssumption, BlockAssumption, ClaimKeeps
  <2>2. CASE NextLane BY <2>2, TileAssumption, BlockAssumption, NextLaneKeeps
  <2>3. CASE RangeDone BY <2>3, TileAssumption, BlockAssumption, RangeDoneKeeps
  <2>4. CASE Rescan BY <2>4, TileAssumption, BlockAssumption, RescanKeeps
  <2>5. CASE ReturnBest BY <2>5, TileAssumption, BlockAssumption, ReturnKeeps
  <2>6. CASE UNCHANGED tileVars BY <2>6, TileStutter
  <2> QED BY <2>1, <2>2, <2>3, <2>4, <2>5, <2>6 DEF TileNext
<1> QED BY <1>1, <1>2, PTL DEF TileSpec

LEMMA AnswerIs ==
  TopOf(Score, q.mask, q.k, IF q.buffered THEN NegInf ELSE q.cutoff) = Best(Answer, q.k)
BY DEF TopOf, Answer, Floor, HitAt

(* Evicted, compacted or skipped, no slot of the answer is lost before the *)
(* scan ends (rescan_min, compact_half).                                   *)
LEMMA TileDropsNothing == TileInv => NothingDropped
<1> SUFFICES ASSUME TileInv, result = <<>>, q.buffered => Cutoff = NegInf, NEW h \in Best(Answer, q.k)
             PROVE  LET first == (h.slot \div Stride(q.pieces)) * Stride(q.pieces)
                    IN \/ first \in todo \/ h \in found
                       \/ /\ scan.first = first
                          /\ scan.lane > h.slot - first => h \in Rebased
  BY AnswerIs DEF NothingDropped
<1>1. q \in Calls BY DEF TileInv
<1>2. Admitted = Answer BY <1>1, TileAssumption, AdmittedIs
<1>3. h \in Answer BY BestIs
<1>4. PICK v \in q.mask : h = HitAt(v) BY <1>3 DEF Answer
<1>5. v \in Slots /\ h.slot = v /\ v \in Nat
  BY <1>1, <1>4, TileAssumption, CallIs, SlotHits
<1>6. RangeOf(v) = (h.slot \div Stride(q.pieces)) * Stride(q.pieces)
  BY <1>5 DEF RangeOf
<1>7. RangeOf(v) \in todo \/ RangeOf(v) = scan.first \/ h \in found
  BY <1>2, <1>4 DEF TileInv
<1>8. ASSUME RangeOf(v) = scan.first, scan.lane > v - scan.first PROVE h \in Rebased
  <2>1. RangeOf(v) \in Nat
    BY <1>1, <1>5, TileAssumption, BlockAssumption, CallIs, RangesAre
  <2>2. ScanInv BY <1>8, <2>1, IdleIs DEF TileInv
  <2>3. scan.lane \in Nat BY <2>2 DEF ScanInv
  <2>4. v - scan.first < scan.lane BY <1>5, <1>8, <2>1, <2>3
  <2> QED BY <1>1, <1>2, <1>4, <1>8, <2>2, <2>4, TileAssumption, BlockAssumption, RebasedIs
<1> QED BY <1>5, <1>6, <1>7, <1>8

(* A search returns the best k of the allowed slots at or above the floor, *)
(* whatever the mask, floor, seed, width and order of its ranges, for any  *)
(* number of slots, blocks, scores and results (scan_with_luts).           *)
THEOREM TileExactTopK == TileSpec => []ExactTopK
<1>1. TileInv => RightAnswer
  BY AnswerIs DEF TileInv, RightAnswer
<1> QED BY <1>1, TileDropsNothing, TileInvariance, PTL DEF ExactTopK

-----------------------------------------------------------------------------
(* The walk of an image.                                                   *)
ImageHit(x, v) == Hit(call.score[x][v], v)

\* A query's hits among some slots, at or above a floor.
HitsAt(x, slots, floor) ==
    {ImageHit(x, v) : v \in {w \in slots : call.score[x][w] >= floor}}

\* A query's hits among the first n slots.
Walked(x, n) == HitsAt(x, call.mask \cap 0 .. n - 1, call.threshold)

ChunkTypeOK ==
    /\ call \in [score : [ImageQueries -> [ImageSlots -> ImageScores]],
                 mask : ImageMasks, k : ImageKeep, threshold : Thresholds]
    /\ start \in 0 .. ImageVecs /\ cutoffs \in [ImageQueries -> Int]

\* A floor is the caller's, or one that k of the best so far are at or above.
CutoffHeld(x) ==
    /\ cutoffs[x] >= call.threshold
    /\ \/ cutoffs[x] = call.threshold
       \/ Cardinality(AtLeast(Best(Walked(x, start), EffectiveK), cutoffs[x])) >= EffectiveK

ChunkInv == /\ ChunkTypeOK
            /\ kept = [x \in ImageQueries |-> Row(Best(Walked(x, start), EffectiveK))]
            /\ \A x \in ImageQueries : CutoffHeld(x)

LEMMA WalkIs ==
  ASSUME WalkAssumption, ChunkTypeOK
  PROVE  /\ EffectiveK \in Nat /\ call.threshold \in Int /\ ImageVecs \in Nat
         /\ IsFiniteSet(call.mask) /\ call.mask \subseteq ImageSlots
         /\ \A x \in ImageQueries : \A v \in ImageSlots :
               /\ call.score[x][v] \in Int /\ v \in Int
               /\ ImageHit(x, v) \in HitType
               /\ ImageHit(x, v).score = call.score[x][v] /\ ImageHit(x, v).slot = v
<1>1. /\ ImageVecs \in Nat /\ call.threshold \in Int /\ call.k \in Nat
      /\ call.mask \in SUBSET (0 .. ImageVecs - 1)
      /\ call.score \in [ImageQueries -> [ImageSlots -> ImageScores]] /\ ImageScores \subseteq Int
  BY DEF WalkAssumption, ChunkTypeOK
<1>2. IsFiniteSet(call.mask)
  <2>1. 0 \in Int /\ ImageVecs - 1 \in Int BY <1>1
  <2>2. IsFiniteSet(0 .. ImageVecs - 1) BY <2>1, FS_Interval
  <2> QED BY <1>1, <2>2, FS_Subset
<1>3. EffectiveK \in Nat
  <2>1. Cardinality(call.mask) \in Nat BY <1>2, FS_CardinalityType
  <2> QED BY <1>1, <2>1, MinOfTwo DEF EffectiveK
<1>4. ASSUME NEW x \in ImageQueries, NEW v \in ImageSlots
      PROVE  /\ call.score[x][v] \in Int /\ v \in Int
             /\ ImageHit(x, v) \in HitType
             /\ ImageHit(x, v).score = call.score[x][v] /\ ImageHit(x, v).slot = v
  <2>1. call.score[x] \in [ImageSlots -> ImageScores] BY <1>1
  <2>2. call.score[x][v] \in ImageScores BY <2>1
  <2>3. call.score[x][v] \in Int BY <1>1, <2>2
  <2>4. v \in Int BY <1>1 DEF ImageSlots
  <2> QED BY <2>3, <2>4, HitIs DEF ImageHit
<1> QED BY <1>1, <1>2, <1>3, <1>4 DEF ImageSlots

(* A query's hits among some allowed slots, at or above a floor.           *)
LEMMA HitsAtOf ==
  \A x, V, f, h : h \in HitsAt(x, V, f) <=> \E v \in V : call.score[x][v] >= f /\ h = ImageHit(x, v)
BY DEF HitsAt

LEMMA HitsAre ==
  ASSUME WalkAssumption, ChunkTypeOK, NEW x \in ImageQueries, NEW V, V \subseteq call.mask, NEW f \in Int,
         NEW H, H = HitsAt(x, V, f)
  PROVE  H \subseteq HitType /\ IsFiniteSet(H) /\ \A h \in H : h.score \in Int /\ h.score >= f
<1> DEFINE W == {w \in V : call.score[x][w] >= f}
           g == [v \in W |-> ImageHit(x, v)]
<1>1. \A v \in W : v \in ImageSlots /\ call.score[x][v] >= f
  BY WalkIs
<1>2. IsFiniteSet(W)
  <2>1. W \in SUBSET call.mask OBVIOUS
  <2> QED BY <2>1, WalkIs, FS_Subset
<1>3. H = {g[v] : v \in W}
  BY DEF HitsAt
<1>4. \A v \in W : g[v] = ImageHit(x, v)
  OBVIOUS
<1> HIDE DEF W, g
<1>5. IsFiniteSet(H)
  <2>1. IsFiniteSet({g[v] : v \in W}) BY <1>2, FiniteImage
  <2> QED BY <1>3, <2>1
<1>6. ASSUME NEW h \in H PROVE h \in HitType /\ h.score \in Int /\ h.score >= f
  <2>1. PICK v \in W : h = ImageHit(x, v) BY <1>3, <1>4
  <2> QED BY <1>1, <2>1, WalkIs
<1> QED BY <1>5, <1>6

LEMMA WalkedIs ==
  ASSUME WalkAssumption, ChunkTypeOK, NEW x \in ImageQueries, NEW n \in Nat
  PROVE  /\ Walked(x, n) \subseteq HitType /\ IsFiniteSet(Walked(x, n))
         /\ \A h \in Walked(x, n) : h.score \in Int /\ h.score >= call.threshold
<1> DEFINE V == call.mask \cap 0 .. n - 1
<1>1. Walked(x, n) = HitsAt(x, V, call.threshold)
  BY DEF Walked
<1>2. V \subseteq call.mask OBVIOUS
<1>3. call.threshold \in Int BY WalkIs
<1> HIDE DEF V
<1> QED BY <1>1, <1>2, <1>3, HitsAre

LEMMA WalkedOf ==
  \A x, n, h : h \in Walked(x, n) <=>
     \E v \in call.mask : v \in 0 .. n - 1 /\ call.score[x][v] >= call.threshold /\ h = ImageHit(x, v)
BY DEF Walked, HitsAt

LEMMA ImageLiveIs ==
  ASSUME WalkAssumption, ChunkTypeOK, start < ImageVecs
  PROVE  /\ start \in Nat /\ ImageLive \in Nat \ {0} /\ start + ImageLive \in 0 .. ImageVecs
         /\ \A v : v \in 0 .. start + ImageLive - 1 <=>
                     v \in 0 .. start - 1 \/ v \in start .. start + ImageLive - 1
<1>1. start \in Nat /\ ImageVecs \in Nat /\ ImageChunk \in Nat \ {0}
  BY DEF WalkAssumption, ChunkTypeOK
<1>2. ImageLive = IF ImageChunk <= ImageVecs - start THEN ImageChunk ELSE ImageVecs - start
  BY <1>1, MinOfTwo DEF ImageLive
<1>3. ImageLive \in Nat \ {0} /\ start + ImageLive \in 0 .. ImageVecs
  BY <1>1, <1>2
<1> QED BY <1>1, <1>3

(* The lowest of the floors is no higher than any, and no lower than the   *)
(* caller's.                                                               *)
LEMMA KernelFloorIs ==
  ASSUME WalkAssumption, ChunkInv
  PROVE  /\ KernelFloor \in Int /\ KernelFloor >= call.threshold
         /\ \A x \in ImageQueries : KernelFloor <= cutoffs[x]
<1> DEFINE R == {cutoffs[x] : x \in ImageQueries}
<1>1. cutoffs \in [ImageQueries -> Int] /\ \A x \in ImageQueries : cutoffs[x] >= call.threshold
  BY DEF ChunkInv, ChunkTypeOK, CutoffHeld
<1>2. R \subseteq Int /\ R # {} /\ \A r \in R : r >= call.threshold
  BY <1>1 DEF WalkAssumption
<1>3. IsFiniteSet(R)
  BY FiniteImage DEF WalkAssumption
<1>4. KernelFloor = Min(R) /\ \A x \in ImageQueries : cutoffs[x] \in R
  BY DEF KernelFloor
<1> HIDE DEF R
<1>5. Min(R) \in R /\ \A r \in R : Min(R) <= r
  BY <1>2, <1>3, MinIs
<1> QED BY <1>2, <1>4, <1>5

(* What a query keeps of a chunk, with what it had, has the best so far.   *)
LEMMA ChunkMerges ==
  ASSUME WalkAssumption, ChunkInv, start < ImageVecs, NEW x \in ImageQueries, NEW own,
         own = {h \in ToSet(ChunkRow(x)) : h.score >= cutoffs[x]}
  PROVE  MergeRows(kept[x], own, EffectiveK) = Row(Best(Walked(x, start + ImageLive), EffectiveK))
<1> DEFINE k == EffectiveK
           P == Walked(x, start)
           N == Walked(x, start + ImageLive)
           B == Best(P, k)
           V == call.mask \cap start .. start + ImageLive - 1
           C == HitsAt(x, V, KernelFloor)
           T == B \cup own
<1>0. ChunkTypeOK /\ CutoffHeld(x) /\ kept[x] = Row(B) /\ cutoffs[x] \in Int
  BY DEF ChunkInv, ChunkTypeOK
<1>1. k \in Nat /\ call.threshold \in Int /\ start \in Nat /\ start + ImageLive \in Nat
  BY <1>0, WalkIs, ImageLiveIs
<1>2. KernelFloor \in Int /\ KernelFloor >= call.threshold /\ KernelFloor <= cutoffs[x]
  BY KernelFloorIs
<1>3. P \subseteq HitType /\ IsFiniteSet(P)
  BY <1>0, <1>1, WalkedIs
<1>4. N \subseteq HitType /\ IsFiniteSet(N) /\ \A h \in N : h.score \in Int /\ h.score >= call.threshold
  BY <1>0, <1>1, WalkedIs
<1>5. C \subseteq HitType /\ IsFiniteSet(C)
  <2>1. V \subseteq call.mask OBVIOUS
  <2> HIDE DEF V
  <2>2. C = HitsAt(x, V, KernelFloor) OBVIOUS
  <2> HIDE DEF C
  <2>3. ChunkTypeOK /\ KernelFloor \in Int BY <1>0, <1>2
  <2> QED BY <2>1, <2>2, <2>3, HitsAre
<1>6. /\ \A v \in V : v \in call.mask /\ v \in 0 .. start + ImageLive - 1 /\ call.score[x][v] \in Int
      /\ \A v \in call.mask : v \in 0 .. start + ImageLive - 1 => v \in 0 .. start - 1 \/ v \in V
  BY <1>0, WalkIs, ImageLiveIs
<1>6a. \A h : h \in P <=> \E v \in call.mask : /\ v \in 0 .. start - 1
                                              /\ call.score[x][v] >= call.threshold
                                              /\ h = ImageHit(x, v)
  BY WalkedOf
<1>6b. \A h : h \in N <=> \E v \in call.mask : /\ v \in 0 .. start + ImageLive - 1
                                              /\ call.score[x][v] >= call.threshold
                                              /\ h = ImageHit(x, v)
  <2> DEFINE m == start + ImageLive
  <2> HIDE DEF m
  <2>1. \A h : h \in Walked(x, m) <=> \E v \in call.mask : /\ v \in 0 .. m - 1
                                                           /\ call.score[x][v] >= call.threshold
                                                           /\ h = ImageHit(x, v)
    BY WalkedOf
  <2>2. ImageLive \in Int BY <1>0, ImageLiveIs
  <2>3. m - 1 = start + ImageLive - 1 BY <1>1, <2>2 DEF m
  <2>4. N = Walked(x, m) BY DEF m
  <2> HIDE DEF N
  <2> QED BY <2>1, <2>3, <2>4
<1>6c. \A h : h \in C <=> \E v \in V : call.score[x][v] >= KernelFloor /\ h = ImageHit(x, v)
  <2> HIDE DEF V
  <2> QED BY HitsAtOf
<1> HIDE DEF P, N, C, V
<1>7. P \subseteq N
  <2>1. \A v \in 0 .. start - 1 : v \in 0 .. start + ImageLive - 1
    BY <1>0, ImageLiveIs
  <2> SUFFICES ASSUME NEW h \in P PROVE h \in N
    OBVIOUS
  <2>2. PICK v \in call.mask : /\ v \in 0 .. start - 1 /\ call.score[x][v] >= call.threshold
                             /\ h = ImageHit(x, v)
    BY <1>6a
  <2> QED BY <1>6b, <2>1, <2>2
<1>8. C \subseteq N
  <2> SUFFICES ASSUME NEW h \in C PROVE h \in N
    OBVIOUS
  <2>1. PICK v \in V : call.score[x][v] >= KernelFloor /\ h = ImageHit(x, v)
    BY <1>6c
  <2>2. v \in call.mask /\ v \in 0 .. start + ImageLive - 1 /\ call.score[x][v] \in Int
    BY <1>6
  <2>3. call.score[x][v] >= call.threshold BY <1>1, <1>2, <2>1, <2>2
  <2> QED BY <1>6b, <2>1, <2>2, <2>3
<1>9. ASSUME NEW h \in N PROVE h \in P \/ (h.score >= KernelFloor => h \in C)
  <2>1. PICK v \in call.mask : /\ v \in 0 .. start + ImageLive - 1
                             /\ call.score[x][v] >= call.threshold /\ h = ImageHit(x, v)
    BY <1>6b
  <2>2. CASE v \in 0 .. start - 1
    BY <1>6a, <2>1, <2>2
  <2>3. CASE v \in V
    <3>1. v \in ImageSlots BY <1>0, <2>1, WalkIs
    <3>2. h.score = call.score[x][v] BY <1>0, <2>1, <3>1, WalkIs
    <3> QED BY <1>6c, <2>1, <2>3, <3>2
  <2> QED BY <1>6, <2>1, <2>2, <2>3
<1>10. ToSet(ChunkRow(x)) = Best(C, k)
  <2>1. ChunkRow(x) = Row(Best(C, k))
    BY DEF ChunkRow, TopOf, HitsAt, ImageHit, C, V
  <2> HIDE DEF k
  <2>2. Best(C, k) \subseteq C /\ IsFiniteSet(Best(C, k)) BY <1>1, <1>5, BestSize
  <2>3. Best(C, k) \subseteq HitType BY <1>5, <2>2
  <2> QED BY <2>1, <2>2, <2>3, RowIs
<1>11. B \subseteq P /\ IsFiniteSet(B) /\ B \subseteq HitType
  <2>1. B \subseteq P /\ IsFiniteSet(B) BY <1>1, <1>3, BestSize
  <2> QED BY <1>3, <2>1
<1>12. ToSet(kept[x]) = B
  BY <1>0, <1>11, RowIs
<1> HIDE DEF k, P, N, B, C, V
<1>13. own = {h \in Best(C, k) : h.score >= cutoffs[x]} /\ Best(C, k) \subseteq C
  BY <1>10, BestIs
<1>14. T \subseteq N
  BY <1>7, <1>8, <1>11, <1>13
<1>15. ASSUME NEW h \in Best(N, k) PROVE h \in T
  <2>1. h \in N BY BestIs
  <2>2. CASE h \in P
    <3>1. h \in Best(P, k) BY <1>1, <1>4, <1>7, <2>2, BestOfFewer
    <3> QED BY <3>1 DEF B
  <2>3. CASE h \notin P
    <3>1. h.score >= cutoffs[x]
      <4>1. SUFFICES ASSUME ~ (h.score >= cutoffs[x]) PROVE FALSE
        OBVIOUS
      <4>2. h.score \in Int /\ h.score >= call.threshold BY <1>4, <2>1
      <4>3. Cardinality(AtLeast(B, cutoffs[x])) >= k
        BY <1>0, <1>1, <4>1, <4>2 DEF CutoffHeld, B, P, k
      <4>4. AtLeast(B, cutoffs[x]) \subseteq N BY <1>7, <1>11 DEF AtLeast
      <4>5. \A g \in AtLeast(B, cutoffs[x]) : Better(g, h)
        <5> TAKE g \in AtLeast(B, cutoffs[x])
        <5>1. g.score \in Int /\ g.score >= cutoffs[x] BY <1>4, <4>4 DEF AtLeast
        <5> QED BY <1>0, <4>1, <4>2, <5>1 DEF Better
      <4>6. h \notin Best(N, k) BY <1>1, <1>4, <4>3, <4>4, <4>5, Beaten
      <4> QED BY <1>15, <4>6
    <3>2. h.score >= KernelFloor
      <4>1. h.score \in Int BY <1>4, <2>1
      <4> QED BY <1>0, <1>2, <3>1, <4>1
    <3>3. h \in C BY <1>9, <2>1, <2>3, <3>2
    <3>4. h \in Best(C, k) BY <1>1, <1>4, <1>8, <3>3, BestOfFewer
    <3> QED BY <1>13, <3>1, <3>4
  <2> QED BY <2>2, <2>3
<1> HIDE DEF T
<1>16. Best(T, k) = Best(N, k)
  BY <1>1, <1>4, <1>14, <1>15, Absorb
<1>17. T \subseteq HitType /\ IsFiniteSet(T)
  BY <1>4, <1>14, FS_Subset
<1>18. SubSeq(Row(T), 1, Min({k, Len(Row(T))})) = Row(Best(T, k))
  BY <1>1, <1>17, RowCut
<1>19. MergeRows(kept[x], own, k) = SubSeq(Row(T), 1, Min({k, Len(Row(T))}))
  BY <1>12 DEF MergeRows, T
<1> QED BY <1>16, <1>18, <1>19 DEF k, N

LEMMA InitChunkInv == ASSUME WalkAssumption, ChunkInit PROVE ChunkInv
<1>1. ChunkTypeOK /\ start = 0 /\ kept = [x \in ImageQueries |-> <<>>]
      /\ cutoffs = [x \in ImageQueries |-> call.threshold]
  <2>1. call.threshold \in Int BY DEF ChunkInit, WalkAssumption
  <2>2. ImageVecs \in Nat /\ 0 \in 0 .. ImageVecs BY DEF WalkAssumption
  <2> QED BY <2>1, <2>2 DEF ChunkInit, ChunkTypeOK
<1>2. \A x \in ImageQueries : Row(Best(Walked(x, start), EffectiveK)) = <<>>
  <2> TAKE x \in ImageQueries
  <2>1. Walked(x, start) = {} BY <1>1 DEF Walked, HitsAt
  <2>2. Best(Walked(x, start), EffectiveK) = {} BY <2>1, BestIs
  <2>3. Cardinality({}) = 0 /\ IsFiniteSet({}) BY FS_EmptySet
  <2>4. Row({}) \in Seq({}) /\ Len(Row({})) = 0
    <3>1. {} \subseteq HitType OBVIOUS
    <3> QED BY <2>3, <3>1, RowIs
  <2>5. Row({}) = <<>> BY <2>4
  <2> QED BY <2>2, <2>5
<1>3. \A x \in ImageQueries : CutoffHeld(x)
  BY <1>1, WalkIs DEF CutoffHeld
<1> QED BY <1>1, <1>2, <1>3 DEF ChunkInv

LEMMA ScanChunkKeeps == ASSUME WalkAssumption, ChunkInv, ScanChunk PROVE ChunkInv'
<1> DEFINE k == EffectiveK
           Own(x) == {h \in ToSet(ChunkRow(x)) : h.score >= cutoffs[x]}
           m == start + ImageLive
           rows == [x \in ImageQueries |-> MergeRows(kept[x], Own(x), EffectiveK)]
<1>1. /\ start < ImageVecs /\ k > 0 /\ start' = m /\ UNCHANGED <<call, done>>
      /\ kept' = rows
      /\ cutoffs' = [x \in ImageQueries |-> Raised(x, rows[x])]
  BY DEF ScanChunk
<1>2. ChunkTypeOK /\ k \in Nat /\ m \in 0 .. ImageVecs /\ m \in Nat /\ start \in Nat
      /\ cutoffs \in [ImageQueries -> Int]
  BY <1>1, WalkIs, ImageLiveIs DEF ChunkInv, ChunkTypeOK
<1>3. k' = k /\ \A x, n : Walked(x, n)' = Walked(x, n)
  BY <1>1 DEF EffectiveK, Walked, HitsAt, ImageHit
<1>4. \A x \in ImageQueries : rows[x] = Row(Best(Walked(x, m), k))
  BY <1>1, ChunkMerges
<1>5. rows = [x \in ImageQueries |-> Row(Best(Walked(x, m), k))]
  BY <1>4
<1>6. \A x \in ImageQueries : Walked(x, start)' = Walked(x, m)
  BY <1>1 DEF Walked, HitsAt, ImageHit
<1> HIDE DEF k, m, Own
<1>7. ASSUME NEW x \in ImageQueries
      PROVE  /\ cutoffs'[x] \in Int /\ cutoffs'[x] >= call.threshold
             /\ cutoffs'[x] = call.threshold
                \/ Cardinality(AtLeast(Best(Walked(x, m), k), cutoffs'[x])) >= k
  <2> DEFINE N == Walked(x, m)
             B == Best(N, k)
             r == rows[x]
  <2>1. r = Row(B) /\ cutoffs'[x] = Raised(x, r)
    BY <1>1, <1>4
  <2>2. N \subseteq HitType /\ IsFiniteSet(N)
    BY <1>2, WalkedIs
  <2>3. cutoffs[x] \in Int /\ call.threshold \in Int /\ CutoffHeld(x)
    BY <1>2, WalkIs DEF ChunkInv
  <2> HIDE DEF r, N
  <2>4. /\ B \subseteq N /\ IsFiniteSet(B) /\ Cardinality(B) \in Nat
        /\ Cardinality(N) >= k => Cardinality(B) = k
        /\ Cardinality(N) <= k => B = N
    <3>1. /\ B \subseteq N /\ IsFiniteSet(B)
          /\ Cardinality(N) >= k => Cardinality(B) = k
          /\ Cardinality(N) <= k => B = N
      BY <1>2, <2>2, BestSize
    <3> QED BY <3>1, FS_CardinalityType
  <2>5. Cardinality(N) \in Nat
    BY <2>2, FS_CardinalityType
  <2> HIDE DEF B
  <2>6. B \subseteq HitType /\ Len(r) = Cardinality(B)
    BY <2>1, <2>2, <2>4, RowIs
  <2>7. CASE Len(r) >= k /\ r[k].score > cutoffs[x]
    <3>1. cutoffs'[x] = r[k].score
      BY <2>1, <2>7 DEF Raised, k
    <3>2. k = Cardinality(B)
      BY <1>2, <2>4, <2>5, <2>6, <2>7
    <3>3. r[k].score \in Int /\ AtLeast(B, r[k].score) = B
      BY <1>1, <2>1, <2>4, <2>6, <3>2, RowLast
    <3>4. cutoffs'[x] >= call.threshold
      BY <2>3, <2>7, <3>1, <3>3 DEF CutoffHeld
    <3>5. Cardinality(AtLeast(B, cutoffs'[x])) >= k
      BY <1>2, <3>1, <3>2, <3>3
    <3> QED BY <3>1, <3>3, <3>4, <3>5 DEF B, N
  <2>8. CASE ~ (Len(r) >= k /\ r[k].score > cutoffs[x])
    <3>1. cutoffs'[x] = cutoffs[x]
      BY <2>1, <2>8 DEF Raised, k
    <3>2. CASE cutoffs[x] = call.threshold
      BY <2>3, <3>1, <3>2
    <3>3. CASE cutoffs[x] # call.threshold
      <4> DEFINE P == Walked(x, start)
                 A == Best(P, k)
      <4>1. Cardinality(AtLeast(A, cutoffs[x])) >= k
        BY <2>3, <3>3 DEF CutoffHeld, k
      <4>2. A \subseteq N
        <5>1. A \subseteq P BY BestIs
        <5>2. \A v \in call.mask \cap 0 .. start - 1 : v \in call.mask \cap 0 .. m - 1
          BY <1>1, <1>2, ImageLiveIs DEF m
        <5>3. P \subseteq N BY <5>2 DEF Walked, HitsAt, N
        <5> QED BY <5>1, <5>3
      <4> HIDE DEF A
      <4>3. Cardinality(AtLeast(N, cutoffs[x])) >= k
        BY <1>2, <2>2, <4>1, <4>2, AtLeastMore
      <4>4. AtLeast(B, cutoffs[x]) = B /\ Cardinality(B) = k
        BY <1>2, <2>2, <2>3, <4>3, FloorHeld DEF B
      <4>5. Cardinality(AtLeast(B, cutoffs'[x])) >= k
        BY <1>2, <3>1, <4>4
      <4> QED BY <2>3, <3>1, <4>5 DEF B, N, CutoffHeld
    <3> QED BY <3>2, <3>3
  <2> QED BY <2>7, <2>8
<1>8. ChunkTypeOK'
  <2>1. cutoffs' = [x \in ImageQueries |-> cutoffs'[x]]
    BY <1>1
  <2>2. cutoffs' \in [ImageQueries -> Int]
    BY <1>7, <2>1
  <2> QED BY <1>1, <1>2, <2>2 DEF ChunkTypeOK
<1>9. kept' = [x \in ImageQueries |-> Row(Best(Walked(x, start), EffectiveK))]'
  BY <1>1, <1>3, <1>5, <1>6 DEF k
<1>10. \A x \in ImageQueries : CutoffHeld(x)'
  BY <1>1, <1>3, <1>6, <1>7 DEF CutoffHeld, k
<1> QED BY <1>8, <1>9, <1>10 DEF ChunkInv

LEMMA ReturnRows == ASSUME ChunkInv, UNCHANGED <<call, start, kept, cutoffs>> PROVE ChunkInv'
<1>1. EffectiveK' = EffectiveK /\ \A x : Walked(x, start)' = Walked(x, start)
  BY DEF EffectiveK, Walked, HitsAt, ImageHit
<1> QED BY <1>1 DEF ChunkInv, ChunkTypeOK, CutoffHeld

(* However the image is cut into chunks, what a query keeps is the row of  *)
(* the best of the slots walked, and its floor is the caller's or one they *)
(* hold (search_mapped).                                                   *)
THEOREM ChunkInvariance == ChunkSpec => []ChunkInv
<1>1. ChunkInit => ChunkInv
  BY WalkAssumption, InitChunkInv
<1>2. ChunkInv /\ [ChunkNext]_chunkVars => ChunkInv'
  BY WalkAssumption, ScanChunkKeeps, ReturnRows DEF ChunkNext, chunkVars, Return
<1> QED BY <1>1, <1>2, PTL DEF ChunkSpec

(* A walk of a mapped image returns what one scan of all of it would, and  *)
(* no floor a query or the batch has raised costs a hit, for any image,    *)
(* chunk, batch, mask, threshold and k (search_mapped).                    *)
THEOREM ChunkPrefixTopK == ChunkSpec => []PrefixTopK
<1>1. ChunkInv => PrefixTopK
  <2> SUFFICES ASSUME ChunkInv, NEW x \in ImageQueries
               PROVE  /\ kept[x] = Row(BestOf(x, call.mask \cap 0 .. start - 1))
                      /\ \A h \in BestOf(x, call.mask) : h.score >= cutoffs[x]
    BY DEF PrefixTopK, FloorsSound
  <2>0. ChunkTypeOK /\ EffectiveK \in Nat /\ call.mask \subseteq ImageSlots /\ ImageVecs \in Nat
        /\ call.threshold \in Int /\ start \in 0 .. ImageVecs /\ cutoffs[x] \in Int
    BY WalkAssumption, WalkIs DEF ChunkInv, ChunkTypeOK
  <2>1. \A slots : BestOf(x, slots) =
           Best({ImageHit(x, v) : v \in {w \in slots : call.score[x][w] >= call.threshold}}, EffectiveK)
    BY DEF BestOf, TopOf, ImageHit
  <2>2. BestOf(x, call.mask \cap 0 .. start - 1) = Best(Walked(x, start), EffectiveK)
    BY <2>1 DEF Walked, HitsAt
  <2>3. BestOf(x, call.mask) = Best(Walked(x, ImageVecs), EffectiveK)
    <3>1. call.mask \cap 0 .. ImageVecs - 1 = call.mask BY <2>0 DEF ImageSlots
    <3> QED BY <2>1, <3>1 DEF Walked, HitsAt
  <2>4. kept[x] = Row(Best(Walked(x, start), EffectiveK))
    BY DEF ChunkInv
  <2>5. ASSUME NEW h \in BestOf(x, call.mask) PROVE h.score >= cutoffs[x]
    <3> DEFINE E == Walked(x, ImageVecs)
               A == Best(Walked(x, start), EffectiveK)
    <3>1. h \in Best(E, EffectiveK) BY <2>3, <2>5
    <3>2. E \subseteq HitType /\ IsFiniteSet(E) /\ \A g \in E : g.score \in Int /\ g.score >= call.threshold
      BY <2>0, WalkAssumption, WalkedIs
    <3>3. A \subseteq E
      <4>1. A \subseteq Walked(x, start) BY BestIs
      <4>2. \A v \in call.mask \cap 0 .. start - 1 : v \in call.mask \cap 0 .. ImageVecs - 1
        BY <2>0
      <4>3. Walked(x, start) \subseteq E BY <4>2 DEF Walked, HitsAt
      <4> QED BY <4>1, <4>3
    <3>4. h \in E BY <3>1, BestIs
    <3> HIDE DEF E, A
    <3>5. SUFFICES ASSUME ~ (h.score >= cutoffs[x]) PROVE FALSE
      OBVIOUS
    <3>6. Cardinality(AtLeast(A, cutoffs[x])) >= EffectiveK
      BY <2>0, <3>2, <3>4, <3>5 DEF ChunkInv, CutoffHeld, A
    <3>7. AtLeast(A, cutoffs[x]) \subseteq E BY <3>3 DEF AtLeast
    <3>8. \A g \in AtLeast(A, cutoffs[x]) : Better(g, h)
      <4> TAKE g \in AtLeast(A, cutoffs[x])
      <4>1. g.score \in Int /\ g.score >= cutoffs[x] /\ h.score \in Int BY <3>2, <3>4, <3>7 DEF AtLeast
      <4> QED BY <2>0, <3>5, <4>1 DEF Better
    <3>9. h \notin Best(E, EffectiveK) BY <2>0, <3>2, <3>6, <3>7, <3>8, Beaten
    <3> QED BY <3>1, <3>9
  <2> QED BY <2>2, <2>4, <2>5
<1> QED BY <1>1, ChunkInvariance, PTL

-----------------------------------------------------------------------------
(* Streams.                                                                *)

\* The hit of a slot, at the coordinator.
GlobalHit(i, x, v) == Global(i, Hit(score[i][x][v], v))

\* The chunk a stream stands at.
InChunk(i) == base[i] .. base[i] + Live(i) - 1

StreamTypeOK ==
    /\ score \in [Index -> [Queries -> [StreamSlots -> StreamScores]]]
    /\ base \in [Index -> 0 .. StreamVecs]
    /\ pc \in [Index -> {"poll", "sink", "end"}]
    /\ batches \in [Index -> [Queries -> SUBSET HitType]]
    /\ floors \in [Index -> [Queries -> Int]]
    /\ completed \in [Index -> BOOLEAN]
    /\ best \in [Queries -> SUBSET HitType]

\* The coordinator holds hits there are, and no more than it wants.
HeldInv(x) == /\ best[x] \subseteq Everything(x)
              /\ IsFiniteSet(best[x]) /\ Cardinality(best[x]) <= K

\* What is in a stream's hands is of hits there are; what has been scanned and
\* belongs to the answer is at the coordinator, or in the chunk's batch.
StreamInvOf(i, x) ==
    /\ batches[i][x] \subseteq Everything(x)
    /\ pc[i] # "sink" => batches[i][x] = {}
    /\ \A v \in 0 .. base[i] - 1 :
          GlobalHit(i, x, v) \in Best(Everything(x), K) => GlobalHit(i, x, v) \in best[x]
    /\ pc[i] = "sink" =>
          \A v \in InChunk(i) :
             GlobalHit(i, x, v) \in Best(Everything(x), K) =>
                GlobalHit(i, x, v) \in best[x] \cup batches[i][x]

StreamInv ==
    /\ StreamTypeOK /\ NothingLost
    /\ \A x \in Queries : HeldInv(x)
    /\ \A i \in Index : \A x \in Queries : StreamInvOf(i, x)
    /\ \A i \in Index : /\ completed[i] => base[i] = StreamVecs
                        /\ pc[i] = "sink" => base[i] < StreamVecs

LEMMA GlobalHitIs ==
  ASSUME StreamAssumption, StreamTypeOK, NEW i \in Index, NEW x \in Queries, NEW v \in StreamSlots
  PROVE  /\ score[i][x][v] \in Int /\ score[i][x][v] > NegInf
         /\ GlobalHit(i, x, v) \in HitType /\ GlobalHit(i, x, v).score = score[i][x][v]
         /\ GlobalHit(i, x, v) \in Everything(x)
<1>1. score[i][x][v] \in StreamScores /\ score[i][x][v] \in Int /\ score[i][x][v] > NegInf
  <2>1. score[i] \in [Queries -> [StreamSlots -> StreamScores]]
    BY DEF StreamTypeOK
  <2>2. score[i][x] \in [StreamSlots -> StreamScores]
    BY <2>1
  <2>3. score[i][x][v] \in StreamScores
    BY <2>2
  <2> QED BY <2>3 DEF StreamAssumption
<1>2. v \in Int /\ i * StreamVecs + v \in Int
  BY DEF StreamSlots, StreamAssumption
<1>3. GlobalHit(i, x, v) = Hit(score[i][x][v], i * StreamVecs + v)
  BY <1>1, <1>2, HitIs DEF GlobalHit, Global
<1>4. GlobalHit(i, x, v) \in Everything(x)
  BY DEF GlobalHit, Everything
<1> QED BY <1>1, <1>2, <1>3, <1>4, HitIs

LEMMA EverythingIs ==
  ASSUME StreamAssumption, StreamTypeOK, NEW x \in Queries
  PROVE  /\ Everything(x) = {GlobalHit(i, x, v) : i \in Index, v \in StreamSlots}
         /\ Everything(x) \subseteq HitType /\ IsFiniteSet(Everything(x))
         /\ \A h \in Everything(x) : h.score \in Int /\ h.score > NegInf
<1>1. Everything(x) = {GlobalHit(i, x, v) : i \in Index, v \in StreamSlots}
  BY DEF Everything, GlobalHit
<1>2. \A h \in Everything(x) : h \in HitType /\ h.score \in Int /\ h.score > NegInf
  BY <1>1, GlobalHitIs
<1>3. IsFiniteSet(Everything(x))
  <2> DEFINE f == [p \in Index \X StreamSlots |-> GlobalHit(p[1], x, p[2])]
             F == {f[p] : p \in Index \X StreamSlots}
  <2>1. IsFiniteSet(StreamSlots) /\ IsFiniteSet(Index)
    <3>1. 0 \in Int /\ StreamVecs - 1 \in Int BY DEF StreamAssumption
    <3> QED BY <3>1, FS_Interval DEF StreamSlots, StreamAssumption
  <2>2. IsFiniteSet(Index \X StreamSlots)
    BY <2>1, FS_Product
  <2>3. F = Everything(x)
    <3>1. \A p \in Index \X StreamSlots : p[1] \in Index /\ p[2] \in StreamSlots
      OBVIOUS
    <3>2. ASSUME NEW p \in Index \X StreamSlots PROVE f[p] \in Everything(x)
      <4> DEFINE i == p[1]
                 v == p[2]
      <4>1. i \in Index /\ v \in StreamSlots /\ f[p] = GlobalHit(i, x, v)
        OBVIOUS
      <4> HIDE DEF i, v
      <4>2. GlobalHit(i, x, v) \in Everything(x)
        BY <4>1, GlobalHitIs
      <4> QED BY <4>1, <4>2
    <3>3. ASSUME NEW i \in Index, NEW v \in StreamSlots PROVE GlobalHit(i, x, v) \in F
      <4>1. <<i, v>> \in Index \X StreamSlots /\ f[<<i, v>>] = GlobalHit(i, x, v)
        OBVIOUS
      <4> HIDE DEF f
      <4> QED BY <4>1
    <3>4. ASSUME NEW h \in Everything(x) PROVE h \in F
      <4>1. PICK i \in Index, v \in StreamSlots : h = GlobalHit(i, x, v)
        BY <1>1
      <4> HIDE DEF F
      <4> QED BY <3>3, <4>1
    <3> HIDE DEF f
    <3> QED BY <3>2, <3>4
  <2>4. IsFiniteSet(F)
    <3> HIDE DEF f
    <3> QED BY <2>2, FiniteImage
  <2> QED BY <2>3, <2>4
<1> QED BY <1>1, <1>2, <1>3

LEMMA LiveIs ==
  ASSUME StreamAssumption, StreamTypeOK, NEW i \in Index
  PROVE  /\ base[i] \in 0 .. StreamVecs /\ Live(i) \in Nat
         /\ base[i] < StreamVecs => Live(i) > 0
         /\ base[i] + Live(i) <= StreamVecs
         /\ InChunk(i) \subseteq StreamSlots
<1>1. base[i] \in 0 .. StreamVecs /\ StreamVecs \in Nat /\ Chunk \in Nat \ {0}
  BY DEF StreamAssumption, StreamTypeOK
<1>2. Live(i) = IF Chunk <= StreamVecs - base[i] THEN Chunk ELSE StreamVecs - base[i]
  BY <1>1, MinOfTwo DEF Live
<1> QED BY <1>1, <1>2 DEF InChunk, StreamSlots

LEMMA RunOf == ASSUME NEW a \in Int, NEW n \in Nat
               PROVE  IsFiniteSet(a .. a + n - 1) /\ Cardinality(a .. a + n - 1) = n
<1>1. a + n - 1 \in Int /\ (a > a + n - 1 <=> n = 0) /\ a + n - 1 - a + 1 = n
  OBVIOUS
<1>2. /\ IsFiniteSet(a .. a + n - 1)
      /\ Cardinality(a .. a + n - 1) = IF a > a + n - 1 THEN 0 ELSE a + n - 1 - a + 1
  BY <1>1, FS_Interval
<1> QED BY <1>1, <1>2

(* A chunk's scan returns every row at or above the floor.                 *)
LEMMA ChunkHitsAre ==
  ASSUME StreamAssumption, StreamTypeOK, NEW i \in Index, NEW x \in Queries, NEW floor \in Int
  PROVE  ChunkHits(i, x, floor) =
           {Hit(score[i][x][v], v) : v \in {w \in InChunk(i) : score[i][x][w] >= floor}}
<1> DEFINE W == {w \in InChunk(i) : score[i][x][w] >= floor}
           f == [v \in W |-> Hit(score[i][x][v], v)]
           H == {Hit(score[i][x][v], v) : v \in W}
<1>1. ChunkHits(i, x, floor) = Best(H, Live(i))
  BY DEF ChunkHits, TopOf, InChunk
<1>2. base[i] \in Int /\ Live(i) \in Nat /\ base[i] + Live(i) - 1 \in Int /\ InChunk(i) \subseteq StreamSlots
  BY LiveIs
<1>3. IsFiniteSet(InChunk(i)) /\ Cardinality(InChunk(i)) = Live(i)
  BY <1>2, RunOf DEF InChunk
<1>4. W \in SUBSET InChunk(i)
  OBVIOUS
<1>5. IsFiniteSet(W) /\ Cardinality(W) <= Live(i) /\ Cardinality(W) \in Nat
  BY <1>3, <1>4, FS_Subset, FS_CardinalityType
<1>6. H = {f[v] : v \in W}
  OBVIOUS
<1>7. H \subseteq HitType
  <2>1. ASSUME NEW v \in W PROVE Hit(score[i][x][v], v) \in HitType
    <3>1. v \in StreamSlots BY <1>2
    <3>2. v \in Int BY <3>1 DEF StreamSlots, StreamAssumption
    <3>3. score[i][x][v] \in Int BY <3>1, GlobalHitIs
    <3> QED BY <3>2, <3>3, HitIs
  <2> HIDE DEF W
  <2> QED BY <2>1
<1>8. IsFiniteSet(H) /\ Cardinality(H) <= Cardinality(W) /\ Cardinality(H) \in Nat
  <2> HIDE DEF f, W
  <2> QED BY <1>5, <1>6, FiniteImage
<1> HIDE DEF H
<1>9. Best(H, Live(i)) = H
  BY <1>2, <1>5, <1>7, <1>8, BestSize
<1> QED BY <1>1, <1>9 DEF H

(* The k-th best is a floor that k hits hold.                              *)
LEMMA KthHolds ==
  ASSUME NEW S, NEW k, NEW f, S \subseteq HitType, IsFiniteSet(S), K \in Nat \ {0}, f \in Int,
         \A h \in S : h.score > NegInf,
         k = IF Cardinality(S) < K THEN NegInf ELSE RescanMin(S).score
  PROVE  /\ k \in Int /\ k >= NegInf
         /\ k # NegInf /\ f <= k => Cardinality(AtLeast(S, f)) >= K
<1>1. Cardinality(S) \in Nat /\ NegInf \in Int
  BY FS_CardinalityType DEF NegInf
<1>2. CASE Cardinality(S) < K
  BY <1>1, <1>2
<1>3. CASE ~ (Cardinality(S) < K)
  <2>1. S # {}
    BY <1>1, <1>3, FS_EmptySet
  <2> DEFINE w == RescanMin(S)
  <2>2. w \in S /\ \A g \in S \ {w} : Better(g, w)
    BY <2>1, WorstIs
  <2>3. k = w.score BY <1>3
  <2> HIDE DEF w
  <2>4. w.score \in Int /\ w.score > NegInf
    BY <2>2, Fields
  <2>5. ASSUME f <= k PROVE AtLeast(S, f) = S
    <3>1. \A g \in S : g.score \in Int /\ g.score >= w.score
      BY <2>2, <2>4, Fields DEF Better
    <3> QED BY <2>3, <2>4, <2>5, <3>1 DEF AtLeast
  <2> QED BY <1>1, <1>3, <2>3, <2>4, <2>5
<1> QED BY <1>2, <1>3

LEMMA KthBestIs ==
  ASSUME StreamAssumption, StreamTypeOK, NEW x \in Queries, HeldInv(x), NEW f \in Int
  PROVE  /\ KthBest(x) \in Int /\ KthBest(x) >= NegInf
         /\ KthBest(x) # NegInf /\ f <= KthBest(x) => Cardinality(AtLeast(best[x], f)) >= K
<1>1. best[x] \subseteq HitType /\ IsFiniteSet(best[x]) /\ \A h \in best[x] : h.score > NegInf
  BY EverythingIs DEF HeldInv
<1>2. K \in Nat \ {0}
  BY DEF StreamAssumption
<1>3. KthBest(x) = IF Cardinality(best[x]) < K THEN NegInf ELSE RescanMin(best[x]).score
  BY DEF KthBest
<1> QED BY <1>1, <1>2, <1>3, KthHolds

LEMMA RowsStay ==
  ASSUME UNCHANGED score
  PROVE  /\ \A x : Everything(x)' = Everything(x)
         /\ \A i, x, v : GlobalHit(i, x, v)' = GlobalHit(i, x, v)
BY DEF Everything, GlobalHit

(* A step that leaves a stream's place and batch alone, and costs the      *)
(* coordinator none of the answer.                                         *)
LEMMA StreamStays ==
  ASSUME NEW j \in Index, NEW x \in Queries, StreamInvOf(j, x), UNCHANGED score,
         base'[j] = base[j], pc'[j] = pc[j], batches'[j][x] = batches[j][x],
         \A h \in Best(Everything(x), K) : h \in best[x] => h \in best'[x]
  PROVE  StreamInvOf(j, x)'
<1>1. InChunk(j)' = InChunk(j)
  BY DEF InChunk, Live
<1> QED BY <1>1, RowsStay DEF StreamInvOf

LEMMA InitStreamInv == ASSUME StreamAssumption, StreamInit PROVE StreamInv
<1> USE DEF StreamInit
<1>0. 0 \in 0 .. StreamVecs /\ NegInf \in Int /\ K \in Nat
  BY DEF StreamAssumption, NegInf
<1>1. StreamTypeOK
  BY <1>0 DEF StreamTypeOK
<1>2. NothingLost
  BY DEF NothingLost
<1>3. \A x \in Queries : HeldInv(x)
  BY <1>0, FS_EmptySet DEF HeldInv
<1>4. \A i \in Index : \A x \in Queries : StreamInvOf(i, x)
  BY DEF StreamInvOf
<1>5. \A i \in Index : pc[i] = "poll" /\ ~ completed[i]
  OBVIOUS
<1> QED BY <1>1, <1>2, <1>3, <1>4, <1>5 DEF StreamInv

(* Steps that leave the coordinator and the floors alone.                  *)
LEMMA EndKeeps == ASSUME StreamAssumption, StreamInv, NEW i \in Index, End(i) PROVE StreamInv'
<1> USE DEF End
<1>1. StreamTypeOK /\ StreamTypeOK'
  BY DEF StreamInv, StreamTypeOK
<1>2. NothingLost'
  BY DEF StreamInv, NothingLost
<1>3. \A x \in Queries : HeldInv(x)'
  BY DEF StreamInv, HeldInv, Everything
<1>4. ASSUME NEW j \in Index, NEW x \in Queries PROVE StreamInvOf(j, x)'
  <2>1. StreamInvOf(j, x)
    BY DEF StreamInv
  <2>2. CASE j # i
    <3>1. pc'[j] = pc[j] BY <1>1, <2>2 DEF StreamTypeOK
    <3> QED BY <2>1, <3>1, StreamStays
  <2>3. CASE j = i
    <3>1. pc[j] = "poll" /\ pc'[j] = "end" BY <1>1, <2>3 DEF StreamTypeOK
    <3> QED BY <2>1, <3>1, RowsStay DEF StreamInvOf
  <2> QED BY <2>2, <2>3
<1>5. ASSUME NEW j \in Index
      PROVE  /\ completed'[j] => base'[j] = StreamVecs
             /\ pc'[j] = "sink" => base'[j] < StreamVecs
  BY <1>1 DEF StreamInv, StreamTypeOK, StreamAssumption
<1> QED BY <1>1, <1>2, <1>3, <1>4, <1>5 DEF StreamInv

LEMMA ChunkDoneKeeps == ASSUME StreamAssumption, StreamInv, NEW i \in Index, ChunkDone(i) PROVE StreamInv'
<1> USE DEF ChunkDone
<1>0. StreamTypeOK /\ base'[i] = base[i] + Live(i) /\ base[i] \in Nat /\ Live(i) \in Nat
      /\ base'[i] \in 0 .. StreamVecs /\ pc'[i] = "poll" /\ Live(i) > 0
  BY LiveIs DEF StreamInv, StreamTypeOK
<1>1. StreamTypeOK'
  BY <1>0 DEF StreamTypeOK
<1>2. NothingLost'
  BY DEF StreamInv, NothingLost
<1>3. \A x \in Queries : HeldInv(x)'
  BY DEF StreamInv, HeldInv, Everything
<1>4. ASSUME NEW j \in Index, NEW x \in Queries PROVE StreamInvOf(j, x)'
  <2>1. StreamInvOf(j, x)
    BY DEF StreamInv
  <2>2. CASE j # i
    <3>1. pc'[j] = pc[j] /\ base'[j] = base[j]
      BY <1>0, <2>2 DEF StreamTypeOK
    <3> QED BY <2>1, <3>1, StreamStays
  <2>3. CASE j = i
    <3>1. batches[i][x] = {} OBVIOUS
    <3>2. \A v \in 0 .. base'[i] - 1 : v \in 0 .. base[i] - 1 \/ v \in InChunk(i)
      BY <1>0 DEF InChunk
    <3>3. \A v \in 0 .. base'[i] - 1 :
            GlobalHit(i, x, v) \in Best(Everything(x), K) => GlobalHit(i, x, v) \in best[x]
      BY <2>1, <2>3, <3>1, <3>2 DEF StreamInvOf
    <3> QED BY <1>0, <2>3, <3>1, <3>3, RowsStay DEF StreamInvOf
  <2> QED BY <2>2, <2>3
<1>5. ASSUME NEW j \in Index
      PROVE  /\ completed'[j] => base'[j] = StreamVecs
             /\ pc'[j] = "sink" => base'[j] < StreamVecs
  BY <1>0, <1>1 DEF StreamInv, StreamTypeOK, StreamAssumption
<1> QED BY <1>1, <1>2, <1>3, <1>4, <1>5 DEF StreamInv

(* A batch handed over: the coordinator's best of what it held and the     *)
(* batch has all of the answer that was in either, and holds every floor.  *)
LEMMA Taken ==
  ASSUME StreamAssumption, StreamInv, NEW i \in Index, NEW x \in Queries, UNCHANGED score,
         best'[x] = Best(best[x] \cup batches[i][x], K)
  PROVE  /\ HeldInv(x)' /\ best'[x] \subseteq HitType
         /\ \A h \in Best(Everything(x), K) : h \in best[x] \cup batches[i][x] => h \in best'[x]
         /\ \A f \in Int : Cardinality(AtLeast(best[x], f)) >= K => Cardinality(AtLeast(best'[x], f)) >= K
<1> DEFINE E == Everything(x)
           S == best[x] \cup batches[i][x]
<1>1. StreamTypeOK /\ HeldInv(x) /\ StreamInvOf(i, x) /\ K \in Nat
  BY DEF StreamInv, StreamAssumption
<1>2. E \subseteq HitType /\ IsFiniteSet(E)
  BY <1>1, EverythingIs
<1>3. S \subseteq E
  BY <1>1 DEF HeldInv, StreamInvOf
<1>4. S \subseteq HitType /\ IsFiniteSet(S) /\ Cardinality(S) \in Nat
  BY <1>2, <1>3, FS_Subset, FS_CardinalityType
<1>5. best'[x] = Best(S, K) /\ best[x] \subseteq S
  OBVIOUS
<1>6. \A h \in Best(E, K) : h \in S => h \in best'[x]
  <2> HIDE DEF S, E
  <2> QED BY <1>1, <1>2, <1>3, <1>5, BestOfFewer
<1>7. HeldInv(x)' /\ best'[x] \subseteq HitType
  <2>1. Best(S, K) \subseteq S /\ IsFiniteSet(Best(S, K)) /\ Cardinality(Best(S, K)) <= K
    <3> HIDE DEF S
    <3>1. /\ Best(S, K) \subseteq S /\ IsFiniteSet(Best(S, K))
          /\ Cardinality(S) <= K => Best(S, K) = S
          /\ Cardinality(S) >= K => Cardinality(Best(S, K)) = K
      BY <1>1, <1>4, BestSize
    <3> QED BY <1>1, <1>4, <3>1
  <2> HIDE DEF S
  <2> QED BY <1>3, <1>4, <1>5, <2>1, RowsStay DEF HeldInv, E
<1>8. ASSUME NEW f \in Int, Cardinality(AtLeast(best[x], f)) >= K
      PROVE  Cardinality(AtLeast(best'[x], f)) >= K
  <2> HIDE DEF S
  <2>1. AtLeast(best[x], f) \in SUBSET AtLeast(S, f) /\ AtLeast(S, f) \in SUBSET S
    BY <1>5 DEF AtLeast
  <2>2. IsFiniteSet(AtLeast(S, f)) /\ Cardinality(AtLeast(S, f)) \in Nat
    BY <1>4, <2>1, FS_Subset, FS_CardinalityType
  <2>3. Cardinality(AtLeast(best[x], f)) <= Cardinality(AtLeast(S, f)) /\ IsFiniteSet(AtLeast(best[x], f))
    BY <2>1, <2>2, FS_Subset
  <2>4. Cardinality(AtLeast(best[x], f)) \in Nat
    BY <2>3, FS_CardinalityType
  <2>5. Cardinality(AtLeast(S, f)) >= K
    BY <1>1, <1>8, <2>2, <2>3, <2>4
  <2>6. AtLeast(Best(S, K), f) = Best(S, K) /\ Cardinality(Best(S, K)) = K
    BY <1>1, <1>4, <2>5, FloorHeld
  <2> QED BY <1>1, <1>5, <2>6
<1> QED BY <1>6, <1>7, <1>8

LEMMA LostIs ==
  NothingLost <=> \A i \in Index : \A x \in Queries :
                     floors[i][x] # NegInf => Cardinality(AtLeast(best[x], floors[i][x])) >= K
BY DEF NothingLost, AtLeast

(* A floor that some query's batch finds raised later is one its hits hold. *)
LEMMA Unraised ==
  ASSUME StreamAssumption, StreamInv, StreamTypeOK', UNCHANGED floors,
         NEW x \in Queries, \A y \in Queries : y # x => best'[y] = best[y],
         \A f \in Int : Cardinality(AtLeast(best[x], f)) >= K => Cardinality(AtLeast(best'[x], f)) >= K
  PROVE  NothingLost'
<1>1. ASSUME NEW j \in Index, NEW y \in Queries, floors[j][y] # NegInf
      PROVE  Cardinality({h \in best'[y] : h.score >= floors[j][y]}) >= K
  <2>1. floors[j][y] \in Int
    BY DEF StreamInv, StreamTypeOK
  <2>2. Cardinality(AtLeast(best[y], floors[j][y])) >= K
    BY <1>1, LostIs DEF StreamInv
  <2>3. Cardinality(AtLeast(best'[y], floors[j][y])) >= K
    BY <2>1, <2>2
  <2> QED BY <2>3 DEF AtLeast
<1> QED BY <1>1 DEF NothingLost

LEMMA StopKeeps == ASSUME StreamAssumption, StreamInv, NEW i \in Index, Stop(i) PROVE StreamInv'
<1>0. StreamTypeOK /\ pc'[i] = "end" /\ UNCHANGED <<score, base, floors, completed>>
      /\ pc' = [pc EXCEPT ![i] = "end"]
      /\ batches' = [batches EXCEPT ![i] = [x \in Queries |-> {}]]
  BY DEF StreamInv, StreamTypeOK, Stop
<1>1. \/ UNCHANGED best
      \/ \E x \in Queries : best' = [best EXCEPT ![x] = Best(@ \cup batches[i][x], K)]
  BY DEF Stop
<1>2. PICK x \in Queries :
         /\ \A y \in Queries : y # x => best'[y] = best[y]
         /\ best' = best \/ best'[x] = Best(best[x] \cup batches[i][x], K)
         /\ best' \in [Queries -> SUBSET HitType]
  <2>1. CASE UNCHANGED best
    <3>1. PICK x : x \in Queries BY DEF StreamAssumption
    <3> QED BY <1>0, <2>1, <3>1 DEF StreamTypeOK
  <2>2. ASSUME NEW x \in Queries, best' = [best EXCEPT ![x] = Best(@ \cup batches[i][x], K)]
        PROVE  /\ \A y \in Queries : y # x => best'[y] = best[y]
               /\ best'[x] = Best(best[x] \cup batches[i][x], K)
               /\ best' \in [Queries -> SUBSET HitType]
    <3>1. best'[x] = Best(best[x] \cup batches[i][x], K)
      BY <1>0, <2>2 DEF StreamTypeOK
    <3>2. best'[x] \subseteq HitType
      BY <1>0, <3>1, Taken
    <3> QED BY <1>0, <2>2, <3>1, <3>2 DEF StreamTypeOK
  <2> QED BY <1>1, <2>1, <2>2
<1>3. /\ HeldInv(x)'
      /\ \A h \in Best(Everything(x), K) : h \in best[x] => h \in best'[x]
      /\ \A f \in Int : Cardinality(AtLeast(best[x], f)) >= K => Cardinality(AtLeast(best'[x], f)) >= K
  <2>1. CASE best' = best
    BY <1>0, <2>1, RowsStay DEF HeldInv, StreamInv
  <2>2. CASE best'[x] = Best(best[x] \cup batches[i][x], K)
    BY <1>0, <2>2, Taken
  <2> QED BY <1>2, <2>1, <2>2
<1>4. StreamTypeOK'
  BY <1>0, <1>2 DEF StreamTypeOK
<1>5. NothingLost'
  BY <1>0, <1>2, <1>3, <1>4, Unraised
<1>6. \A y \in Queries : HeldInv(y)'
  BY <1>0, <1>2, <1>3, RowsStay DEF HeldInv, StreamInv
<1>7. ASSUME NEW j \in Index, NEW y \in Queries PROVE StreamInvOf(j, y)'
  <2>1. StreamInvOf(j, y)
    BY DEF StreamInv
  <2>2. \A h \in Best(Everything(y), K) : h \in best[y] => h \in best'[y]
    BY <1>2, <1>3
  <2>3. CASE j # i
    <3>1. pc'[j] = pc[j] /\ batches'[j][y] = batches[j][y] /\ base'[j] = base[j]
      BY <1>0, <2>3 DEF StreamTypeOK
    <3> QED BY <1>0, <2>1, <2>2, <3>1, StreamStays
  <2>4. CASE j = i
    <3>1. batches'[j][y] = {} BY <1>0, <2>4 DEF StreamTypeOK
    <3> QED BY <1>0, <2>1, <2>2, <2>4, <3>1, RowsStay DEF StreamInvOf
  <2> QED BY <2>3, <2>4
<1>8. ASSUME NEW j \in Index
      PROVE  /\ completed'[j] => base'[j] = StreamVecs
             /\ pc'[j] = "sink" => base'[j] < StreamVecs
  BY <1>0, <1>4 DEF StreamInv, StreamTypeOK
<1> QED BY <1>4, <1>5, <1>6, <1>7, <1>8 DEF StreamInv

(* A query's batch goes to the coordinator, who may answer with its k-th   *)
(* best.                                                                   *)
LEMMA SinkKeeps ==
  ASSUME StreamAssumption, StreamInv, NEW i \in Index, NEW x \in Queries, NEW raises \in BOOLEAN,
         Sink(i, x, raises)
  PROVE  StreamInv'
<1>0. StreamTypeOK /\ UNCHANGED <<score, base, pc, completed>> /\ pc[i] = "sink"
      /\ best' = [best EXCEPT ![x] = Best(@ \cup batches[i][x], K)]
      /\ batches' = [batches EXCEPT ![i][x] = {}]
      /\ floors' = IF raises THEN [floors EXCEPT ![i][x] = Raise(KthBest(x)', @)] ELSE floors
  BY DEF StreamInv, Sink
<1>1. best'[x] = Best(best[x] \cup batches[i][x], K) /\ \A y \in Queries : y # x => best'[y] = best[y]
  BY <1>0 DEF StreamTypeOK
<1>2. /\ HeldInv(x)' /\ best'[x] \subseteq HitType
      /\ \A h \in Best(Everything(x), K) : h \in best[x] \cup batches[i][x] => h \in best'[x]
      /\ \A f \in Int : Cardinality(AtLeast(best[x], f)) >= K => Cardinality(AtLeast(best'[x], f)) >= K
  BY <1>0, <1>1, Taken
<1>3. /\ KthBest(x)' \in Int
      /\ \A f \in Int : KthBest(x)' # NegInf /\ f <= KthBest(x)' => Cardinality(AtLeast(best'[x], f)) >= K
  <2> SUFFICES ASSUME NEW f \in Int
               PROVE  /\ KthBest(x)' \in Int
                      /\ KthBest(x)' # NegInf /\ f <= KthBest(x)' => Cardinality(AtLeast(best'[x], f)) >= K
    BY 0 \in Int
  <2>1. IsFiniteSet(best'[x]) /\ \A h \in best'[x] : h.score > NegInf
    <3>1. Everything(x)' = Everything(x)
      BY <1>0, RowsStay
    <3>2. best'[x] \subseteq Everything(x) /\ IsFiniteSet(best'[x])
      BY <1>2, <3>1 DEF HeldInv
    <3>3. \A h \in Everything(x) : h.score > NegInf
      BY <1>0, EverythingIs
    <3> QED BY <3>2, <3>3
  <2>2. KthBest(x)' = IF Cardinality(best'[x]) < K THEN NegInf ELSE RescanMin(best'[x]).score
    BY DEF KthBest
  <2>3. K \in Nat \ {0} BY DEF StreamAssumption
  <2> QED BY <1>2, <2>1, <2>2, <2>3, KthHolds
<1>4. \A j \in Index : \A y \in Queries :
        \/ floors'[j][y] = floors[j][y]
        \/ j = i /\ y = x /\ floors'[j][y] = KthBest(x)' /\ floors'[j][y] > floors[j][y]
  <2> TAKE j \in Index
  <2> TAKE y \in Queries
  <2>0. floors[i] \in [Queries -> Int]
    BY <1>0 DEF StreamTypeOK
  <2>1. floors' = floors \/ floors' = [floors EXCEPT ![i][x] = Raise(KthBest(x)', @)]
    BY <1>0
  <2>2. CASE floors' = [floors EXCEPT ![i][x] = Raise(KthBest(x)', @)]
    <3>1. floors'[i][x] = Raise(KthBest(x)', floors[i][x])
      BY <1>0, <2>0, <2>2 DEF StreamTypeOK
    <3>2. (j = i /\ y = x) \/ floors'[j][y] = floors[j][y]
      BY <1>0, <2>0, <2>2 DEF StreamTypeOK
    <3> QED BY <3>1, <3>2 DEF Raise
  <2> QED BY <2>1, <2>2
<1>5. StreamTypeOK'
  <2>1. floors' \in [Index -> [Queries -> Int]]
    BY <1>0, <1>3 DEF StreamTypeOK, Raise
  <2>2. best' \in [Queries -> SUBSET HitType]
    BY <1>0, <1>1, <1>2 DEF StreamTypeOK
  <2>3. batches' \in [Index -> [Queries -> SUBSET HitType]]
    BY <1>0 DEF StreamTypeOK
  <2> QED BY <1>0, <2>1, <2>2, <2>3 DEF StreamTypeOK
<1>6. NothingLost'
  <2>1. ASSUME NEW j \in Index, NEW y \in Queries, floors'[j][y] # NegInf
        PROVE  Cardinality(AtLeast(best'[y], floors'[j][y])) >= K
    <3>1. floors'[j][y] \in Int BY <1>5 DEF StreamTypeOK
    <3>2. CASE floors'[j][y] = floors[j][y]
      <4>1. Cardinality(AtLeast(best[y], floors[j][y])) >= K
        BY <2>1, <3>2, LostIs DEF StreamInv
      <4> QED BY <1>1, <1>2, <3>1, <3>2, <4>1
    <3>3. CASE y = x /\ floors'[j][y] = KthBest(x)'
      BY <1>3, <2>1, <3>1, <3>3
    <3> QED BY <1>4, <3>2, <3>3
  <2> QED BY <2>1 DEF NothingLost, AtLeast
<1>7. \A y \in Queries : HeldInv(y)'
  BY <1>0, <1>1, <1>2, RowsStay DEF HeldInv, StreamInv
<1>8. ASSUME NEW j \in Index, NEW y \in Queries PROVE StreamInvOf(j, y)'
  <2>1. StreamInvOf(j, y)
    BY DEF StreamInv
  <2>2. \A h \in Best(Everything(y), K) : h \in best[y] => h \in best'[y]
    BY <1>1, <1>2
  <2>3. CASE ~ (j = i /\ y = x)
    <3>1. batches'[j][y] = batches[j][y]
      BY <1>0, <2>3 DEF StreamTypeOK
    <3> QED BY <1>0, <2>1, <2>2, <3>1, StreamStays
  <2>4. CASE j = i /\ y = x
    <3>1. batches'[i][x] = {} BY <1>0 DEF StreamTypeOK
    <3>2. InChunk(i)' = InChunk(i) BY <1>0 DEF InChunk, Live
    <3> QED BY <1>0, <1>2, <2>1, <2>4, <3>1, <3>2, RowsStay DEF StreamInvOf
  <2> QED BY <2>3, <2>4
<1>9. ASSUME NEW j \in Index
      PROVE  /\ completed'[j] => base'[j] = StreamVecs
             /\ pc'[j] = "sink" => base'[j] < StreamVecs
  BY <1>0 DEF StreamInv
<1> QED BY <1>5, <1>6, <1>7, <1>8, <1>9 DEF StreamInv

(* What is relayed to a whole index is a floor every query's hits hold.    *)
LEMMA RelayedIs ==
  ASSUME StreamAssumption, StreamInv
  PROVE  /\ Relayed \in Int
         /\ \A x \in Queries : \A f \in Int :
               Relayed # NegInf /\ f <= Relayed => Cardinality(AtLeast(best[x], f)) >= K
<1> DEFINE g == [x \in Queries |-> KthBest(x)]
           R == {g[x] : x \in Queries}
<1>1. IsFiniteSet(Queries) /\ Queries # {} /\ StreamTypeOK /\ NegInf \in Int
  BY DEF StreamAssumption, StreamInv, NegInf
<1>2. ASSUME NEW x \in Queries, NEW f \in Int
      PROVE  /\ KthBest(x) \in Int /\ KthBest(x) >= NegInf
             /\ KthBest(x) # NegInf /\ f <= KthBest(x) => Cardinality(AtLeast(best[x], f)) >= K
  BY <1>1, KthBestIs DEF StreamInv
<1>3. \A x \in Queries : KthBest(x) \in Int /\ KthBest(x) >= NegInf
  BY <1>2, 0 \in Int
<1>4. Relayed = Min(R) /\ R # {} /\ \A x \in Queries : KthBest(x) \in R
  BY <1>1 DEF Relayed
<1>5. R \subseteq Int /\ \A r \in R : r >= NegInf
  BY <1>3
<1>6. IsFiniteSet(R)
  <2> HIDE DEF g
  <2> QED BY <1>1, FiniteImage
<1> HIDE DEF R
<1>7. Relayed \in R /\ \A x \in Queries : Relayed <= KthBest(x)
  BY <1>4, <1>5, <1>6, MinIs
<1>8. Relayed \in Int /\ Relayed >= NegInf
  BY <1>5, <1>7
<1>9. ASSUME NEW x \in Queries, NEW f \in Int, Relayed # NegInf, f <= Relayed
      PROVE  Cardinality(AtLeast(best[x], f)) >= K
  <2>1. KthBest(x) # NegInf /\ f <= KthBest(x)
    BY <1>1, <1>3, <1>7, <1>8, <1>9
  <2> QED BY <1>2, <2>1
<1> QED BY <1>8, <1>9

(* A chunk is scanned at the lowest of the floors, and each query keeps    *)
(* what its own floor admits: a row it drops is beaten by K it holds.      *)
LEMMA NextChunkKeeps ==
  ASSUME StreamAssumption, StreamInv, NEW i \in Index, NEW raises \in BOOLEAN, NextChunk(i, raises)
  PROVE  StreamInv'
<1> DEFINE own == floors'[i]
           lowest == Min({own[x] : x \in Queries})
<1>0. /\ StreamTypeOK /\ UNCHANGED <<score, base, completed, best>> /\ base[i] < StreamVecs
      /\ pc[i] = "poll" /\ pc' = [pc EXCEPT ![i] = "sink"]
      /\ floors' = floors \/ floors' = [floors EXCEPT ![i] = [x \in Queries |-> Raise(Relayed, @[x])]]
      /\ batches' = [batches EXCEPT ![i] = [x \in Queries |->
             {Global(i, h) : h \in {g \in ChunkHits(i, x, lowest) : g.score >= own[x]}}]]
  BY DEF StreamInv, NextChunk
<1>1. /\ Relayed \in Int
      /\ \A x \in Queries : \A f \in Int :
            Relayed # NegInf /\ f <= Relayed => Cardinality(AtLeast(best[x], f)) >= K
  BY RelayedIs
<1>2. \A j \in Index : \A x \in Queries :
        \/ floors'[j][x] = floors[j][x]
        \/ floors'[j][x] = Relayed /\ floors'[j][x] > floors[j][x]
  <2> TAKE j \in Index
  <2> TAKE x \in Queries
  <2>1. CASE floors' = [floors EXCEPT ![i] = [y \in Queries |-> Raise(Relayed, @[y])]]
    <3>1. floors'[i] = [y \in Queries |-> Raise(Relayed, floors[i][y])]
      BY <1>0, <2>1 DEF StreamTypeOK
    <3>2. floors'[i][x] = Raise(Relayed, floors[i][x])
      BY <3>1
    <3>3. j = i \/ floors'[j] = floors[j]
      BY <1>0, <2>1 DEF StreamTypeOK
    <3> QED BY <3>2, <3>3 DEF Raise
  <2> QED BY <1>0, <2>1
<1>3. floors' \in [Index -> [Queries -> Int]]
  <2>1. CASE floors' = [floors EXCEPT ![i] = [y \in Queries |-> Raise(Relayed, @[y])]]
    <3>1. floors[i] \in [Queries -> Int] BY <1>0 DEF StreamTypeOK
    <3>2. \A y \in Queries : Raise(Relayed, floors[i][y]) \in Int
      BY <1>1, <3>1 DEF Raise
    <3>3. [y \in Queries |-> Raise(Relayed, floors[i][y])] \in [Queries -> Int]
      BY <3>2
    <3> QED BY <1>0, <2>1, <3>3 DEF StreamTypeOK
  <2> QED BY <1>0, <2>1 DEF StreamTypeOK
<1>4. NothingLost'
  <2>1. ASSUME NEW j \in Index, NEW y \in Queries, floors'[j][y] # NegInf
        PROVE  Cardinality(AtLeast(best[y], floors'[j][y])) >= K
    <3>1. floors'[j][y] \in Int BY <1>3
    <3>2. CASE floors'[j][y] = floors[j][y]
      BY <2>1, <3>2, LostIs DEF StreamInv
    <3>3. CASE floors'[j][y] = Relayed
      BY <1>1, <2>1, <3>1, <3>3
    <3> QED BY <1>2, <3>2, <3>3
  <2> QED BY <1>0, <2>1 DEF NothingLost, AtLeast
<1>5. own \in [Queries -> Int] /\ \A x \in Queries : own[x] \in Int
  BY <1>3
<1> HIDE DEF own
<1>6. lowest \in Int /\ \A x \in Queries : lowest <= own[x]
  <2> DEFINE R == {own[x] : x \in Queries}
  <2>1. R \subseteq Int /\ R # {} /\ \A x \in Queries : own[x] \in R
    BY <1>5 DEF StreamAssumption
  <2>2. IsFiniteSet(R)
    BY FiniteImage DEF StreamAssumption
  <2> HIDE DEF R
  <2>3. Min(R) \in R /\ \A x \in Queries : Min(R) <= own[x]
    BY <2>1, <2>2, MinIs
  <2>4. lowest = Min(R) BY DEF R
  <2> QED BY <2>1, <2>3, <2>4
<1> HIDE DEF lowest
<1>7. \A x \in Queries : \A w \in InChunk(i) :
        score[i][x][w] \in Int /\ score[i][x][w] > NegInf /\ w \in Int /\ w \in StreamSlots
  <2> TAKE x \in Queries
  <2> TAKE w \in InChunk(i)
  <2>1. w \in StreamSlots BY <1>0, LiveIs
  <2>2. w \in Int BY <2>1 DEF StreamSlots, StreamAssumption
  <2>3. score[i][x][w] \in Int /\ score[i][x][w] > NegInf BY <1>0, <2>1, GlobalHitIs
  <2> QED BY <2>1, <2>2, <2>3
<1>8. ASSUME NEW x \in Queries
      PROVE  /\ batches'[i][x] \subseteq {GlobalHit(i, x, v) : v \in InChunk(i)}
             /\ \A v \in InChunk(i) : score[i][x][v] >= own[x] => GlobalHit(i, x, v) \in batches'[i][x]
  <2> DEFINE C == ChunkHits(i, x, lowest)
  <2>1. batches'[i][x] = {Global(i, h) : h \in {g \in C : g.score >= own[x]}}
    BY <1>0 DEF StreamTypeOK
  <2>2. C = {Hit(score[i][x][v], v) : v \in {w \in InChunk(i) : score[i][x][w] >= lowest}}
    BY <1>0, <1>6, ChunkHitsAre
  <2> HIDE DEF C
  <2>3. ASSUME NEW b \in batches'[i][x] PROVE b \in {GlobalHit(i, x, v) : v \in InChunk(i)}
    <3>1. PICK h \in C : b = Global(i, h) BY <2>1
    <3>2. PICK v \in InChunk(i) : h = Hit(score[i][x][v], v) BY <2>2
    <3> QED BY <3>1, <3>2 DEF GlobalHit
  <2>4. ASSUME NEW v \in InChunk(i), score[i][x][v] >= own[x]
        PROVE  GlobalHit(i, x, v) \in batches'[i][x]
    <3>0. score[i][x][v] \in Int /\ own[x] \in Int /\ lowest \in Int /\ lowest <= own[x]
      BY <1>5, <1>6, <1>7
    <3>1. score[i][x][v] >= lowest BY <2>4, <3>0
    <3>2. Hit(score[i][x][v], v) \in C BY <2>2, <3>1
    <3>3. Hit(score[i][x][v], v).score >= own[x] BY <2>4 DEF Hit
    <3> QED BY <2>1, <3>2, <3>3 DEF GlobalHit
  <2> QED BY <2>3, <2>4
<1>9. \A x \in Queries : batches'[i][x] \subseteq Everything(x)
  <2> TAKE x \in Queries
  <2>1. \A v \in InChunk(i) : v \in StreamSlots BY <1>7
  <2>2. \A v \in InChunk(i) : GlobalHit(i, x, v) \in Everything(x)
    BY <1>0, <2>1, GlobalHitIs
  <2> QED BY <1>8, <2>2
<1>10. StreamTypeOK'
  <2>1. \A x \in Queries : batches'[i][x] \subseteq HitType
    BY <1>0, <1>9, EverythingIs
  <2>2. batches'[i] \in [Queries -> SUBSET HitType]
    <3>1. batches'[i] = [x \in Queries |->
             {Global(i, h) : h \in {g \in ChunkHits(i, x, lowest) : g.score >= own[x]}}]
      BY <1>0 DEF StreamTypeOK
    <3> QED BY <2>1, <3>1
  <2>3. batches' \in [Index -> [Queries -> SUBSET HitType]]
    BY <1>0, <2>2 DEF StreamTypeOK
  <2> QED BY <1>0, <1>3, <2>3 DEF StreamTypeOK
<1>11. ASSUME NEW j \in Index, NEW x \in Queries PROVE StreamInvOf(j, x)'
  <2>1. StreamInvOf(j, x)
    BY DEF StreamInv
  <2>2. CASE j # i
    <3>1. pc'[j] = pc[j] /\ batches'[j][x] = batches[j][x] /\ base'[j] = base[j]
      BY <1>0, <2>2 DEF StreamTypeOK
    <3> QED BY <1>0, <2>1, <3>1, StreamStays
  <2>3. CASE j = i
    <3>1. pc'[i] = "sink" /\ InChunk(i)' = InChunk(i)
      BY <1>0 DEF StreamTypeOK, InChunk, Live
    <3>2. ASSUME NEW v \in InChunk(i), GlobalHit(i, x, v) \in Best(Everything(x), K),
                 GlobalHit(i, x, v) \notin batches'[i][x]
          PROVE  FALSE
      <4>0. score[i][x][v] \in Int /\ score[i][x][v] > NegInf /\ own[x] \in Int
        BY <1>5, <1>7
      <4>1. ~ (score[i][x][v] >= own[x]) BY <1>8, <3>2
      <4>2. own[x] > score[i][x][v] /\ own[x] # NegInf
        BY <4>0, <4>1 DEF NegInf
      <4>3. Cardinality(AtLeast(best[x], own[x])) >= K
        BY <1>0, <1>4, <4>2 DEF NothingLost, AtLeast, own
      <4> DEFINE h == GlobalHit(i, x, v)
      <4>4. h.score = score[i][x][v] BY <1>0, <1>7, GlobalHitIs
      <4> HIDE DEF h
      <4>5. Everything(x) \subseteq HitType /\ IsFiniteSet(Everything(x)) /\ K \in Nat
            /\ \A g \in Everything(x) : g.score \in Int
        <5>1. StreamTypeOK BY <1>0
        <5>2. K \in Nat BY DEF StreamAssumption
        <5> QED BY <5>1, <5>2, EverythingIs
      <4>6. AtLeast(best[x], own[x]) \subseteq Everything(x)
        BY DEF StreamInv, HeldInv, AtLeast
      <4>7. \A g \in AtLeast(best[x], own[x]) : Better(g, h)
        <5> TAKE g \in AtLeast(best[x], own[x])
        <5>1. g.score \in Int /\ g.score >= own[x] BY <4>5, <4>6 DEF AtLeast
        <5>2. g.score > h.score BY <4>0, <4>2, <4>4, <5>1
        <5> QED BY <5>2 DEF Better
      <4>8. h \notin Best(Everything(x), K)
        BY <4>3, <4>5, <4>6, <4>7, Beaten
      <4> QED BY <3>2, <4>8 DEF h
    <3>3. /\ Everything(x)' = Everything(x) /\ best' = best /\ base' = base
          /\ \A v : GlobalHit(i, x, v)' = GlobalHit(i, x, v)
      BY <1>0, RowsStay
    <3>4. /\ batches'[i][x] \subseteq Everything(x)
          /\ \A v \in 0 .. base[i] - 1 :
                GlobalHit(i, x, v) \in Best(Everything(x), K) => GlobalHit(i, x, v) \in best[x]
      BY <1>9, <2>1, <2>3 DEF StreamInvOf
    <3>5. StreamInvOf(i, x)'
      BY <3>1, <3>2, <3>3, <3>4 DEF StreamInvOf
    <3> QED BY <2>3, <3>5
  <2> QED BY <2>2, <2>3
<1>12. \A x \in Queries : HeldInv(x)'
  BY <1>0, RowsStay DEF HeldInv, StreamInv
<1>13. ASSUME NEW j \in Index
      PROVE  /\ completed'[j] => base'[j] = StreamVecs
             /\ pc'[j] = "sink" => base'[j] < StreamVecs
  BY <1>0 DEF StreamInv, StreamTypeOK
<1> QED BY <1>4, <1>10, <1>11, <1>12, <1>13 DEF StreamInv

LEMMA StreamStutter == ASSUME StreamInv, UNCHANGED streamVars PROVE StreamInv'
<1> USE DEF streamVars
<1>1. StreamTypeOK' BY DEF StreamInv, StreamTypeOK
<1>2. NothingLost' BY DEF StreamInv, NothingLost
<1>3. \A x \in Queries : HeldInv(x)' BY DEF StreamInv, HeldInv, Everything
<1>4. ASSUME NEW i \in Index, NEW x \in Queries PROVE StreamInvOf(i, x)'
  BY StreamStays DEF StreamInv
<1> QED BY <1>1, <1>2, <1>3, <1>4 DEF StreamInv

LEMMA StreamStepKeeps == ASSUME StreamAssumption, StreamInv, [StreamNext]_streamVars PROVE StreamInv'
<1>1. ASSUME NEW i \in Index, StreamStep(i) PROVE StreamInv'
  BY <1>1, EndKeeps, StopKeeps, ChunkDoneKeeps, NextChunkKeeps, SinkKeeps DEF StreamStep
<1> QED BY <1>1, StreamStutter DEF StreamNext

(* However the streams interleave, wherever one stops and whenever a relay *)
(* takes effect, what has been scanned of the answer is at the coordinator *)
(* or in a batch on its way to it                                          *)
(* (try_search_streaming_chunked_controlled).                              *)
THEOREM StreamInvariance == StreamSpec => []StreamInv
<1>1. StreamInit => StreamInv
  BY StreamAssumption, InitStreamInv
<1>2. StreamInv /\ [StreamNext]_streamVars => StreamInv'
  BY StreamAssumption, StreamStepKeeps
<1> QED BY <1>1, <1>2, PTL DEF StreamSpec

(* Once every stream has completed, the coordinator has the best K over    *)
(* all the indexes, ties included, for any number of indexes, queries,     *)
(* rows and results and any chunk size: nothing is lost to a floor         *)
(* (StreamSummary::completed).                                             *)
THEOREM StreamsGlobalTopK == StreamSpec => []GlobalTopK
<1>1. StreamInv => BestAtTheEnd
  <2> SUFFICES ASSUME StreamInv, \A i \in Index : completed[i], NEW x \in Queries
               PROVE  best[x] = Best(Everything(x), K)
    BY DEF BestAtTheEnd
  <2> DEFINE E == Everything(x)
  <2>1. E \subseteq HitType /\ IsFiniteSet(E) /\ K \in Nat
    BY StreamAssumption, EverythingIs DEF StreamInv, StreamAssumption
  <2>2. best[x] \subseteq E /\ IsFiniteSet(best[x]) /\ Cardinality(best[x]) <= K
    BY DEF StreamInv, HeldInv
  <2>3. ASSUME NEW h \in Best(E, K) PROVE h \in best[x]
    <3>1. h \in E BY BestIs
    <3>2. PICK i \in Index, v \in StreamSlots : h = GlobalHit(i, x, v)
      BY <3>1, StreamAssumption, EverythingIs DEF StreamInv
    <3>3. base[i] = StreamVecs BY DEF StreamInv
    <3>4. v \in 0 .. base[i] - 1 BY <3>3 DEF StreamSlots
    <3> QED BY <2>3, <3>2, <3>4 DEF StreamInv, StreamInvOf
  <2> HIDE DEF E
  <2>4. Best(best[x], K) = Best(E, K)
    BY <2>1, <2>2, <2>3, Absorb
  <2>5. best[x] \subseteq HitType /\ Cardinality(best[x]) \in Nat
    BY <2>1, <2>2, FS_CardinalityType
  <2>6. Best(best[x], K) = best[x]
    BY <2>1, <2>2, <2>5, BestSize
  <2> QED BY <2>4, <2>6 DEF E
<1>2. StreamInv => NothingLost
  BY DEF StreamInv
<1> QED BY <1>1, <1>2, StreamInvariance, PTL DEF GlobalTopK

LEMMA FloorMoves ==
  ASSUME StreamTypeOK, NEW i \in Index, StreamStep(i), NEW j \in Index, NEW x \in Queries
  PROVE  floors'[j][x] = floors[j][x] \/ floors'[j][x] > floors[j][x]
<1>1. CASE floors' = floors
  BY <1>1
<1>2. ASSUME NEW f, floors' = [floors EXCEPT ![i] = [y \in Queries |-> Raise(f, @[y])]]
      PROVE  floors'[j][x] = floors[j][x] \/ floors'[j][x] > floors[j][x]
  <2>1. floors'[i] = [y \in Queries |-> Raise(f, floors[i][y])] /\ (j = i \/ floors'[j] = floors[j])
    BY <1>2 DEF StreamTypeOK
  <2>2. floors'[i][x] = Raise(f, floors[i][x])
    BY <2>1
  <2> QED BY <2>1, <2>2 DEF Raise
<1>3. ASSUME NEW f, NEW y \in Queries, floors' = [floors EXCEPT ![i][y] = Raise(f, @)]
      PROVE  floors'[j][x] = floors[j][x] \/ floors'[j][x] > floors[j][x]
  <2>0. floors[i] \in [Queries -> Int]
    BY DEF StreamTypeOK
  <2>1. floors'[i][y] = Raise(f, floors[i][y]) /\ ((j = i /\ x = y) \/ floors'[j][x] = floors[j][x])
    BY <1>3, <2>0 DEF StreamTypeOK
  <2> QED BY <2>1 DEF Raise
<1>4. ASSUME NEW raises \in BOOLEAN, NextChunk(i, raises)
      PROVE  floors' = floors \/ floors' = [floors EXCEPT ![i] = [y \in Queries |-> Raise(Relayed, @[y])]]
  BY <1>4 DEF NextChunk
<1>5. ASSUME NEW y \in Queries, NEW raises \in BOOLEAN, Sink(i, y, raises)
      PROVE  floors' = floors \/ floors' = [floors EXCEPT ![i][y] = Raise(KthBest(y)', @)]
  BY <1>5 DEF Sink
<1>6. End(i) \/ Stop(i) \/ ChunkDone(i) => floors' = floors
  BY DEF End, Stop, ChunkDone
<1> QED BY <1>1, <1>2, <1>3, <1>4, <1>5, <1>6 DEF StreamStep

(* No relay, early, late or repeated, lowers a floor                       *)
(* (StreamControl::RaiseFloor).                                            *)
THEOREM StreamsFloorsRise == StreamSpec => FloorsRise
<1>1. StreamInv /\ StreamInv' /\ [StreamNext]_streamVars =>
        [\A i \in Index, x \in Queries : floors'[i][x] >= floors[i][x]]_streamVars
  <2> SUFFICES ASSUME StreamInv, StreamInv', StreamNext, NEW j \in Index, NEW x \in Queries
               PROVE  floors'[j][x] >= floors[j][x]
    OBVIOUS
  <2>1. floors'[j][x] = floors[j][x] \/ floors'[j][x] > floors[j][x]
    BY FloorMoves DEF StreamInv, StreamNext
  <2>2. floors[j][x] \in Int /\ floors'[j][x] \in Int
    BY DEF StreamInv, StreamTypeOK
  <2> QED BY <2>1, <2>2
<1> QED BY <1>1, StreamInvariance, PTL DEF StreamSpec, FloorsRise

-----------------------------------------------------------------------------
(* Forks.                                                                  *)

(* The generation only grows in a process, and the published pool is of an *)
(* earlier or the present generation and process.                          *)
Generations ==
  /\ born <= generation
  /\ ptr # NoCell => ptr.gen <= generation /\ ptr.owner <= self

(* What a pool another process made can be told by: it is older than this  *)
(* process, or made under another pid (PoolCell::generation, ::pid).       *)
ForeignIsSeen ==
  ptr # NoCell /\ ptr.owner # self => ptr.gen < born \/ ptr.pid # pid

Loaded == {"pointer", "build", "look", "swap", "publish", "installed"}

WithCell == {"look", "swap", "publish", "installed"}

(* A thread's own generation is one this process has had, and the cell it  *)
(* goes on with is one this process made.                                  *)
OwnCells ==
  \A t \in Thread :
    /\ at[t] \in Loaded => born <= gen[t] /\ gen[t] <= generation
    /\ at[t] \in WithCell => /\ cell[t] # NoCell /\ cell[t].owner = self
                             /\ cell[t].gen <= generation

(* A pool about to be published has the inherited size too.                *)
SizeHanded ==
  inherited # NoCell =>
    \A t \in Thread : at[t] \in {"look", "swap"} => cell[t].threads = inherited.threads

PInv == /\ TypeOK /\ Generations /\ ForeignIsSeen /\ OwnCells
        /\ ThreadsKept /\ SizeHanded /\ JobsCounted

LEMMA PInvSuffices == PInv => PoolSurvivesForks
  BY DEF PInv, OwnCells, WithCell, PoolSurvivesForks, PoolIsAlive

LEMMA CellType ==
  ASSUME NEW c \in Cell \cup {NoCell}, c # NoCell
  PROVE  c.gen \in Nat /\ c.pid \in Pid /\ c.threads \in Nat /\ c.owner \in Nat
  BY DEF Cell

(* A pool that passes for the current one is this process's own.           *)
LEMMA CurrentIsOwn ==
  ASSUME PInv, NEW t \in Thread, at[t] \in Loaded, Current(t, ptr)
  PROVE  ptr # NoCell /\ ptr.owner = self /\ ptr.gen <= generation
<1>1. /\ ptr # NoCell /\ ptr.gen = gen[t] /\ ptr.pid = pid
      /\ born <= gen[t] /\ gen[t] <= generation
  BY DEF PInv, Current, OwnCells
<1>2. born \in Nat /\ gen[t] \in Nat
  BY DEF PInv, TypeOK
<1> QED
  BY <1>1, <1>2 DEF PInv, ForeignIsSeen

LEMMA JobsFinite == IsFiniteSet(Jobs) /\ Cardinality(Jobs) \in Nat
  BY ForkAssumption, FS_Subset, FS_CardinalityType DEF Jobs

LEMMA InitPInv == Init => PInv
<1> SUFFICES ASSUME Init PROVE PInv
  OBVIOUS
<1>1. ptr # NoCell => /\ ptr \in Cell /\ ptr.gen = 0 /\ ptr.owner = 0
  BY ForkAssumption DEF Init, init_rayon_pool, desired_threads, Cell
<1>2. TypeOK
  BY <1>1 DEF Init, init_rayon_pool, TypeOK, Places, Unbuilt
<1>3. Generations /\ ForeignIsSeen /\ OwnCells /\ ThreadsKept /\ SizeHanded
  BY <1>1 DEF Init, Generations, ForeignIsSeen, OwnCells, Loaded, WithCell,
     ThreadsKept, SizeHanded
<1>4. JobsCounted
  <2>1. Jobs = {} /\ Cardinality({}) = 0
    BY FS_EmptySet DEF Init, Jobs
  <2> QED
    BY <2>1 DEF Init, JobsCounted
<1> QED
  BY <1>2, <1>3, <1>4 DEF PInv

-----------------------------------------------------------------------------
(* The steps of a thread. *)

(* A step that moves one thread changes the jobs by at most that one.      *)
LEMMA OneJob ==
  ASSUME TypeOK, JobsCounted, self' = self, NEW t \in Thread, NEW l,
         at' = [at EXCEPT ![t] = l],
         \/ /\ at[t] \in {"gone", "python", "inline"} <=> l \in {"gone", "python", "inline"}
            /\ in_flight' = in_flight
         \/ /\ at[t] \in {"gone", "python", "inline"} /\ l \notin {"gone", "python", "inline"}
            /\ in_flight' = in_flight + 1
         \/ /\ at[t] \notin {"gone", "python", "inline"} /\ l \in {"gone", "python", "inline"}
            /\ in_flight' = in_flight - 1
  PROVE  JobsCounted'
<1> DEFINE Out == {"gone", "python", "inline"}
<1>1. Jobs' = IF l \in Out THEN Jobs \ {t} ELSE Jobs \cup {t}
  BY DEF TypeOK, Jobs
<1>2. (t \in Jobs) <=> at[t] \notin Out
  BY DEF Jobs
<1> HIDE DEF Out
<1>3. CASE (at[t] \in Out <=> l \in Out) /\ in_flight' = in_flight
  BY <1>1, <1>2, <1>3 DEF JobsCounted
<1>4. CASE at[t] \in Out /\ l \notin Out /\ in_flight' = in_flight + 1
  <2>1. Cardinality(Jobs') = Cardinality(Jobs) + 1
    BY <1>1, <1>2, <1>4, JobsFinite, FS_AddElement
  <2> QED
    BY <1>4, <2>1, JobsFinite DEF JobsCounted, TypeOK
<1>5. CASE at[t] \notin Out /\ l \in Out /\ in_flight' = in_flight - 1
  <2>1. Cardinality(Jobs') = Cardinality(Jobs) - 1
    BY <1>1, <1>2, <1>5, JobsFinite, FS_RemoveElement
  <2> QED
    BY <1>5, <2>1, JobsFinite DEF JobsCounted, TypeOK
<1> QED
  BY <1>3, <1>4, <1>5 DEF Out

(* A step that leaves the pool, the process and the generation alone keeps *)
(* what is known of the other threads' cells.                              *)
LEMMA OthersKeep ==
  ASSUME PInv, NEW t \in Thread, TypeOK',
         UNCHANGED <<self, pid, born, inherited, generation, ptr>>,
         \A u \in Thread \ {t} : at'[u] = at[u] /\ gen'[u] = gen[u] /\ cell'[u] = cell[u],
         at'[t] \in Loaded => born <= gen'[t] /\ gen'[t] <= generation,
         at'[t] \in WithCell => /\ cell'[t] # NoCell /\ cell'[t].owner = self
                                /\ cell'[t].gen <= generation,
         inherited # NoCell /\ at'[t] \in {"look", "swap"}
            => cell'[t].threads = inherited.threads
  PROVE  (Generations /\ ForeignIsSeen /\ OwnCells /\ ThreadsKept /\ SizeHanded)'
<1>1. (Generations /\ ForeignIsSeen /\ ThreadsKept)'
  BY DEF PInv, Generations, ForeignIsSeen, ThreadsKept
<1>2. OwnCells'
  BY DEF PInv, OwnCells
<1>3. SizeHanded'
  BY DEF PInv, SizeHanded
<1> QED
  BY <1>1, <1>2, <1>3
LEMMA StepPInv ==
  ASSUME PInv, NEW t \in Thread, Step(t)
  PROVE  PInv'
<1> USE DEF process, statics, Go
<1>0. TypeOK /\ JobsCounted
  BY DEF PInv
<1>1. CASE Inline(t) \/ StartThread(t)
  <2>1. TypeOK'
    BY <1>0, <1>1 DEF Inline, StartThread, TypeOK, Places
  <2>2. (Generations /\ ForeignIsSeen /\ OwnCells /\ ThreadsKept /\ SizeHanded)'
    BY <1>0, <1>1, <2>1, OthersKeep DEF Inline, StartThread, Loaded, WithCell, TypeOK
  <2>3. JobsCounted'
    BY <1>0, <1>1, OneJob DEF Inline, StartThread
  <2> QED
    BY <2>1, <2>2, <2>3 DEF PInv
<1>2. CASE with_pool(t)
  <2>1. TypeOK'
    BY <1>0, <1>2 DEF with_pool, TypeOK, Places
  <2>2. (Generations /\ ForeignIsSeen /\ OwnCells /\ ThreadsKept /\ SizeHanded)'
    BY <1>0, <1>2, <2>1, OthersKeep DEF with_pool, Loaded, WithCell, TypeOK
  <2>3. JobsCounted'
    BY <1>0, <1>2, OneJob DEF with_pool
  <2> QED
    BY <2>1, <2>2, <2>3 DEF PInv
<1>3. CASE LoadGeneration(t)
  <2>1. TypeOK'
    BY <1>0, <1>3 DEF LoadGeneration, TypeOK, Places
  <2>2. born <= generation /\ generation <= generation
    BY <1>0 DEF PInv, Generations, TypeOK
  <2>3. (Generations /\ ForeignIsSeen /\ OwnCells /\ ThreadsKept /\ SizeHanded)'
    BY <1>0, <1>3, <2>1, <2>2, OthersKeep DEF LoadGeneration, Loaded, WithCell, TypeOK
  <2>4. JobsCounted'
    BY <1>0, <1>3, OneJob DEF LoadGeneration
  <2> QED
    BY <2>1, <2>3, <2>4 DEF PInv
<1>4. CASE LoadPointer(t)
  <2>1. TypeOK'
    BY <1>0, <1>4 DEF LoadPointer, TypeOK, Places
  <2>2. /\ at[t] = "pointer" /\ at[t] \in Loaded
        /\ born <= gen[t] /\ gen[t] <= generation
    BY <1>4 DEF LoadPointer, PInv, OwnCells, Loaded
  <2>3. CASE Current(t, ptr)
    <3>1. ptr # NoCell /\ ptr.owner = self /\ ptr.gen <= generation
      BY <2>2, <2>3, CurrentIsOwn
    <3>2. cell'[t] = ptr /\ at' = [at EXCEPT ![t] = "installed"] /\ at'[t] = "installed"
      BY <1>0, <1>4, <2>3 DEF LoadPointer, TypeOK
    <3>3. (Generations /\ ForeignIsSeen /\ OwnCells /\ ThreadsKept /\ SizeHanded)'
      BY <1>0, <1>4, <2>1, <2>2, <3>1, <3>2, OthersKeep DEF LoadPointer, TypeOK
    <3>4. JobsCounted'
      BY <1>0, <1>4, <2>2, <3>2, OneJob DEF LoadPointer
    <3> QED
      BY <2>1, <3>3, <3>4 DEF PInv
  <2>4. CASE ~Current(t, ptr)
    <3>1. cell' = cell /\ at' = [at EXCEPT ![t] = "build"] /\ at'[t] = "build"
      BY <1>0, <1>4, <2>4 DEF LoadPointer, TypeOK
    <3>2. (Generations /\ ForeignIsSeen /\ OwnCells /\ ThreadsKept /\ SizeHanded)'
      BY <1>0, <1>4, <2>1, <2>2, <3>1, OthersKeep DEF LoadPointer, WithCell, TypeOK
    <3>3. JobsCounted'
      BY <1>0, <1>4, <2>2, <3>1, OneJob DEF LoadPointer
    <3> QED
      BY <2>1, <3>2, <3>3 DEF PInv
  <2> QED
    BY <2>3, <2>4
<1>5. CASE Build(t)
  <2>1. /\ at[t] = "build" /\ at' = [at EXCEPT ![t] = "look"]
        /\ born <= gen[t] /\ gen[t] <= generation
        /\ UNCHANGED <<self, pid, born, inherited, generation, published, ptr, in_flight,
                       hook, gen, cur>>
    BY <1>5 DEF Build, PInv, OwnCells, Loaded
  <2>2. PICK n \in Threads :
          cell' = [cell EXCEPT ![t] = [gen |-> gen[t], pid |-> pid,
                                       threads |-> n, owner |-> self]]
    BY <1>5 DEF Build
  <2>3. n \in Nat /\ (inherited # NoCell => n = inherited.threads)
    <3>1. CASE ptr = NoCell
      BY <2>2, <3>1, ForkAssumption DEF Threads, desired_threads, PInv, ThreadsKept
    <3>2. CASE ptr # NoCell
      <4>1. n = ptr.threads /\ ptr \in Cell \cup {NoCell}
        BY <1>0, <2>2, <3>2 DEF Threads, TypeOK
      <4> QED
        BY <3>2, <4>1, CellType DEF PInv, ThreadsKept
    <3> QED
      BY <3>1, <3>2
  <2> DEFINE c == [gen |-> gen[t], pid |-> pid, threads |-> n, owner |-> self]
  <2>4. c \in Cell /\ c # NoCell
    BY <1>0, <2>3, CellAssumption DEF Cell, TypeOK
  <2>5. c.owner = self /\ c.gen = gen[t] /\ c.threads = n
    OBVIOUS
  <2>6. cell' = [cell EXCEPT ![t] = c]
    BY <2>2
  <2> HIDE DEF c
  <2>7. TypeOK'
    BY <1>0, <2>1, <2>4, <2>6 DEF TypeOK, Places
  <2>8. at'[t] = "look" /\ cell'[t] = c
    BY <1>0, <2>1, <2>6 DEF TypeOK
  <2>9. (Generations /\ ForeignIsSeen /\ OwnCells /\ ThreadsKept /\ SizeHanded)'
    <3>1. \A u \in Thread \ {t} : at'[u] = at[u] /\ gen'[u] = gen[u] /\ cell'[u] = cell[u]
      BY <1>0, <2>1, <2>6 DEF TypeOK
    <3>2. gen'[t] = gen[t]
      BY <2>1
    <3> QED
      BY <2>1, <2>3, <2>4, <2>5, <2>7, <2>8, <3>1, <3>2, OthersKeep
  <2>10. JobsCounted'
    BY <1>0, <2>1, OneJob
  <2> QED
    BY <2>7, <2>9, <2>10 DEF PInv
<1>6. CASE BuildFails(t)
  <2>1. TypeOK'
    BY <1>0, <1>6 DEF BuildFails, TypeOK, Places
  <2>2. (Generations /\ ForeignIsSeen /\ OwnCells /\ ThreadsKept /\ SizeHanded)'
    BY <1>0, <1>6, <2>1, OthersKeep DEF BuildFails, Loaded, WithCell, TypeOK
  <2>3. JobsCounted'
    BY <1>0, <1>6, OneJob DEF BuildFails
  <2> QED
    BY <2>1, <2>2, <2>3 DEF PInv
<1>7. CASE Look(t)
  <2>1. TypeOK'
    BY <1>0, <1>7 DEF Look, TypeOK, Places
  <2>2. /\ at[t] = "look" /\ at[t] \in Loaded /\ gen' = gen
        /\ born <= gen[t] /\ gen[t] <= generation
        /\ cell[t] # NoCell /\ cell[t].owner = self /\ cell[t].gen <= generation
        /\ inherited # NoCell => cell[t].threads = inherited.threads
    BY <1>7 DEF Look, PInv, OwnCells, SizeHanded, Loaded, WithCell
  <2>3. CASE Current(t, ptr)
    <3>1. ptr # NoCell /\ ptr.owner = self /\ ptr.gen <= generation
      BY <2>2, <2>3, CurrentIsOwn
    <3>2. cell'[t] = ptr /\ at' = [at EXCEPT ![t] = "installed"] /\ at'[t] = "installed"
      BY <1>0, <1>7, <2>3 DEF Look, TypeOK
    <3>3. (Generations /\ ForeignIsSeen /\ OwnCells /\ ThreadsKept /\ SizeHanded)'
      BY <1>0, <1>7, <2>1, <2>2, <3>1, <3>2, OthersKeep DEF Look, TypeOK
    <3>4. JobsCounted'
      BY <1>0, <1>7, <2>2, <3>2, OneJob DEF Look
    <3> QED
      BY <2>1, <3>3, <3>4 DEF PInv
  <2>4. CASE ~Current(t, ptr)
    <3>1. cell' = cell /\ at' = [at EXCEPT ![t] = "swap"] /\ at'[t] = "swap"
      BY <1>0, <1>7, <2>4 DEF Look, TypeOK
    <3>2. (Generations /\ ForeignIsSeen /\ OwnCells /\ ThreadsKept /\ SizeHanded)'
      BY <1>0, <1>7, <2>1, <2>2, <3>1, OthersKeep DEF Look, TypeOK
    <3>3. JobsCounted'
      BY <1>0, <1>7, <2>2, <3>1, OneJob DEF Look
    <3> QED
      BY <2>1, <3>2, <3>3 DEF PInv
  <2> QED
    BY <2>3, <2>4<1>8. CASE CompareExchange(t)
  <2>1. TypeOK'
    BY <1>0, <1>8 DEF CompareExchange, TypeOK, Places
  <2>2. /\ at[t] = "swap" /\ UNCHANGED <<gen, cell>>
        /\ born <= gen[t] /\ gen[t] <= generation
        /\ cell[t] # NoCell /\ cell[t].owner = self /\ cell[t].gen <= generation
        /\ inherited # NoCell => cell[t].threads = inherited.threads
    BY <1>8 DEF CompareExchange, PInv, OwnCells, SizeHanded, Loaded, WithCell
  <2>3. CASE ptr = cur[t]
    <3>1. ptr' = cell[t] /\ at' = [at EXCEPT ![t] = "publish"] /\ at'[t] = "publish"
      BY <1>0, <1>8, <2>3 DEF CompareExchange, TypeOK
    <3>2. Generations' /\ ForeignIsSeen' /\ ThreadsKept'
      BY <1>0, <1>8, <2>2, <3>1 DEF CompareExchange, PInv, Generations, ForeignIsSeen,
         ThreadsKept, TypeOK
    <3>3. OwnCells'
      BY <1>0, <1>8, <2>2, <3>1 DEF CompareExchange, PInv, OwnCells, Loaded, WithCell, TypeOK
    <3>4. SizeHanded'
      BY <1>0, <1>8, <2>2, <3>1 DEF CompareExchange, PInv, SizeHanded, TypeOK
    <3>5. JobsCounted'
      BY <1>0, <1>8, <2>2, <3>1, OneJob DEF CompareExchange
    <3> QED
      BY <2>1, <3>2, <3>3, <3>4, <3>5 DEF PInv
  <2>4. CASE ptr # cur[t]
    <3>1. ptr' = ptr /\ at' = [at EXCEPT ![t] = "look"] /\ at'[t] = "look"
      BY <1>0, <1>8, <2>4 DEF CompareExchange, TypeOK
    <3>2. (Generations /\ ForeignIsSeen /\ OwnCells /\ ThreadsKept /\ SizeHanded)'
      BY <1>0, <1>8, <2>1, <2>2, <3>1, OthersKeep DEF CompareExchange, TypeOK
    <3>3. JobsCounted'
      BY <1>0, <1>8, <2>2, <3>1, OneJob DEF CompareExchange
    <3> QED
      BY <2>1, <3>2, <3>3 DEF PInv
  <2> QED
    BY <2>3, <2>4
<1>9. CASE Publish(t)
  <2>1. TypeOK'
    BY <1>0, <1>9 DEF Publish, TypeOK, Places
  <2>2. /\ at[t] = "publish" /\ born <= gen[t] /\ gen[t] <= generation
        /\ cell[t] # NoCell /\ cell[t].owner = self /\ cell[t].gen <= generation
    BY <1>9 DEF Publish, PInv, OwnCells, Loaded, WithCell
  <2>3. (Generations /\ ForeignIsSeen /\ OwnCells /\ ThreadsKept /\ SizeHanded)'
    BY <1>0, <1>9, <2>1, <2>2, OthersKeep DEF Publish, TypeOK
  <2>4. JobsCounted'
    BY <1>0, <1>9, <2>2, OneJob DEF Publish
  <2> QED
    BY <2>1, <2>3, <2>4 DEF PInv
<1>10. CASE Finish(t)
  <2>1. TypeOK'
    BY <1>0, <1>10 DEF Finish, TypeOK, Places
  <2>2. (Generations /\ ForeignIsSeen /\ OwnCells /\ ThreadsKept /\ SizeHanded)'
    BY <1>0, <1>10, <2>1, OthersKeep DEF Finish, Loaded, WithCell, TypeOK
  <2>3. JobsCounted'
    BY <1>0, <1>10, OneJob DEF Finish
  <2> QED
    BY <2>1, <2>2, <2>3 DEF PInv
<1>11. CASE _note_fork_in_child(t)
  <2>1. /\ generation' = generation + 1 /\ hook' = {}
        /\ UNCHANGED <<self, pid, born, inherited, published, ptr, in_flight, at, gen, cell, cur>>
    BY <1>11 DEF _note_fork_in_child
  <2>2. TypeOK'
    BY <1>0, <2>1 DEF TypeOK
  <2>3. ASSUME NEW x \in Nat, x <= generation PROVE x <= generation'
    BY <1>0, <2>1, <2>3 DEF TypeOK
  <2>4. Generations' /\ ForeignIsSeen' /\ ThreadsKept' /\ SizeHanded'
    BY <1>0, <2>1, <2>3, CellType DEF PInv, Generations, ForeignIsSeen, ThreadsKept,
       SizeHanded, TypeOK
  <2>5. OwnCells'
    <3>1. \A u \in Thread : gen[u] \in Nat /\ cell[u] \in Cell \cup {NoCell}
      BY <1>0 DEF TypeOK
    <3> QED
      BY <2>1, <2>3, <3>1, CellType DEF PInv, OwnCells
  <2>6. JobsCounted'
    BY <1>0, <2>1 DEF JobsCounted, Jobs
  <2> QED
    BY <2>2, <2>4, <2>5, <2>6 DEF PInv
<1> QED
  BY <1>1, <1>2, <1>3, <1>4, <1>5, <1>6, <1>7, <1>8, <1>9, <1>10, <1>11 DEF Step

-----------------------------------------------------------------------------
(* The forks. *)

(* No thread of the child is in a call, so nothing but the pool it found   *)
(* and the count remain of the parent's.                                   *)
LEMMA ChildPInv ==
  ASSUME PInv, NEW t \in Thread, NEW n \in Pid, Child(t, n), hook' \in SUBSET Thread,
         generation' \in Nat, born' = generation', generation <= generation',
         ptr # NoCell => ptr.gen < born' \/ ptr.pid # n
  PROVE  PInv'
<1>1. /\ self' = self + 1 /\ pid' = n /\ inherited' = ptr
      /\ at' = [u \in Thread |-> IF u = t THEN "python" ELSE "gone"]
      /\ gen' = [u \in Thread |-> 0]
      /\ cell' = [u \in Thread |-> NoCell] /\ cur' = [u \in Thread |-> NoCell]
      /\ UNCHANGED <<published, ptr, in_flight>>
  BY DEF Child
<1>2. TypeOK
  BY DEF PInv
<1>3. TypeOK'
  BY <1>1, <1>2 DEF TypeOK, Places
<1>4. Generations'
  BY <1>1, <1>2, CellType DEF PInv, Generations, TypeOK
<1>5. ForeignIsSeen'
  BY <1>1 DEF ForeignIsSeen
<1>6. OwnCells' /\ SizeHanded'
  BY <1>1 DEF OwnCells, SizeHanded, Loaded, WithCell
<1>7. ThreadsKept'
  BY <1>1 DEF ThreadsKept
<1>8. JobsCounted'
  <2>1. Jobs' = {} /\ Cardinality({}) = 0
    BY <1>1, FS_EmptySet DEF Jobs
  <2>2. in_flight \in Int /\ in_flight >= 0 /\ self' # 0
    BY <1>1, <1>2, JobsFinite DEF PInv, JobsCounted, TypeOK
  <2> QED
    BY <1>1, <2>1, <2>2 DEF JobsCounted
<1> QED
  BY <1>3, <1>4, <1>5, <1>6, <1>7, <1>8 DEF PInv

LEMMA NextPInv == PInv /\ [Next]_vars => PInv'
<1> SUFFICES ASSUME PInv, [Next]_vars PROVE PInv'
  OBVIOUS
<1>1. generation \in Nat /\ (ptr # NoCell => ptr.gen \in Nat)
  BY CellType DEF PInv, TypeOK
<1>2. ASSUME NEW t \in Thread, NEW n \in Pid, Fork(t, n) PROVE PInv'
  <2>1. Child(t, n) /\ generation' = generation + 1 /\ born' = generation + 1
        /\ hook' \in SUBSET Thread
    BY <1>2 DEF Fork, Bumped
  <2>2. ptr # NoCell => ptr.gen < generation + 1
    BY <1>1 DEF PInv, Generations
  <2> QED
    BY <1>1, <2>1, <2>2, ChildPInv
<1>3. ASSUME NEW t \in Thread, NEW n \in Pid, UnseenFork(t, n) PROVE PInv'
  <2>1. Child(t, n) /\ generation' = generation /\ born' = generation /\ hook' = {}
        /\ (ptr # NoCell => ptr.pid # n)
    BY <1>3 DEF UnseenFork
  <2> QED
    BY <1>1, <2>1, ChildPInv
<1>4. CASE UNCHANGED vars
  BY <1>4 DEF vars, process, statics, PInv, TypeOK, Generations, ForeignIsSeen, OwnCells,
     ThreadsKept, SizeHanded, JobsCounted, Jobs
<1> QED
  BY <1>2, <1>3, <1>4, StepPInv DEF Next

(* PInv holds in every reachable state.                                    *)
THEOREM ForkPoolInvariance == Spec => []PInv
  BY InitPInv, NextPInv, PTL DEF Spec

(* No job goes to a pool whose workers died with the fork, a child's pools *)
(* have the inherited size, and POOL_IN_FLIGHT never wraps (current_pool,  *)
(* rebuild_pool, PoolGuard).                                               *)
THEOREM PoolSurvives == Spec => []PoolSurvivesForks
  BY ForkPoolInvariance, PInvSuffices, PTL
=============================================================================
