------------------------- MODULE IndexCaches_proofs -------------------------
(***************************************************************************)
(* For any vectors, batches, dimensions, block and thresholds: every       *)
(* representation an index keeps of its rows, and every capture, is of the *)
(* rows it has.                                                            *)
(***************************************************************************)
EXTENDS IndexCaches, SequenceTheorems, TLAPS

-----------------------------------------------------------------------------
(* Blocks. *)

LEMMA DivBounds ==
  ASSUME NEW a \in Nat, NEW b \in Nat \ {0}
  PROVE  /\ a \div b \in Nat
         /\ (a \div b) * b \in Nat
         /\ (a \div b) * b <= a /\ a < (a \div b) * b + b
  OBVIOUS

(* Blocks(m) is the least number of blocks that m rows fit in.             *)
LEMMA BlocksBounds ==
  ASSUME NEW m \in Nat
  PROVE  /\ Blocks(m) \in Nat /\ Blocks(m) * BlockRows \in Nat
         /\ m <= Blocks(m) * BlockRows /\ Blocks(m) * BlockRows < m + BlockRows
<1>1. BlockRows \in Nat \ {0}
  BY CachesAssumption
<1>2. m + BlockRows - 1 \in Nat
  BY <1>1
<1> QED
  BY <1>1, <1>2, DivBounds DEF Blocks

LEMMA LeastMultiple ==
  ASSUME NEW a \in Nat, NEW b \in Nat, NEW m \in Nat, NEW k \in Nat \ {0},
         m <= a * k, a * k < m + k, m <= b * k, b * k < m + k
  PROVE  a = b
<1>1. (a - b) * k = a * k - b * k
  OBVIOUS
<1>2. (a - b) * k < k /\ -k < (a - b) * k
  BY <1>1
<1>3. ASSUME a - b >= 1 PROVE FALSE
  BY <1>2, <1>3
<1>4. ASSUME a - b <= -1 PROVE FALSE
  BY <1>2, <1>4
<1> QED
  BY <1>3, <1>4

(* Whole blocks first, and then the blocks of the rest.                    *)
LEMMA BlocksFrom ==
  ASSUME NEW m \in Nat, NEW j \in Nat, j * BlockRows <= m
  PROVE  /\ j * BlockRows \in Nat
         /\ Blocks(m - j * BlockRows) * BlockRows + j * BlockRows = Blocks(m) * BlockRows
<1> DEFINE r == m - j * BlockRows
<1>1. BlockRows \in Nat \ {0} /\ j * BlockRows \in Nat /\ r \in Nat
  BY CachesAssumption
<1>2. /\ Blocks(r) \in Nat /\ r <= Blocks(r) * BlockRows /\ Blocks(r) * BlockRows < r + BlockRows
      /\ Blocks(m) \in Nat /\ m <= Blocks(m) * BlockRows /\ Blocks(m) * BlockRows < m + BlockRows
  BY <1>1, BlocksBounds
<1>3. (Blocks(r) + j) * BlockRows = Blocks(r) * BlockRows + j * BlockRows
  BY <1>1, <1>2
<1>4. Blocks(r) + j = Blocks(m)
  <2> DEFINE a == Blocks(r) + j
  <2>1. a \in Nat /\ m <= a * BlockRows /\ a * BlockRows < m + BlockRows
    BY <1>1, <1>2, <1>3
  <2> HIDE DEF a
  <2> QED
    BY <1>1, <1>2, <2>1, LeastMultiple DEF a
<1> QED
  BY <1>1, <1>3, <1>4

-----------------------------------------------------------------------------
(* Sequences. *)

LEMMA FirstOf ==
  ASSUME NEW S, NEW s \in Seq(S), NEW m \in 0 .. Len(s)
  PROVE  /\ First(s, m) \in Seq(S) /\ Len(First(s, m)) = m
         /\ \A i \in 1 .. m : First(s, m)[i] = s[i]
<1>1. m \in Nat /\ \A i \in 1 .. m : s[i] \in S
  OBVIOUS
<1>2. /\ First(s, m) \in Seq(S)
      /\ Len(First(s, m)) = IF 1 <= m THEN m - 1 + 1 ELSE 0
      /\ \A i \in 1 .. m - 1 + 1 : First(s, m)[i] = s[1 + i - 1]
  BY <1>1, SubSeqProperties DEF First
<1>3. \A i \in 1 .. m : i \in 1 .. m - 1 + 1 /\ 1 + i - 1 = i
  BY <1>1
<1> QED
  BY <1>1, <1>2, <1>3

LEMMA RestOf ==
  ASSUME NEW S, NEW s \in Seq(S), NEW k \in 0 .. Len(s)
  PROVE  LET t == SubSeq(s, k + 1, Len(s))
         IN /\ t \in Seq(S) /\ Len(t) = Len(s) - k
            /\ \A i \in 1 .. Len(s) - k : t[i] = s[k + i]
<1> DEFINE t == SubSeq(s, k + 1, Len(s))
           l == Len(s)
<1>1. k \in Nat /\ l \in Nat /\ k <= l /\ \A i \in k + 1 .. l : s[i] \in S
  OBVIOUS
<1>2. /\ t \in Seq(S)
      /\ Len(t) = IF k + 1 <= l THEN l - (k + 1) + 1 ELSE 0
      /\ \A i \in 1 .. l - (k + 1) + 1 : t[i] = s[k + 1 + i - 1]
  BY <1>1, SubSeqProperties
<1> HIDE DEF t, l
<1>3. Len(t) = l - k /\ \A i \in 1 .. l - k : i \in 1 .. l - (k + 1) + 1 /\ k + 1 + i - 1 = k + i
  BY <1>1, <1>2
<1>4. \A i \in 1 .. l - k : t[i] = s[k + i]
  BY <1>2, <1>3
<1> QED
  BY <1>2, <1>3, <1>4 DEF t, l

Padded(S) == S \cup {Zero}

LEMMA PadOf ==
  ASSUME NEW S, NEW s \in Seq(S)
  PROVE  /\ Pad(s) \in Seq(Padded(S)) /\ Len(Pad(s)) = Blocks(Len(s)) * BlockRows
         /\ Len(s) <= Len(Pad(s))
         /\ \A i \in 1 .. Len(s) : Pad(s)[i] = s[i]
         /\ \A i \in 1 .. Len(Pad(s)) : i > Len(s) => Pad(s)[i] = Zero
<1> DEFINE p == Blocks(Len(s)) * BlockRows - Len(s)
           z == [i \in 1 .. p |-> Zero]
<1>1. Len(s) \in Nat /\ p \in Nat /\ Blocks(Len(s)) * BlockRows \in Nat
  <2>1. Len(s) \in Nat
    OBVIOUS
  <2>2. Blocks(Len(s)) * BlockRows \in Nat /\ Len(s) <= Blocks(Len(s)) * BlockRows
    BY <2>1, BlocksBounds
  <2> QED
    BY <2>1, <2>2
<1>2. z \in Seq(Padded(S)) /\ Len(z) = p /\ \A i \in 1 .. p : z[i] = Zero
  BY <1>1 DEF Padded
<1>3. s \in Seq(Padded(S))
  BY SeqMonotonic DEF Padded
<1>4. Pad(s) = s \o z
  BY DEF Pad
<1> HIDE DEF z
<1>5. /\ s \o z \in Seq(Padded(S)) /\ Len(s \o z) = Len(s) + Len(z)
      /\ \A i \in 1 .. Len(s) + Len(z) :
           (s \o z)[i] = IF i <= Len(s) THEN s[i] ELSE z[i - Len(s)]
  BY <1>2, <1>3, ConcatProperties
<1>6. Len(Pad(s)) = Blocks(Len(s)) * BlockRows /\ Len(s) <= Len(Pad(s))
  BY <1>1, <1>2, <1>4, <1>5
<1>7. \A i \in 1 .. Len(s) : Pad(s)[i] = s[i]
  BY <1>1, <1>2, <1>4, <1>5
<1>8. \A i \in 1 .. Len(Pad(s)) : i > Len(s) => Pad(s)[i] = Zero
  BY <1>1, <1>2, <1>4, <1>5
<1> QED
  BY <1>4, <1>5, <1>6, <1>7, <1>8

(* What tells a padded sequence.                                           *)
LEMMA IsPad ==
  ASSUME NEW S, NEW s \in Seq(S), NEW t \in Seq(Padded(S)),
         Len(t) = Blocks(Len(s)) * BlockRows,
         \A i \in 1 .. Len(s) : t[i] = s[i],
         \A i \in 1 .. Len(t) : i > Len(s) => t[i] = Zero
  PROVE  t = Pad(s)
<1>1. \A i \in 1 .. Len(t) : t[i] = Pad(s)[i]
  <2> SUFFICES ASSUME NEW i \in 1 .. Len(t) PROVE t[i] = Pad(s)[i]
    OBVIOUS
  <2>1. Len(s) \in Nat /\ Len(t) \in Nat /\ Len(t) = Len(Pad(s))
    BY PadOf
  <2>2. CASE i <= Len(s)
    BY <2>1, <2>2, PadOf
  <2>3. CASE i > Len(s)
    BY <2>1, <2>3, PadOf
  <2> QED
    BY <2>1, <2>2, <2>3
<1> QED
  BY <1>1, PadOf, SeqEqual

(* The codes of a sequence of vectors.                                     *)
LEMMA CodesOf ==
  ASSUME NEW vs \in Seq(Vector), calib \in Nat
  PROVE  /\ Codes(vs) \in Seq(RowCode) /\ Len(Codes(vs)) = Len(vs)
         /\ \A i \in 1 .. Len(vs) : Codes(vs)[i] = Code(vs[i])
<1>1. DOMAIN vs = 1 .. Len(vs) /\ \A i \in 1 .. Len(vs) : Code(vs[i]) \in RowCode
  BY DEF Code, RowCode
<1>2. Codes(vs) = [i \in 1 .. Len(vs) |-> Code(vs[i])]
  BY <1>1 DEF Codes
<1> QED
  BY <1>1, <1>2

LEMMA CodesConcat ==
  ASSUME NEW a \in Seq(Vector), NEW b \in Seq(Vector), calib \in Nat
  PROVE  Codes(a \o b) = Codes(a) \o Codes(b)
<1>1. a \o b \in Seq(Vector) /\ Len(a \o b) = Len(a) + Len(b)
  BY ConcatProperties
<1>2. /\ Codes(a) \in Seq(RowCode) /\ Len(Codes(a)) = Len(a)
      /\ Codes(b) \in Seq(RowCode) /\ Len(Codes(b)) = Len(b)
      /\ Codes(a \o b) \in Seq(RowCode) /\ Len(Codes(a \o b)) = Len(a) + Len(b)
  BY <1>1, CodesOf
<1>3. /\ Codes(a) \o Codes(b) \in Seq(RowCode)
      /\ Len(Codes(a) \o Codes(b)) = Len(a) + Len(b)
  BY <1>2, ConcatProperties
<1>4. \A i \in 1 .. Len(a) + Len(b) : Codes(a \o b)[i] = (Codes(a) \o Codes(b))[i]
  <2> SUFFICES ASSUME NEW i \in 1 .. Len(a) + Len(b)
               PROVE  Codes(a \o b)[i] = (Codes(a) \o Codes(b))[i]
    OBVIOUS
  <2>1. Codes(a \o b)[i] = Code((a \o b)[i])
    BY <1>1, CodesOf
  <2>2. Len(a) \in Nat /\ Len(b) \in Nat
    OBVIOUS
  <2>3. CASE i <= Len(a)
    <3>1. i \in 1 .. Len(a)
      BY <2>2, <2>3
    <3>2. (a \o b)[i] = a[i]
      BY <2>2, <2>3, ConcatProperties
    <3>3. (Codes(a) \o Codes(b))[i] = Codes(a)[i]
      BY <2>2, <2>3, <1>2, ConcatProperties
    <3>4. Codes(a)[i] = Code(a[i])
      BY <3>1, CodesOf
    <3> QED
      BY <2>1, <3>2, <3>3, <3>4
  <2>4. CASE i > Len(a)
    <3>1. i - Len(a) \in 1 .. Len(b)
      BY <2>2, <2>4
    <3>2. (a \o b)[i] = b[i - Len(a)]
      BY <2>2, <2>4, ConcatProperties
    <3>3. (Codes(a) \o Codes(b))[i] = Codes(b)[i - Len(a)]
      BY <2>2, <2>4, <1>2, ConcatProperties
    <3> QED
      BY <2>1, <3>1, <3>2, <3>3, CodesOf
  <2>5. i <= Len(a) \/ i > Len(a)
    BY <2>2
  <2> QED
    BY <2>3, <2>4, <2>5
<1> QED
  BY <1>2, <1>3, <1>4, SeqEqual

(* The last element takes the place of the i-th.                           *)
LEMMA MovedOf ==
  ASSUME NEW S, NEW s \in Seq(S), NEW i \in 1 .. Len(s), NEW k \in 1 .. Len(s)
  PROVE  /\ Moved(s, i, k) \in Seq(S) /\ Len(Moved(s, i, k)) = Len(s)
         /\ \A j \in 1 .. Len(s) : Moved(s, i, k)[j] = IF j = i THEN s[k] ELSE s[j]
  BY DEF Moved

LEMMA FilledOf ==
  ASSUME NEW S, NEW s \in Seq(S), NEW i \in 1 .. n, n \in Nat, Len(s) = n
  PROVE  /\ Filled(s, i) \in Seq(S) /\ Len(Filled(s, i)) = n - 1
         /\ \A j \in 1 .. n - 1 : Filled(s, i)[j] = IF j = i THEN s[n] ELSE s[j]
<1> DEFINE t == Moved(s, i, n)
<1>1. n \in 1 .. n /\ s[n] \in S
  OBVIOUS
<1>2. /\ t \in Seq(S) /\ Len(t) = n
      /\ \A j \in 1 .. n : t[j] = IF j = i THEN s[n] ELSE s[j]
  BY <1>1 DEF Moved
<1> HIDE DEF t
<1>3. n - 1 \in 0 .. Len(t)
  BY <1>2
<1>4. /\ First(t, n - 1) \in Seq(S) /\ Len(First(t, n - 1)) = n - 1
      /\ \A j \in 1 .. n - 1 : First(t, n - 1)[j] = t[j]
  BY <1>2, <1>3, FirstOf
<1>5. \A j \in 1 .. n - 1 : j \in 1 .. n
  OBVIOUS
<1> QED
  BY <1>2, <1>4, <1>5 DEF Filled, t

LEMMA CodesFilled ==
  ASSUME NEW vs \in Seq(Vector), NEW i \in 1 .. n, n \in Nat, Len(vs) = n, calib \in Nat
  PROVE  Codes(Filled(vs, i)) = Filled(Codes(vs), i)
<1>1. Codes(vs) \in Seq(RowCode) /\ Len(Codes(vs)) = n
  BY CodesOf
<1>2. /\ Filled(vs, i) \in Seq(Vector) /\ Len(Filled(vs, i)) = n - 1
      /\ \A j \in 1 .. n - 1 : Filled(vs, i)[j] = IF j = i THEN vs[n] ELSE vs[j]
  BY FilledOf
<1>3. /\ Filled(Codes(vs), i) \in Seq(RowCode) /\ Len(Filled(Codes(vs), i)) = n - 1
      /\ \A j \in 1 .. n - 1 :
           Filled(Codes(vs), i)[j] = IF j = i THEN Codes(vs)[n] ELSE Codes(vs)[j]
  BY <1>1, FilledOf
<1>4. /\ Codes(Filled(vs, i)) \in Seq(RowCode) /\ Len(Codes(Filled(vs, i))) = n - 1
      /\ \A j \in 1 .. n - 1 : Codes(Filled(vs, i))[j] = Code(Filled(vs, i)[j])
  BY <1>2, CodesOf
<1>5. \A j \in 1 .. n : Codes(vs)[j] = Code(vs[j])
  BY CodesOf
<1>6. ASSUME NEW j \in 1 .. n - 1
      PROVE  Codes(Filled(vs, i))[j] = Filled(Codes(vs), i)[j]
  <2>1. j \in 1 .. n /\ n \in 1 .. n
    OBVIOUS
  <2> QED
    BY <1>2, <1>3, <1>4, <1>5, <2>1
<1> QED
  BY <1>3, <1>4, <1>6, SeqEqual

-----------------------------------------------------------------------------
(* Layouts. *)

IsLayout(c) ==
  c = [live |-> c.live, data |-> c.data, low |-> c.low, blocks |-> c.blocks,
       stats |-> c.stats, sample |-> c.sample, centre |-> c.centre]

(* A layout of these codes, with no sample and no centre.                  *)
Fresh(c, codes) == IsLayout(c) /\ Holds(c, codes) /\ c.sample = <<>> /\ c.centre = <<>>

(* Written field by field, the rest of a layout stays.                     *)
LEMMA RelaidOf ==
  ASSUME NEW c, IsLayout(c), NEW data, NEW low, NEW m
  PROVE  Relaid(c, data, low, m) =
           [live |-> c.live, data |-> data, low |-> low, blocks |-> Blocks(m),
            stats |-> c.stats, sample |-> c.sample, centre |-> c.centre]
<1> DEFINE b == Blocks(m)
           e == [c EXCEPT !.data = data]
           f == [e EXCEPT !.low = low]
           g == [f EXCEPT !.blocks = b]
<1>1. Relaid(c, data, low, m) = g
  BY DEF Relaid
<1> HIDE DEF b
<1>2. e = [live |-> c.live, data |-> data, low |-> c.low, blocks |-> c.blocks,
           stats |-> c.stats, sample |-> c.sample, centre |-> c.centre]
  BY DEF IsLayout
<1> HIDE DEF e
<1>3. f = [live |-> c.live, data |-> data, low |-> low, blocks |-> c.blocks,
           stats |-> c.stats, sample |-> c.sample, centre |-> c.centre]
  BY <1>2
<1> HIDE DEF f
<1>4. g = [live |-> c.live, data |-> data, low |-> low, blocks |-> b,
           stats |-> c.stats, sample |-> c.sample, centre |-> c.centre]
  BY <1>3
<1> QED
  BY <1>1, <1>4 DEF b

LEMMA TouchedOf ==
  ASSUME NEW c, IsLayout(c)
  PROVE  Touched(c) = [live |-> c.live, data |-> c.data, low |-> c.low,
                       blocks |-> c.blocks, stats |-> c.stats,
                       sample |-> <<>>, centre |-> <<>>]
<1> DEFINE z == <<>>
           a == [c EXCEPT !.sample = z]
           t == [a EXCEPT !.centre = z]
<1>1. Touched(c) = t
  BY DEF Touched
<1> HIDE DEF z
<1>2. a = [live |-> c.live, data |-> c.data, low |-> c.low, blocks |-> c.blocks,
           stats |-> c.stats, sample |-> z, centre |-> c.centre]
  BY DEF IsLayout
<1> HIDE DEF a
<1>3. t = [live |-> c.live, data |-> c.data, low |-> c.low, blocks |-> c.blocks,
           stats |-> c.stats, sample |-> z, centre |-> z]
  BY <1>2
<1> QED
  BY <1>1, <1>3 DEF z

LEMMA BuiltOf ==
  Built = [live |-> TRUE, data |-> <<>>, low |-> <<>>, blocks |-> 0,
           stats |-> <<>>, sample |-> <<>>, centre |-> <<>>]
<1> DEFINE z == <<>>
           y == TRUE
<1>1. NoLayout = [live |-> FALSE, data |-> z, low |-> z, blocks |-> 0,
                  stats |-> z, sample |-> z, centre |-> z]
  BY DEF NoLayout
<1>2. Built = [NoLayout EXCEPT !.live = y]
  BY DEF Built
<1> HIDE DEF z, y
<1>3. Built = [live |-> y, data |-> z, low |-> z, blocks |-> 0,
               stats |-> z, sample |-> z, centre |-> z]
  BY <1>1, <1>2
<1> QED
  BY <1>3 DEF z, y

LEMMA FillingOf ==
  ASSUME NEW c, IsLayout(c), NEW stats, NEW sample, NEW centre
  PROVE  Filling(c, stats, sample, centre) =
           [live |-> c.live, data |-> c.data, low |-> c.low, blocks |-> c.blocks,
            stats |-> stats, sample |-> sample, centre |-> centre]
<1> DEFINE e == [c EXCEPT !.stats = stats]
           f == [e EXCEPT !.sample = sample]
           g == [f EXCEPT !.centre = centre]
<1>1. Filling(c, stats, sample, centre) = g
  BY DEF Filling
<1>2. e = [live |-> c.live, data |-> c.data, low |-> c.low, blocks |-> c.blocks,
           stats |-> stats, sample |-> c.sample, centre |-> c.centre]
  BY DEF IsLayout
<1> HIDE DEF e
<1>3. f = [live |-> c.live, data |-> c.data, low |-> c.low, blocks |-> c.blocks,
           stats |-> stats, sample |-> sample, centre |-> c.centre]
  BY <1>2
<1> HIDE DEF f
<1> QED
  BY <1>1, <1>3

(* The rows a layout is made for, in either form.                          *)
LEMMA RelaidIsFresh ==
  ASSUME NEW codes, NEW c, IsLayout(c), c.live = TRUE, c.sample = <<>>, c.centre = <<>>,
         NEW data, data = Pad(codes), NEW low, low \in {<<>>, codes}
  PROVE  Fresh(Relaid(c, data, low, Len(codes)), codes)
<1> DEFINE r == Relaid(c, data, low, Len(codes))
<1>1. r = [live |-> c.live, data |-> data, low |-> low, blocks |-> Blocks(Len(codes)),
           stats |-> c.stats, sample |-> c.sample, centre |-> c.centre]
  BY RelaidOf
<1> HIDE DEF r
<1>2. IsLayout(r)
  BY <1>1 DEF IsLayout
<1>3. Holds(r, codes)
  BY <1>1 DEF Holds
<1>4. r.sample = <<>> /\ r.centre = <<>>
  BY <1>1
<1> QED
  BY <1>2, <1>3, <1>4 DEF Fresh, r

LEMMA BuildIsFresh ==
  ASSUME NEW codes
  PROVE  Fresh(BuildCache(codes), codes)
<1>1. /\ IsLayout(Built) /\ Built.live = TRUE
      /\ Built.sample = <<>> /\ Built.centre = <<>>
  BY BuiltOf DEF IsLayout
<1> QED
  BY <1>1, RelaidIsFresh DEF BuildCache

(* Lane i of a layout of these codes is the i-th code.                     *)
LEMMA LaneOf ==
  ASSUME NEW codes \in Seq(RowCode), NEW c, Holds(c, codes), NEW i \in 1 .. Len(codes)
  PROVE  Lane(c, i) = codes[i]
<1>1. Pad(codes)[i] = codes[i]
  BY PadOf
<1> QED
  BY <1>1 DEF Holds, Lane, IsPlanes

LEMMA ReadOf ==
  ASSUME NEW codes \in Seq(RowCode), NEW c, Holds(c, codes), NEW m, m = Len(codes)
  PROVE  Read(c, m) = codes
<1>1. \A i \in 1 .. m : Lane(c, i) = codes[i]
  BY LaneOf
<1> QED
  BY <1>1 DEF Read

LEMMA FirstOfPad ==
  ASSUME NEW codes \in Seq(RowCode), NEW k \in 0 .. Len(codes)
  PROVE  First(Pad(codes), k) = First(codes, k)
<1>1. /\ Pad(codes) \in Seq(Padded(RowCode)) /\ Len(codes) <= Len(Pad(codes))
      /\ \A i \in 1 .. Len(codes) : Pad(codes)[i] = codes[i]
  BY PadOf
<1>2. Len(codes) \in Nat /\ Len(Pad(codes)) \in Nat
  BY <1>1
<1>3. k \in 0 .. Len(Pad(codes))
  BY <1>1, <1>2
<1>4. /\ First(Pad(codes), k) \in Seq(Padded(RowCode)) /\ Len(First(Pad(codes), k)) = k
      /\ \A i \in 1 .. k : First(Pad(codes), k)[i] = Pad(codes)[i]
  BY <1>1, <1>3, FirstOf
<1>5. /\ First(codes, k) \in Seq(RowCode) /\ Len(First(codes, k)) = k
      /\ \A i \in 1 .. k : First(codes, k)[i] = codes[i]
  BY FirstOf
<1>6. ASSUME NEW i \in 1 .. k
      PROVE  First(Pad(codes), k)[i] = First(codes, k)[i]
  BY <1>1, <1>2, <1>4, <1>5
<1> QED
  BY <1>4, <1>5, <1>6, SeqEqual

LEMMA FirstAll ==
  ASSUME NEW S, NEW s \in Seq(S)
  PROVE  First(s, Len(s)) = s
<1>1. Len(s) \in Nat /\ Len(s) \in 0 .. Len(s)
  OBVIOUS
<1>2. /\ First(s, Len(s)) \in Seq(S) /\ Len(First(s, Len(s))) = Len(s)
      /\ \A i \in 1 .. Len(s) : First(s, Len(s))[i] = s[i]
  BY <1>1, FirstOf
<1> QED
  BY <1>2, SeqEqual

(* A layout of rows, its lanes replaced by those of other rows, and then   *)
(* promoted or not.                                                        *)
LEMMA ReplacedIsFresh ==
  ASSUME NEW codes, First(Pad(codes), Len(codes)) = codes,
         NEW c, IsLayout(c), c.live = TRUE,
         NEW data, data = Pad(codes), NEW low, low \in {<<>>, codes}
  PROVE  Fresh(PromoteIfDue(Relaid(Touched(c), data, low, Len(codes)), Len(codes)), codes)
<1> DEFINE t == Touched(c)
           r == Relaid(t, data, low, Len(codes))
<1>1. IsLayout(t) /\ t.live = TRUE /\ t.sample = <<>> /\ t.centre = <<>>
  BY TouchedOf DEF IsLayout
<1> HIDE DEF t
<1>2. Fresh(r, codes)
  BY <1>1, RelaidIsFresh
<1> HIDE DEF r
<1>3. First(r.data, Len(codes)) = codes
  BY <1>2 DEF Fresh, Holds
<1>4. PromoteIfDue(r, Len(codes)) \in {r, BuildCache(codes)}
  BY <1>3 DEF PromoteIfDue
<1> QED
  BY <1>2, <1>4, BuildIsFresh DEF r, t

(* What an append makes, given what it makes of the sequences.             *)
LEMMA AppendedLayout ==
  ASSUME NEW codes, NEW new, NEW all, all = codes \o new, Len(all) = n + Len(new),
         NEW c, IsLayout(c), c.live = TRUE, Holds(c, codes),
         First(c.data, n) = codes, First(Pad(all), Len(all)) = all
  PROVE  Fresh(Appended(c, new), all)
<1> DEFINE data == Pad(First(c.data, n) \o new)
           low  == IF IsPlanes(c) THEN c.low \o new ELSE <<>>
<1>1. data = Pad(all)
  OBVIOUS
<1>2. low \in {<<>>, all}
  BY DEF Holds, IsPlanes
<1>3. Appended(c, new) = PromoteIfDue(Relaid(Touched(c), data, low, Len(all)), Len(all))
  BY DEF Appended
<1> HIDE DEF data, low
<1> QED
  BY <1>1, <1>2, <1>3, ReplacedIsFresh

LEMMA PatchedLayout ==
  ASSUME NEW codes, NEW all, NEW keep, keep = (n \div BlockRows) * BlockRows,
         NEW rest, rest = SubSeq(all, keep + 1, Len(all)),
         NEW c, IsLayout(c), c.live = TRUE, Holds(c, codes),
         First(c.data, keep) \o Pad(rest) = Pad(all),
         First(codes, keep) \o rest = all,
         First(Pad(all), Len(all)) = all
  PROVE  Fresh(Patched(c, all), all)
<1> DEFINE data == First(c.data, keep) \o Pad(rest)
           low  == IF IsPlanes(c) THEN First(c.low, keep) \o rest ELSE <<>>
<1>1. data = Pad(all)
  OBVIOUS
<1>2. low \in {<<>>, all}
  BY DEF Holds, IsPlanes
<1>3. Patched(c, all) = PromoteIfDue(Relaid(Touched(c), data, low, Len(all)), Len(all))
  BY DEF Patched
<1> HIDE DEF data, low
<1> QED
  BY <1>1, <1>2, <1>3, ReplacedIsFresh

LEMMA AppendedIsFresh ==
  ASSUME n \in Nat, NEW codes \in Seq(RowCode), Len(codes) = n, NEW new \in Seq(RowCode),
         NEW c, IsLayout(c), c.live = TRUE, Holds(c, codes)
  PROVE  Fresh(Appended(c, new), codes \o new)
<1> DEFINE all == codes \o new
<1>1. all \in Seq(RowCode) /\ Len(all) = n + Len(new)
  BY ConcatProperties
<1>2. First(c.data, n) = codes
  <2>1. n \in 0 .. Len(codes)
    OBVIOUS
  <2> QED
    BY <2>1, FirstOfPad, FirstAll DEF Holds
<1>3. all = codes \o new
  OBVIOUS
<1> HIDE DEF all
<1>4. First(Pad(all), Len(all)) = all
  <2>1. Len(all) \in 0 .. Len(all)
    BY <1>1
  <2> QED
    BY <1>1, <2>1, FirstOfPad, FirstAll
<1>5. Fresh(Appended(c, new), all)
  BY <1>1, <1>2, <1>3, <1>4, AppendedLayout
<1> QED
  BY <1>3, <1>5

(* A sequence is a beginning of it and the rest.                           *)
LEMMA FirstAndRest ==
  ASSUME NEW S, NEW s \in Seq(S), NEW k \in 0 .. Len(s)
  PROVE  First(s, k) \o SubSeq(s, k + 1, Len(s)) = s
<1> DEFINE f == First(s, k)
           t == SubSeq(s, k + 1, Len(s))
<1>1. /\ f \in Seq(S) /\ Len(f) = k /\ \A i \in 1 .. k : f[i] = s[i]
      /\ t \in Seq(S) /\ Len(t) = Len(s) - k /\ \A i \in 1 .. Len(s) - k : t[i] = s[k + i]
  BY FirstOf, RestOf
<1> HIDE DEF f, t
<1>2. Len(s) \in Nat /\ k \in Nat /\ k <= Len(s) /\ s \in Seq(S)
  OBVIOUS
<1>3. f \o t \in Seq(S) /\ Len(f \o t) = Len(s)
  BY <1>1, <1>2, ConcatProperties
<1>4. ASSUME NEW i \in 1 .. Len(s) PROVE (f \o t)[i] = s[i]
  <2>1. CASE i <= k
    BY <1>1, <1>2, <2>1, ConcatProperties
  <2>2. CASE i > k
    <3>1. i - k \in 1 .. Len(s) - k /\ k + (i - k) = i
      BY <1>2, <2>2
    <3>2. (f \o t)[i] = t[i - k]
      BY <1>1, <1>2, <2>2, ConcatProperties
    <3> QED
      BY <1>1, <3>1, <3>2
  <2>3. i <= k \/ i > k
    BY <1>2
  <2> QED
    BY <2>1, <2>2, <2>3
<1> QED
  BY <1>3, <1>4, SeqEqual DEF f, t

(* Whole blocks of a padded sequence, and the rest of it padded.           *)
LEMMA PadFrom ==
  ASSUME NEW S, NEW s \in Seq(S), NEW j \in Nat, j * BlockRows <= Len(s)
  PROVE  First(s, j * BlockRows) \o Pad(SubSeq(s, j * BlockRows + 1, Len(s))) = Pad(s)
<1> DEFINE k == j * BlockRows
           f == First(s, k)
           t == SubSeq(s, k + 1, Len(s))
           p == Pad(t)
<1>1. Len(s) \in Nat /\ k \in Nat /\ k <= Len(s) /\ k \in 0 .. Len(s)
  BY BlocksFrom
<1>2. Blocks(Len(s) - k) * BlockRows + k = Blocks(Len(s)) * BlockRows
  BY <1>1, BlocksFrom
<1>3. /\ f \in Seq(S) /\ Len(f) = k /\ \A i \in 1 .. k : f[i] = s[i]
      /\ t \in Seq(S) /\ Len(t) = Len(s) - k /\ \A i \in 1 .. Len(s) - k : t[i] = s[k + i]
  BY <1>1, FirstOf, RestOf
<1> HIDE DEF k, f, t
<1>4. /\ p \in Seq(Padded(S)) /\ Len(p) = Blocks(Len(s) - k) * BlockRows
      /\ \A i \in 1 .. Len(s) - k : p[i] = t[i]
      /\ \A i \in 1 .. Len(p) : i > Len(s) - k => p[i] = Zero
  BY <1>3, PadOf
<1> HIDE DEF p
<1>5. f \in Seq(Padded(S))
  BY <1>3, SeqMonotonic DEF Padded
<1>6. /\ f \o p \in Seq(Padded(S)) /\ Len(f \o p) = k + Len(p)
      /\ \A i \in 1 .. k + Len(p) : (f \o p)[i] = IF i <= k THEN f[i] ELSE p[i - k]
  <2>1. /\ f \o p \in Seq(Padded(S)) /\ Len(f \o p) = Len(f) + Len(p)
        /\ \A i \in 1 .. Len(f) + Len(p) :
             (f \o p)[i] = IF i <= Len(f) THEN f[i] ELSE p[i - Len(f)]
    BY <1>4, <1>5, ConcatProperties
  <2>2. Len(f) = k
    BY <1>3
  <2> QED
    BY <2>1, <2>2
<1>7. Len(p) \in Nat /\ Len(f \o p) = Blocks(Len(s)) * BlockRows
  BY <1>1, <1>2, <1>4, <1>6
<1>8. ASSUME NEW i \in 1 .. Len(s) PROVE (f \o p)[i] = s[i]
  <2>1. i \in 1 .. k + Len(p)
    <3>1. Len(s) <= Blocks(Len(s)) * BlockRows
      BY <1>1, BlocksBounds
    <3> QED
      BY <1>1, <1>6, <1>7, <3>1
  <2>2. CASE i <= k
    BY <1>1, <1>3, <1>6, <2>1, <2>2
  <2>3. CASE i > k
    <3>1. i - k \in 1 .. Len(s) - k /\ k + (i - k) = i
      BY <1>1, <2>3
    <3>2. (f \o p)[i] = p[i - k]
      BY <1>1, <1>6, <2>1, <2>3
    <3> QED
      BY <1>3, <1>4, <3>1, <3>2
  <2>4. i <= k \/ i > k
    BY <1>1
  <2> QED
    BY <2>2, <2>3, <2>4
<1>9. ASSUME NEW i \in 1 .. Len(f \o p), i > Len(s) PROVE (f \o p)[i] = Zero
  <2>1. i \in 1 .. k + Len(p) /\ i > k /\ i - k \in 1 .. Len(p) /\ i - k > Len(s) - k
    BY <1>1, <1>6, <1>7, <1>9
  <2>2. (f \o p)[i] = p[i - k]
    BY <1>1, <1>6, <2>1
  <2> QED
    BY <1>4, <2>1, <2>2
<1> QED
  BY <1>6, <1>7, <1>8, <1>9, IsPad DEF f, p, t, k

LEMMA PatchedIsFresh ==
  ASSUME n \in Nat, NEW codes \in Seq(RowCode), Len(codes) = n, NEW new \in Seq(RowCode),
         NEW c, IsLayout(c), c.live = TRUE, Holds(c, codes)
  PROVE  Fresh(Patched(c, codes \o new), codes \o new)
<1> DEFINE all == codes \o new
           j == n \div BlockRows
           k == j * BlockRows
           rest == SubSeq(all, k + 1, Len(all))
<1>1. /\ all \in Seq(RowCode) /\ Len(all) = n + Len(new) /\ Len(new) \in Nat
      /\ \A i \in 1 .. n : all[i] = codes[i]
  <2>1. /\ all \in Seq(RowCode) /\ Len(all) = Len(codes) + Len(new)
        /\ \A i \in 1 .. Len(codes) + Len(new) :
             all[i] = IF i <= Len(codes) THEN codes[i] ELSE new[i - Len(codes)]
    BY ConcatProperties
  <2> HIDE DEF all
  <2>2. Len(new) \in Nat
    OBVIOUS
  <2> QED
    BY <2>1, <2>2
<1>2. j \in Nat /\ k \in Nat /\ k <= n
  BY CachesAssumption, DivBounds
<1> HIDE DEF all, j
<1>3. First(all, k) \o rest = all
  <2>1. k \in 0 .. Len(all)
    BY <1>1, <1>2
  <2> HIDE DEF k
  <2> QED
    BY <1>1, <2>1, FirstAndRest
<1>4. First(all, k) \o Pad(rest) = Pad(all)
  <2>1. j * BlockRows <= Len(all)
    BY <1>1, <1>2
  <2> QED
    BY <1>1, <1>2, <2>1, PadFrom
<1>5. First(codes, k) = First(all, k)
  <2>1. k \in 0 .. Len(codes) /\ k \in 0 .. Len(all)
    BY <1>1, <1>2
  <2>2. /\ First(codes, k) \in Seq(RowCode) /\ Len(First(codes, k)) = k
        /\ \A i \in 1 .. k : First(codes, k)[i] = codes[i]
    BY <2>1, FirstOf
  <2>3. /\ First(all, k) \in Seq(RowCode) /\ Len(First(all, k)) = k
        /\ \A i \in 1 .. k : First(all, k)[i] = all[i]
    BY <1>1, <2>1, FirstOf
  <2>4. \A i \in 1 .. k : i \in 1 .. n
    BY <1>2
  <2> QED
    BY <1>1, <2>2, <2>3, <2>4, SeqEqual
<1>6. First(c.data, k) = First(codes, k)
  <2>1. k \in 0 .. Len(codes)
    BY <1>2
  <2> QED
    BY <2>1, FirstOfPad DEF Holds
<1>7. First(Pad(all), Len(all)) = all
  <2>1. Len(all) \in 0 .. Len(all)
    BY <1>1
  <2> QED
    BY <1>1, <2>1, FirstOfPad, FirstAll
<1>8. k = (n \div BlockRows) * BlockRows /\ rest = SubSeq(all, k + 1, Len(all))
  BY DEF j
<1> HIDE DEF k, rest
<1>9. Fresh(Patched(c, all), all)
  BY <1>3, <1>4, <1>5, <1>6, <1>7, <1>8, PatchedLayout
<1> QED
  BY <1>9 DEF all

(* A row fewer takes no more blocks.                                       *)
LEMMA BlocksFewer ==
  ASSUME NEW m \in Nat \ {0}
  PROVE  Blocks(m - 1) * BlockRows <= Blocks(m) * BlockRows
<1> DEFINE a == Blocks(m - 1)
           b == Blocks(m)
<1>1. BlockRows \in Nat \ {0} /\ m - 1 \in Nat
  BY CachesAssumption
<1>2. a \in Nat /\ b \in Nat /\ a * BlockRows < m - 1 + BlockRows /\ m <= b * BlockRows
  BY <1>1, BlocksBounds
<1> HIDE DEF a, b
<1>3. (a - b) * BlockRows = a * BlockRows - b * BlockRows
  BY <1>1, <1>2
<1>4. (a - b) * BlockRows < BlockRows
  BY <1>1, <1>2, <1>3
<1>5. ~ (a - b >= 1)
  BY <1>1, <1>2, <1>4
<1>6. a <= b
  BY <1>2, <1>5
<1> QED
  BY <1>1, <1>2, <1>6 DEF a, b

(* The last lane moved to i, zeroed, and whole blocks left out.            *)
LEMMA VacatedData ==
  ASSUME NEW codes \in Seq(RowCode), n \in Nat, Len(codes) = n, NEW i \in 1 .. n
  PROVE  First([Moved(Pad(codes), i, n) EXCEPT ![n] = Zero], Blocks(n - 1) * BlockRows)
           = Pad(Filled(codes, i))
<1> DEFINE p == Pad(codes)
           moved == Moved(p, i, n)
           z == [moved EXCEPT ![n] = Zero]
           l == Blocks(n - 1) * BlockRows
           f == Filled(codes, i)
<1>1. /\ p \in Seq(Padded(RowCode)) /\ n <= Len(p) /\ Len(p) = Blocks(n) * BlockRows
      /\ \A j \in 1 .. n : p[j] = codes[j]
      /\ \A j \in 1 .. Len(p) : j > n => p[j] = Zero
  BY PadOf
<1> HIDE DEF p
<1>3. n \in 1 .. Len(p) /\ i \in 1 .. Len(p) /\ Len(p) \in Nat
  BY <1>1
<1>4. /\ moved \in Seq(Padded(RowCode)) /\ Len(moved) = Len(p)
      /\ \A j \in 1 .. Len(p) : moved[j] = IF j = i THEN p[n] ELSE p[j]
  <2>1. p \in Seq(Padded(RowCode))
    BY <1>1
  <2> QED
    BY <1>3, <2>1, MovedOf
<1> HIDE DEF moved
<1>5. /\ z \in Seq(Padded(RowCode)) /\ Len(z) = Len(p)
      /\ \A j \in 1 .. Len(p) : z[j] = IF j = n THEN Zero ELSE moved[j]
  BY <1>3, <1>4 DEF Padded
<1> HIDE DEF z
<1>6. /\ f \in Seq(RowCode) /\ Len(f) = n - 1
      /\ \A j \in 1 .. n - 1 : f[j] = IF j = i THEN codes[n] ELSE codes[j]
  BY FilledOf
<1> HIDE DEF f
<1>7. l \in Nat /\ n - 1 <= l /\ l <= Len(p)
  BY <1>1, BlocksBounds, BlocksFewer
<1>8. l = Blocks(Len(f)) * BlockRows
  BY <1>6
<1> HIDE DEF l
<1>9. /\ First(z, l) \in Seq(Padded(RowCode)) /\ Len(First(z, l)) = l
      /\ \A j \in 1 .. l : First(z, l)[j] = z[j]
  <2>1. l \in 0 .. Len(z)
    BY <1>3, <1>5, <1>7
  <2> QED
    BY <1>5, <2>1, FirstOf
<1>10. ASSUME NEW j \in 1 .. n - 1 PROVE First(z, l)[j] = f[j]
  <2>1. j \in 1 .. l /\ j \in 1 .. Len(p) /\ j \in 1 .. n /\ j # n /\ n \in 1 .. n
    BY <1>3, <1>7
  <2>2. First(z, l)[j] = IF j = i THEN p[n] ELSE p[j]
    BY <1>4, <1>5, <1>9, <2>1
  <2> QED
    BY <1>1, <1>6, <2>1, <2>2
<1>11. ASSUME NEW j \in 1 .. l, j > n - 1 PROVE First(z, l)[j] = Zero
  <2>1. j \in 1 .. Len(p) /\ (j = n \/ j > n)
    BY <1>3, <1>7, <1>11
  <2>2. First(z, l)[j] = IF j = n THEN Zero ELSE IF j = i THEN p[n] ELSE p[j]
    BY <1>4, <1>5, <1>9, <2>1
  <2>3. j > n => j # i /\ j # n
    OBVIOUS
  <2> QED
    BY <1>1, <2>1, <2>2, <2>3
<1> QED
  <2>1. First(z, l) = Pad(f)
    BY <1>6, <1>8, <1>9, <1>10, <1>11, IsPad
  <2> QED
    BY <2>1 DEF z, l, f, moved, p

LEMMA VacatedIsFresh ==
  ASSUME NEW codes, NEW c, IsLayout(c), c.live = TRUE, Holds(c, codes), NEW i,
         Len(Filled(codes, i)) = n - 1,
         First([Moved(Pad(codes), i, n) EXCEPT ![n] = Zero], Blocks(n - 1) * BlockRows)
           = Pad(Filled(codes, i))
  PROVE  Fresh(Vacated(c, i, n), Filled(codes, i))
<1> DEFINE f == Filled(codes, i)
           zeroed == [Moved(c.data, i, n) EXCEPT ![n] = Zero]
           data == First(zeroed, Blocks(n - 1) * BlockRows)
           low == IF IsPlanes(c) THEN First(Moved(c.low, i, n), n - 1) ELSE <<>>
<1>1. data = Pad(f)
  BY DEF Holds
<1>2. low \in {<<>>, f}
  BY DEF Holds, IsPlanes, Filled
<1>3. Vacated(c, i, n) = Relaid(Touched(c), data, low, n - 1)
  BY DEF Vacated
<1>4. Len(f) = n - 1
  OBVIOUS
<1> HIDE DEF f, data, low
<1>5. /\ IsLayout(Touched(c)) /\ Touched(c).live = TRUE
      /\ Touched(c).sample = <<>> /\ Touched(c).centre = <<>>
  BY TouchedOf DEF IsLayout
<1>6. Fresh(Vacated(c, i, n), f)
  BY <1>1, <1>2, <1>3, <1>4, <1>5, RelaidIsFresh
<1> QED
  BY <1>6 DEF f

-----------------------------------------------------------------------------
(* The state. *)

(* A layout that there may be of the rows the index has.                   *)
Good(c) ==
  /\ IsLayout(c) /\ c.live \in BOOLEAN /\ (~ c.live => c = NoLayout)
  /\ c.live => Holds(c, Codes(rows))
  /\ c.sample # <<>> => c.sample[1] = IF n < SampleMin THEN <<>> ELSE <<Codes(rows), scales>>
  /\ c.centre # <<>> => c.centre[1] = <<Codes(rows), calib>>
  /\ n = 0 => c.centre = <<>>

LEMMA RowsOf ==
  ASSUME CInv
  PROVE  /\ n \in Nat /\ rows \in Seq(Vector) /\ Len(rows) = n /\ calib \in Nat
         /\ Codes(rows) \in Seq(RowCode) /\ Len(Codes(rows)) = n
         /\ \A i \in 1 .. n : Codes(rows)[i] = Code(rows[i])
<1>1. rows \in Seq(Vector) /\ n = Len(rows) /\ calib \in Nat
  BY DEF CInv, CTypeOK, LayoutsAgree
<1> QED
  BY <1>1, CodesOf

LEMMA GoodOf ==
  ASSUME CInv
  PROVE  Good(blocked)
  BY DEF CInv, CTypeOK, LayoutsAgree, DerivedFromTheRows, CentreHasRows, Good, IsLayout

LEMMA PackedIs ==
  ASSUME CInv
  PROVE  packed \in {<<>>, <<Codes(rows)>>} /\ PackedRows = Codes(rows)
<1>1. packed \in {<<>>, <<Codes(rows)>>}
  BY DEF CInv, CTypeOK, LayoutsAgree
<1>2. CASE packed # <<>>
  BY <1>1, <1>2 DEF PackedRows
<1>3. CASE packed = <<>> /\ n = 0
  <2>1. Codes(rows) \in Seq(RowCode) /\ Len(Codes(rows)) = 0
    BY <1>3, RowsOf
  <2>2. Codes(rows) = <<>>
    BY <2>1
  <2> QED
    BY <1>1, <1>3, <2>2 DEF PackedRows
<1>4. CASE packed = <<>> /\ n # 0
  <2>1. n > 0
    BY <1>4, RowsOf
  <2>2. Holds(blocked, Codes(rows))
    BY <1>4, <2>1 DEF CInv, LayoutsAgree
  <2>3. Read(blocked, n) = Codes(rows)
    BY <2>2, RowsOf, ReadOf
  <2> QED
    BY <1>1, <1>4, <2>3 DEF PackedRows
<1> QED
  BY <1>1, <1>2, <1>3, <1>4

LEMMA FreshIsGood ==
  ASSUME NEW c, Fresh(c, Codes(rows))
  PROVE  Good(c) /\ c.live
  BY DEF Fresh, Good, Holds

(* A step that leaves the rows, the calibration and the scales alone.      *)
LEMMA QuietStep ==
  ASSUME CInv, rows' = rows, n' = n, calib' = calib, scales' = scales,
         NEW c, blocked' = c, Good(c),
         packed' \in {<<>>, <<Codes(rows)>>},
         n > 0 => packed' # <<>> \/ c.live,
         dim' \in Nat, cursor' \in Nat, tables' \in {0, dim'},
         UNCHANGED <<arena, captured>> \/ (arena' = <<>> /\ captured' = {})
  PROVE  CInv'
<1>1. Codes(rows)' = Codes(rows)
  BY DEF Codes, Code
<1>2. CTypeOK'
  <2>1. rows' \in Seq(Vector) /\ dim' \in Nat /\ calib' \in Nat /\ cursor' \in Nat
    BY DEF CInv, CTypeOK
  <2>2. packed' = <<>> \/ packed' = <<packed'[1]>>
    OBVIOUS
  <2>3. /\ c = [live |-> c.live, data |-> c.data, low |-> c.low, blocks |-> c.blocks,
                stats |-> c.stats, sample |-> c.sample, centre |-> c.centre]
        /\ c.live \in BOOLEAN /\ (~ c.live => c = NoLayout)
    BY DEF Good, IsLayout
  <2>4. arena' \in Seq(RowCode) /\ captured' \subseteq (1 .. n) \X (1 .. Len(arena'))
    <3>1. CASE UNCHANGED <<arena, captured>>
      BY <3>1 DEF CInv, CTypeOK
    <3>2. CASE arena' = <<>> /\ captured' = {}
      BY <3>2
    <3> QED
      BY <3>1, <3>2
  <2> QED
    BY <2>1, <2>2, <2>3, <2>4 DEF CTypeOK, NoLayout
<1>3. LayoutsAgree'
  <2>1. n' = Len(rows') /\ scales' = Codes(rows)
    BY DEF CInv, LayoutsAgree
  <2>2. packed' # <<>> => packed'[1] = Codes(rows)
    OBVIOUS
  <2>3. c.live => /\ c.live /\ c.data = Pad(Codes(rows))
                  /\ c.blocks = Blocks(Len(Codes(rows))) /\ c.low \in {<<>>, Codes(rows)}
    BY DEF Good, Holds
  <2> QED
    BY <1>1, <2>1, <2>2, <2>3 DEF LayoutsAgree, Holds, Pad, Blocks, Zero
<1>4. CapturesAgree'
  <2>1. CASE UNCHANGED <<arena, captured>>
    BY <2>1 DEF CInv, CapturesAgree, Code
  <2>2. CASE arena' = <<>> /\ captured' = {}
    <3>1. Len(arena') <= MaxOps
      BY <2>2, CachesAssumption
    <3> QED
      BY <2>2, <3>1 DEF CapturesAgree
  <2> QED
    BY <2>1, <2>2
<1>5. DerivedFromTheRows'
  BY <1>1 DEF DerivedFromTheRows, Good
<1>6. CentreHasRows'
  BY DEF CentreHasRows, Good
<1> QED
  BY <1>2, <1>3, <1>4, <1>5, <1>6 DEF CInv

LEMMA MaterializeStep ==
  ASSUME CInv, MaterializePacked
  PROVE  CInv'
<1>1. packed' = <<Codes(rows)>> /\ Good(blocked)
  BY PackedIs, GoodOf DEF MaterializePacked
<1>2. dim \in Nat /\ cursor \in Nat /\ tables \in {0, dim}
  BY DEF CInv, CTypeOK, DerivedFromTheRows
<1>3. packed' # <<>>
  BY <1>1
<1> QED
  BY <1>1, <1>2, <1>3, QuietStep DEF MaterializePacked, sync

LEMMA PreparedIsGood ==
  ASSUME CInv
  PROVE  Good(Prepared) /\ Prepared.live
<1>1. CASE blocked.live
  BY <1>1, GoodOf DEF Prepared
<1>2. CASE ~ blocked.live
  BY <1>2, PackedIs, BuildIsFresh, FreshIsGood DEF Prepared
<1> QED
  BY <1>1, <1>2

(* What a layout's first use leaves of the packed rows.                    *)
LEMMA PreparedPacked ==
  ASSUME CInv
  PROVE  (IF blocked.live THEN packed ELSE <<PackedRows>>) \in {<<>>, <<Codes(rows)>>}
  BY PackedIs

LEMMA PrepareStep ==
  ASSUME CInv, Prepare
  PROVE  CInv'
<1>1. packed' \in {<<>>, <<Codes(rows)>>}
  BY PreparedPacked DEF Prepare
<1>2. dim \in Nat /\ cursor \in Nat
  BY DEF CInv, CTypeOK
<1> QED
  BY <1>1, <1>2, PreparedIsGood, QuietStep DEF Prepare, sync

LEMMA DerivedIsGood ==
  ASSUME CInv, n > 0, NEW c, Good(c), c.live
  PROVE  Good(Derived(c)) /\ Derived(c).live
<1> DEFINE stats == OrInit(c.stats, Read(c, n))
           centre == IF calib = 0 THEN c.centre
                     ELSE OrInit(c.centre, <<Read(c, n), calib>>)
           sample == OrInit(c.sample, IF n < SampleMin THEN <<>> ELSE <<Read(c, n), scales>>)
           d == Filling(c, stats, sample, centre)
<1>1. Derived(c) = IF ~ IsPlanes(c) THEN c ELSE d
  BY DEF Derived
<1>2. IsLayout(c) /\ c.live \in BOOLEAN /\ Holds(c, Codes(rows))
  BY DEF Good
<1>3. Read(c, n) = Codes(rows)
  BY <1>2, RowsOf, ReadOf
<1>4. /\ sample # <<>> =>
           sample[1] = IF n < SampleMin THEN <<>> ELSE <<Codes(rows), scales>>
      /\ centre # <<>> => centre[1] = <<Codes(rows), calib>>
  BY <1>3 DEF Good, OrInit
<1> HIDE DEF stats, sample, centre
<1>7. d = [live |-> c.live, data |-> c.data, low |-> c.low, blocks |-> c.blocks,
           stats |-> stats, sample |-> sample, centre |-> centre]
  BY <1>2, FillingOf
<1> HIDE DEF d
<1>8. Good(d) /\ d.live
  <2>1. IsLayout(d) /\ d.live \in BOOLEAN /\ d.live
    BY <1>2, <1>7 DEF IsLayout
  <2>2. Holds(d, Codes(rows))
    BY <1>2, <1>7 DEF Holds
  <2>3. d.sample = sample /\ d.centre = centre
    BY <1>7
  <2>4. n # 0
    BY RowsOf
  <2> QED
    BY <1>4, <2>1, <2>2, <2>3, <2>4 DEF Good
<1> QED
  BY <1>1, <1>8

LEMMA SearchStep ==
  ASSUME CInv, Search
  PROVE  CInv'
<1>1. packed' \in {<<>>, <<Codes(rows)>>}
  BY PreparedPacked DEF Search
<1>2. dim \in Nat /\ cursor \in Nat
  BY DEF CInv, CTypeOK
<1>3. Good(Derived(Prepared)) /\ Derived(Prepared).live
  BY PreparedIsGood, DerivedIsGood DEF Search
<1> QED
  BY <1>1, <1>2, <1>3, QuietStep DEF Search, sync

LEMMA SyncsStep ==
  ASSUME CInv, Sync \/ SyncFails
  PROVE  CInv'
<1>1. packed' \in {<<>>, <<Codes(rows)>>}
  BY PreparedPacked DEF Sync, SyncFails, SyncReads
<1>2. dim' \in Nat /\ cursor' \in Nat
  BY RowsOf DEF CInv, CTypeOK, Sync, SyncFails
<1>3. packed' # <<>> \/ blocked.live
  BY DEF Sync, SyncFails, SyncReads
<1> QED
  BY <1>1, <1>2, <1>3, GoodOf, QuietStep DEF Sync, SyncFails

LEMMA AddPanicsStep ==
  ASSUME CInv, NEW d \in Dims, AddPanics(d)
  PROVE  CInv'
<1>1. packed' \in {<<>>, <<Codes(rows)>>}
  BY PackedIs DEF AddPanics
<1>2. dim' \in Nat /\ cursor' \in Nat /\ tables' \in {0, dim'}
  BY DEF CInv, CTypeOK, AddPanics, Agrees, sync
<1>3. packed' # <<>> \/ blocked.live
  BY DEF AddPanics, LazyAppend
<1> QED
  BY <1>1, <1>2, <1>3, GoodOf, QuietStep DEF AddPanics, sync

LEMMA CalibrateRefusedStep ==
  ASSUME CInv, NEW d \in Dims, CalibrateRefused(d)
  PROVE  CInv'
<1>1. packed \in {<<>>, <<Codes(rows)>>}
  BY PackedIs
<1>2. dim' \in Nat /\ cursor' \in Nat /\ tables' \in {0, dim'}
  BY DEF CInv, CTypeOK, CalibrateRefused, Agrees, sync
<1>3. n > 0 => packed # <<>> \/ blocked.live
  BY DEF CInv, LayoutsAgree
<1> QED
  BY <1>1, <1>2, <1>3, GoodOf, QuietStep DEF CalibrateRefused, sync, store

-----------------------------------------------------------------------------
(* What a sync reads. *)

LEMMA RowReads ==
  ASSUME CInv, NEW i \in 1 .. n
  PROVE  SeqRow(i) = Code(rows[i]) /\ RowCodes(i) = Code(rows[i])
<1>1. Codes(rows)[i] = Code(rows[i]) /\ n > 0 /\ i \in 1 .. Len(Codes(rows))
  BY RowsOf
<1>2. SeqRow(i) = Code(rows[i])
  <2>1. CASE packed # <<>>
    BY <1>1, <2>1, PackedIs DEF SeqRow
  <2>2. CASE packed = <<>>
    <3>1. Holds(blocked, Codes(rows))
      BY <1>1, <2>2 DEF CInv, LayoutsAgree
    <3>2. Lane(blocked, i) = Codes(rows)[i]
      BY <1>1, <3>1, RowsOf, LaneOf
    <3> QED
      BY <1>1, <2>2, <3>2 DEF SeqRow
  <2> QED
    BY <2>1, <2>2
<1>3. CASE CaptureOf(i) = {}
  BY <1>2, <1>3 DEF RowCodes
<1>4. CASE CaptureOf(i) # {}
  <2> DEFINE c == CHOOSE c \in CaptureOf(i) : TRUE
  <2>1. c \in CaptureOf(i)
    BY <1>4
  <2>2. RowCodes(i) = arena[c[2]]
    BY <1>4 DEF RowCodes
  <2> HIDE DEF c
  <2>3. c \in captured /\ c[1] = i
    BY <2>1 DEF CaptureOf
  <2> QED
    BY <1>2, <2>2, <2>3 DEF CInv, CapturesAgree
<1> QED
  BY <1>2, <1>3, <1>4

LEMMA UnitReads ==
  ASSUME CInv, NEW from \in Nat, NEW to \in Nat, to <= n
  PROVE  UnitRows(from, to) = [i \in 1 .. to - from |-> Code(rows[from + i])]
<1>1. n \in Nat
  BY RowsOf
<1>2. \A i \in 1 .. to - from : from + i \in 1 .. n
  BY <1>1
<1>3. ASSUME IsPlanes(blocked), NEW i \in 1 .. n
      PROVE  Lane(blocked, i) = Code(rows[i])
  <2>1. Holds(blocked, Codes(rows))
    BY <1>3, GoodOf DEF Good, IsPlanes, NoLayout
  <2> QED
    BY <2>1, RowsOf, LaneOf
<1>4. CASE PlanesWanted(n) /\ IsPlanes(blocked)
  BY <1>2, <1>3, <1>4 DEF UnitRows
<1>5. CASE ~ (PlanesWanted(n) /\ IsPlanes(blocked))
  BY <1>2, <1>5, RowReads DEF UnitRows
<1> QED
  BY <1>4, <1>5

LEMMA ImageIs ==
  ASSUME CInv
  PROVE  Image = Codes(rows)
<1> DEFINE whole == (n \div BlockRows) * BlockRows
           u == UnitRows(0, whole)
           t == [i \in 1 .. n - whole |-> RowCodes(whole + i)]
<1>1. n \in Nat /\ whole \in Nat /\ whole <= n
  BY RowsOf, CachesAssumption, DivBounds
<1>2. Image = u \o t
  BY DEF Image
<1> HIDE DEF whole
<1>3. \A i \in 1 .. n : Code(rows[i]) \in RowCode /\ Codes(rows)[i] = Code(rows[i])
  BY RowsOf DEF Code, RowCode
<1>4. u = [i \in 1 .. whole |-> Code(rows[i])]
  <2>1. 0 \in Nat /\ whole - 0 = whole /\ \A i \in 1 .. whole : 0 + i = i
    BY <1>1
  <2>2. u = [i \in 1 .. whole - 0 |-> Code(rows[0 + i])]
    BY <1>1, <2>1, UnitReads
  <2> HIDE DEF u
  <2> QED
    BY <2>1, <2>2
<1> HIDE DEF u
<1>5. u \in Seq(RowCode) /\ Len(u) = whole /\ \A i \in 1 .. whole : u[i] = Code(rows[i])
  <2>1. \A i \in 1 .. whole : i \in 1 .. n
    BY <1>1
  <2> QED
    BY <1>1, <1>3, <1>4, <2>1
<1>6. \A i \in 1 .. n - whole : whole + i \in 1 .. n
  BY <1>1
<1>7. \A i \in 1 .. n - whole : RowCodes(whole + i) = Code(rows[whole + i])
  BY <1>6, RowReads
<1>8. /\ t \in Seq(RowCode) /\ Len(t) = n - whole
      /\ \A i \in 1 .. n - whole : t[i] = Code(rows[whole + i])
  BY <1>1, <1>3, <1>6, <1>7
<1> HIDE DEF t
<1>9. /\ u \o t \in Seq(RowCode) /\ Len(u \o t) = n
      /\ \A i \in 1 .. n : (u \o t)[i] = IF i <= whole THEN u[i] ELSE t[i - whole]
  <2>1. /\ u \o t \in Seq(RowCode) /\ Len(u \o t) = Len(u) + Len(t)
        /\ \A i \in 1 .. Len(u) + Len(t) :
             (u \o t)[i] = IF i <= Len(u) THEN u[i] ELSE t[i - Len(u)]
    BY <1>5, <1>8, ConcatProperties
  <2>2. Len(u) = whole /\ Len(t) = n - whole /\ whole + (n - whole) = n
    BY <1>1, <1>5, <1>8
  <2> QED
    BY <2>1, <2>2
<1>10. ASSUME NEW i \in 1 .. n PROVE (u \o t)[i] = Codes(rows)[i]
  <2>1. CASE i <= whole
    <3>1. i \in 1 .. whole
      BY <1>1, <2>1
    <3> QED
      BY <1>3, <1>5, <1>9, <2>1, <3>1
  <2>2. CASE ~ (i <= whole)
    <3>1. i - whole \in 1 .. n - whole /\ whole + (i - whole) = i
      BY <1>1, <2>2
    <3> QED
      BY <1>3, <1>8, <1>9, <2>2, <3>1
  <2> QED
    BY <2>1, <2>2
<1> QED
  BY <1>2, <1>9, <1>10, RowsOf, SeqEqual

LEMMA LoadStep ==
  ASSUME CInv, NEW b \in BOOLEAN, Load(b)
  PROVE  CInv'
<1> DEFINE c == IF n = 0 THEN NoLayout ELSE BuildCache(Image)
<1>1. Good(BuildCache(Image)) /\ BuildCache(Image).live
  BY ImageIs, BuildIsFresh, FreshIsGood
<1>2. Good(NoLayout)
  BY DEF Good, IsLayout, NoLayout
<1>3. Good(c) /\ (n > 0 => c.live)
  BY <1>1, <1>2
<1>4. packed' \in {<<>>, <<Codes(rows)>>}
  <2>1. n = 0 => Codes(rows) = <<>>
    BY RowsOf
  <2> QED
    BY <2>1 DEF Load
<1>5. dim' \in Nat /\ cursor' \in Nat /\ tables' \in {0, dim'}
  BY RowsOf DEF CInv, CTypeOK, Load
<1>6. blocked' = c
  BY DEF Load
<1> HIDE DEF c
<1> QED
  BY <1>3, <1>4, <1>5, <1>6, QuietStep DEF Load

LEMMA ReadsTheRows ==
  ASSUME CInv
  PROVE  SyncReadsTheRows
<1>1. \A i \in 1 .. n : RowCodes(i) = Code(rows[i])
  BY RowReads
<1>2. ASSUME NEW b \in 0 .. n \div BlockRows - 1
      PROVE  UnitRows(b * BlockRows, b * BlockRows + BlockRows) =
               Codes(SubSeq(rows, b * BlockRows + 1, b * BlockRows + BlockRows))
  <2> DEFINE k == b * BlockRows
             q == n \div BlockRows
             s == SubSeq(rows, k + 1, k + BlockRows)
  <2>1. BlockRows \in Nat \ {0} /\ n \in Nat /\ rows \in Seq(Vector) /\ Len(rows) = n
    BY RowsOf, CachesAssumption
  <2>2. q \in Nat /\ q * BlockRows \in Nat /\ q * BlockRows <= n
    BY <2>1, DivBounds
  <2> HIDE DEF q
  <2>3. b \in Nat /\ b <= q - 1
    BY <2>2 DEF q
  <2>4. k \in Nat /\ k + BlockRows <= n
    <3>1. (q - 1 - b) * BlockRows >= 0
      BY <2>1, <2>2, <2>3
    <3>2. (q - 1 - b) * BlockRows = q * BlockRows - BlockRows - b * BlockRows
      BY <2>1, <2>2, <2>3
    <3> QED
      BY <2>1, <2>2, <2>3, <3>1, <3>2
  <2> HIDE DEF k
  <2>5. (k + BlockRows) - k = BlockRows /\ k + BlockRows \in Nat
    BY <2>1, <2>4
  <2>6. UnitRows(k, k + BlockRows) = [i \in 1 .. BlockRows |-> Code(rows[k + i])]
    <3>1. UnitRows(k, k + BlockRows) = [i \in 1 .. (k + BlockRows) - k |-> Code(rows[k + i])]
      BY <2>4, <2>5, UnitReads
    <3> QED
      BY <2>5, <3>1
  <2>7. DOMAIN s = 1 .. BlockRows /\ \A i \in 1 .. BlockRows : s[i] = rows[k + i]
    <3>1. \A i \in k + 1 .. k + BlockRows : rows[i] \in Vector
      BY <2>1, <2>4
    <3>2. /\ s \in Seq(Vector)
          /\ Len(s) = IF k + 1 <= k + BlockRows THEN (k + BlockRows) - (k + 1) + 1 ELSE 0
          /\ \A i \in 1 .. (k + BlockRows) - (k + 1) + 1 : s[i] = rows[k + 1 + i - 1]
      BY <2>1, <2>4, <3>1, SubSeqProperties
    <3> HIDE DEF s
    <3>3. Len(s) = BlockRows /\ (k + BlockRows) - (k + 1) + 1 = BlockRows
      BY <2>1, <2>4, <3>2
    <3>4. \A i \in 1 .. BlockRows : k + 1 + i - 1 = k + i
      BY <2>1, <2>4
    <3> QED
      BY <3>2, <3>3, <3>4
  <2> HIDE DEF s
  <2>8. Codes(s) = [i \in 1 .. BlockRows |-> Code(rows[k + i])]
    BY <2>7 DEF Codes
  <2> QED
    BY <2>6, <2>8 DEF s, k
<1>3. Len(arena) <= MaxOps
  BY DEF CInv, CapturesAgree
<1>4. \A c, e \in captured : /\ c[1] <= n /\ c[2] <= Len(arena)
                             /\ c # e => c[1] # e[1] /\ c[2] # e[2]
  <2>1. \A c \in captured : c[1] <= n /\ c[2] <= Len(arena)
    BY RowsOf DEF CInv, CTypeOK
  <2> QED
    BY <2>1 DEF CInv, CapturesAgree
<1> QED
  BY <1>1, <1>2, <1>3, <1>4 DEF SyncReadsTheRows

-----------------------------------------------------------------------------
(* The steps that change the rows, or how they are encoded. *)

LEMMA AddStep ==
  ASSUME CInv, NEW d \in Dims, NEW vs \in Batch, Add(d, vs)
  PROVE  CInv'
<1> DEFINE codes == Codes(rows)
           new == Codes(vs)
           all == codes \o new
<1>1. vs \in Seq(Vector) /\ Len(vs) \in Nat
  BY CachesAssumption
<1>2. /\ n \in Nat /\ rows \in Seq(Vector) /\ Len(rows) = n /\ calib \in Nat
      /\ codes \in Seq(RowCode) /\ Len(codes) = n
  BY RowsOf
<1>3. new \in Seq(RowCode)
  BY <1>1, <1>2, CodesOf
<1>4. /\ rows' = rows \o vs /\ n' = n + Len(vs) /\ calib' = calib /\ scales' = scales \o new
      /\ packed' = <<>> /\ dim' = d /\ tables' = d
      /\ UNCHANGED <<cursor, arena, captured>>
  BY DEF Add, sync
<1>5. Codes(rows)' = all
  <2>1. Codes(rows)' = Codes(rows \o vs)
    BY <1>4 DEF Codes, Code
  <2> QED
    BY <1>1, <1>2, <2>1, CodesConcat
<1>6. Fresh(blocked', all)
  <2>1. IsLayout(blocked) /\ (blocked.live => blocked.live = TRUE /\ Holds(blocked, codes))
    BY GoodOf DEF Good
  <2>2. CASE LazyAppend
    <3>1. blocked' = Appended(blocked, new) /\ blocked.live
      BY <2>2 DEF Add, LazyAppend
    <3> HIDE DEF codes, new
    <3> QED
      BY <1>2, <1>3, <2>1, <3>1, AppendedIsFresh
  <2>3. CASE ~ LazyAppend /\ blocked.live
    <3>1. blocked' = Patched(blocked, all)
      BY <2>3, PackedIs DEF Add
    <3> HIDE DEF codes, new
    <3> QED
      BY <1>2, <1>3, <2>1, <2>3, <3>1, PatchedIsFresh
  <2>4. CASE ~ LazyAppend /\ ~ blocked.live
    <3>1. blocked' = BuildCache(all)
      BY <2>4, PackedIs DEF Add
    <3> HIDE DEF all
    <3> QED
      BY <3>1, BuildIsFresh
  <2> QED
    BY <2>2, <2>3, <2>4
<1> HIDE DEF all
<1>7. /\ rows' \in Seq(Vector) /\ Len(rows') = n' /\ n' \in Nat /\ n <= n'
      /\ \A i \in 1 .. n : rows'[i] = rows[i]
  <2>1. /\ rows \o vs \in Seq(Vector) /\ Len(rows \o vs) = Len(rows) + Len(vs)
        /\ \A i \in 1 .. Len(rows) + Len(vs) :
             (rows \o vs)[i] = IF i <= Len(rows) THEN rows[i] ELSE vs[i - Len(rows)]
    BY <1>1, <1>2, ConcatProperties
  <2> QED
    BY <1>1, <1>2, <1>4, <2>1
<1>8. CTypeOK'
  <2>1. captured' \subseteq (1 .. n') \X (1 .. Len(arena'))
    <3>1. 1 .. n \subseteq 1 .. n'
      BY <1>2, <1>7
    <3> QED
      BY <1>4, <3>1 DEF CInv, CTypeOK
  <2>2. d \in Nat
    BY CachesAssumption
  <2>3. arena' \in Seq(RowCode) /\ cursor' \in Nat
    BY <1>4 DEF CInv, CTypeOK
  <2>4. IsLayout(blocked') /\ blocked'.live = TRUE
    BY <1>6 DEF Fresh, Holds
  <2> QED
    BY <1>2, <1>4, <1>7, <2>1, <2>2, <2>3, <2>4 DEF CTypeOK, IsLayout
<1>9. LayoutsAgree'
  <2>1. scales' = all
    BY <1>4 DEF CInv, LayoutsAgree, all
  <2>2. Holds(blocked', all) /\ blocked'.live
    BY <1>6 DEF Fresh, Holds
  <2> QED
    BY <1>4, <1>5, <1>7, <2>1, <2>2 DEF LayoutsAgree, Holds, Pad, Blocks, Zero
<1>10. CapturesAgree'
  <2>1. Len(arena) <= MaxOps /\ \A c, e \in captured : c # e => c[1] # e[1] /\ c[2] # e[2]
    BY DEF CInv, CapturesAgree
  <2>2. \A c \in captured : c[1] \in 1 .. n /\ arena[c[2]] = Code(rows[c[1]])
    BY DEF CInv, CTypeOK, CapturesAgree
  <2>3. \A c \in captured : arena[c[2]] = Code(rows'[c[1]])
    BY <1>7, <2>2
  <2> QED
    BY <1>4, <2>1, <2>3 DEF CapturesAgree, Code
<1>11. DerivedFromTheRows' /\ CentreHasRows'
  BY <1>4, <1>6 DEF Fresh, DerivedFromTheRows, CentreHasRows
<1> QED
  BY <1>8, <1>9, <1>10, <1>11 DEF CInv

LEMMA CalibrateStep ==
  ASSUME CInv, NEW d \in Dims, Calibrate(d)
  PROVE  CInv'
<1> DEFINE new == Reencoded(Codes(rows), calib + 1)
<1>1. /\ n \in Nat /\ rows \in Seq(Vector) /\ Len(rows) = n /\ calib \in Nat
      /\ Codes(rows) \in Seq(RowCode) /\ Len(Codes(rows)) = n
      /\ \A i \in 1 .. n : Codes(rows)[i] = Code(rows[i])
  BY RowsOf
<1>2. /\ rows' = rows /\ n' = n /\ calib' = calib + 1 /\ cursor' = cursor
      /\ arena' = <<>> /\ captured' = {} /\ dim' = d /\ tables' = d
      /\ scales' = Reencoded(scales, calib + 1)
      /\ packed' = IF n = 0 THEN packed ELSE <<Reencoded(PackedRows, calib + 1)>>
      /\ blocked' = IF n = 0 THEN blocked ELSE NoLayout
  BY DEF Calibrate
<1>3. Codes(rows)' = new
  <2>1. Codes(rows)' = [i \in 1 .. n |-> <<rows[i], calib + 1>>]
    BY <1>1, <1>2 DEF Codes, Code
  <2>2. DOMAIN Codes(rows) = 1 .. n /\ \A i \in 1 .. n : Codes(rows)[i][1] = rows[i]
    BY <1>1 DEF Code
  <2>3. new = [i \in 1 .. n |-> <<rows[i], calib + 1>>]
    BY <2>2 DEF Reencoded
  <2> QED
    BY <2>1, <2>3
<1>4. n = 0 => Codes(rows) = <<>> /\ new = <<>>
  BY <1>1 DEF Reencoded
<1>5. scales' = new
  BY <1>2 DEF CInv, LayoutsAgree
<1>6. packed' \in {<<>>, <<new>>} /\ (n > 0 => packed' # <<>>)
  BY <1>1, <1>2, <1>4, PackedIs
<1> HIDE DEF new
<1>7. /\ IsLayout(blocked') /\ blocked'.live \in BOOLEAN /\ (~ blocked'.live => blocked' = NoLayout)
      /\ (blocked'.live => n = 0 /\ Holds(blocked', new))
      /\ blocked'.centre = <<>>
      /\ blocked'.sample # <<>> =>
           n = 0 /\ blocked'.sample[1] = IF n < SampleMin THEN <<>> ELSE <<new, scales>>
  <2>1. CASE n = 0
    BY <1>2, <1>4, <2>1, GoodOf DEF Good
  <2>2. CASE n # 0
    BY <1>2, <2>2 DEF NoLayout, IsLayout
  <2> QED
    BY <2>1, <2>2
<1>8. n = 0 => scales = new
  BY <1>4 DEF CInv, LayoutsAgree
<1>9. CTypeOK'
  <2>1. d \in Nat /\ calib + 1 \in Nat /\ cursor \in Nat
    BY <1>1, CachesAssumption DEF CInv, CTypeOK
  <2>2. packed' = <<>> \/ packed' = <<packed'[1]>>
    BY <1>6
  <2>3. arena' \in Seq(RowCode) /\ captured' \subseteq (1 .. n') \X (1 .. Len(arena'))
    BY <1>2
  <2>4. rows' \in Seq(Vector) /\ dim' \in Nat /\ calib' \in Nat /\ cursor' \in Nat
    BY <1>1, <1>2, <2>1
  <2> QED
    BY <1>7, <2>2, <2>3, <2>4 DEF CTypeOK, IsLayout, NoLayout
<1>10. LayoutsAgree'
  <2>1. packed' # <<>> => packed'[1] = new
    BY <1>6
  <2> QED
    BY <1>1, <1>2, <1>3, <1>5, <1>6, <1>7, <2>1 DEF LayoutsAgree, Holds, Pad, Blocks, Zero
<1>11. CapturesAgree'
  <2>1. Len(arena') <= MaxOps
    BY <1>2, CachesAssumption
  <2> QED
    BY <1>2, <2>1 DEF CapturesAgree
<1>12. DerivedFromTheRows' /\ CentreHasRows'
  BY <1>2, <1>3, <1>5, <1>7, <1>8 DEF DerivedFromTheRows, CentreHasRows
<1> QED
  BY <1>9, <1>10, <1>11, <1>12 DEF CInv

(* What a removal leaves of the captures, and the one it makes.            *)
LEMMA RemovalCaptures ==
  ASSUME CInv, NEW i \in 1 .. n, SwapRemove(i)
  PROVE  /\ arena' \in Seq(RowCode) /\ Len(arena') <= MaxOps
         /\ captured' \subseteq (1 .. n - 1) \X (1 .. Len(arena'))
         /\ \A c \in captured' : arena'[c[2]] = Code(IF c[1] = i THEN rows[n] ELSE rows[c[1]])
         /\ \A c, e \in captured' : c # e => c[1] # e[1] /\ c[2] # e[2]
<1> DEFINE at == IF i = n THEN 0 ELSE CaptureAt(i)
           v == Lane(blocked, n)
           kept == Retired(i, n)
<1>1. /\ arena' = CASE at = 0 -> arena
                    [] at > Len(arena) -> Append(arena, v)
                    [] OTHER -> [arena EXCEPT ![at] = v]
      /\ captured' = kept \cup IF at = 0 THEN {} ELSE {<<i, at>>}
  BY DEF SwapRemove
<1>2. /\ n \in Nat /\ MaxOps \in Nat /\ arena \in Seq(RowCode) /\ Len(arena) \in Nat
      /\ Len(arena) <= MaxOps /\ captured \subseteq (1 .. n) \X (1 .. Len(arena))
      /\ \A c \in captured : arena[c[2]] = Code(rows[c[1]])
      /\ \A c, e \in captured : c # e => c[1] # e[1] /\ c[2] # e[2]
  BY RowsOf, CachesAssumption DEF CInv, CTypeOK, CapturesAgree
<1>3. \A c \in kept : c \in captured /\ c[1] # i /\ c[1] # n
  BY DEF Retired
<1>4. kept \subseteq (1 .. n - 1) \X (1 .. Len(arena))
  BY <1>2, <1>3
<1> HIDE DEF kept
<1>5. CASE at = 0
  <2>1. arena' = arena /\ captured' = kept
    BY <1>1, <1>5
  <2> QED
    BY <1>2, <1>3, <1>4, <2>1
<1>6. ASSUME at # 0
      PROVE  /\ i \in 1 .. n - 1 /\ v = Code(rows[n]) /\ v \in RowCode
             /\ at \in 1 .. Len(arena) + 1 /\ at <= MaxOps
             /\ \A c \in kept : c[2] # at
  <2> DEFINE own == {c \in captured : c[1] = i}
             o == CHOOSE c \in own : TRUE
  <2>1. i # n /\ packed = <<>> /\ at = IF own # {} THEN o[2]
                                      ELSE IF Len(arena) < MaxOps THEN Len(arena) + 1 ELSE 0
    BY <1>6 DEF CaptureAt
  <2>2. i \in 1 .. n - 1 /\ n \in 1 .. n /\ n > 0
    BY <1>2, <2>1
  <2>3. v = Code(rows[n]) /\ v \in RowCode
    <3>1. Holds(blocked, Codes(rows))
      BY <2>1, <2>2 DEF CInv, LayoutsAgree
    <3>2. v = Codes(rows)[n] /\ Codes(rows)[n] = Code(rows[n])
      BY <2>2, <3>1, RowsOf, LaneOf
    <3> QED
      BY <2>2, <3>2, RowsOf
  <2> HIDE DEF v, at
  <2>4. CASE own # {}
    <3>1. o \in own
      BY <2>4
    <3>2. at = o[2]
      BY <2>1, <2>4
    <3> HIDE DEF o
    <3>3. o \in captured /\ o[1] = i
      BY <3>1
    <3>4. at \in 1 .. Len(arena)
      BY <1>2, <3>2, <3>3
    <3>5. \A c \in kept : c \in captured /\ c # o
      BY <1>3, <3>3
    <3>6. \A c \in kept : c[2] # at
      BY <1>2, <3>2, <3>3, <3>5
    <3> QED
      BY <1>2, <2>2, <2>3, <3>4, <3>6
  <2>5. CASE own = {}
    <3>1. at = Len(arena) + 1 /\ Len(arena) < MaxOps
      BY <1>6, <2>1, <2>5 DEF at
    <3>2. \A c \in kept : c[2] # at
      BY <1>2, <1>4, <3>1
    <3> QED
      BY <1>2, <2>2, <2>3, <3>1, <3>2
  <2> QED
    BY <2>4, <2>5
<1>7. CASE at # 0
  <2> HIDE DEF at, v
  <2>1. captured' = kept \cup {<<i, at>>}
    BY <1>1, <1>7
  <2>2. /\ i \in 1 .. n - 1 /\ v = Code(rows[n]) /\ v \in RowCode
        /\ at \in 1 .. Len(arena) + 1 /\ at <= MaxOps
        /\ \A c \in kept : c[2] # at
    BY <1>6, <1>7
  <2>3. /\ arena' \in Seq(RowCode) /\ Len(arena) <= Len(arena') /\ at <= Len(arena')
        /\ Len(arena') <= MaxOps /\ arena'[at] = v
        /\ \A j \in 1 .. Len(arena) : j # at => arena'[j] = arena[j]
    <3>1. CASE at > Len(arena)
      <4>1. arena' = Append(arena, v) /\ at = Len(arena) + 1
        BY <1>1, <1>2, <1>7, <2>2, <3>1
      <4> QED
        BY <1>2, <2>2, <4>1, AppendProperties
    <3>2. CASE ~ (at > Len(arena))
      <4>1. at \in 1 .. Len(arena) /\ arena' = [arena EXCEPT ![at] = v]
        BY <1>1, <1>2, <1>7, <2>2, <3>2
      <4> QED
        BY <1>2, <2>2, <4>1
    <3> QED
      BY <3>1, <3>2
  <2>4. captured' \subseteq (1 .. n - 1) \X (1 .. Len(arena'))
    BY <1>2, <1>4, <2>1, <2>2, <2>3
  <2>5. ASSUME NEW c \in captured'
        PROVE  arena'[c[2]] = Code(IF c[1] = i THEN rows[n] ELSE rows[c[1]])
    <3>1. CASE c \in kept
      <4>1. c[2] \in 1 .. Len(arena) /\ c[2] # at /\ c[1] # i
        BY <1>3, <1>4, <2>2, <3>1
      <4> QED
        BY <1>2, <1>3, <2>3, <3>1, <4>1
    <3>2. CASE c = <<i, at>>
      BY <2>2, <2>3, <3>2
    <3> QED
      BY <2>1, <3>1, <3>2
  <2>6. ASSUME NEW c \in captured', NEW e \in captured', c # e
        PROVE  c[1] # e[1] /\ c[2] # e[2]
    BY <1>2, <1>3, <2>1, <2>2, <2>6
  <2> QED
    BY <2>3, <2>4, <2>5, <2>6
<1> QED
  BY <1>5, <1>7

LEMMA SwapRemoveStep ==
  ASSUME CInv, NEW i \in 1 .. MaxRows, SwapRemove(i)
  PROVE  CInv'
<1> DEFINE codes == Codes(rows)
           new == Filled(codes, i)
<1>1. /\ n \in Nat /\ rows \in Seq(Vector) /\ Len(rows) = n /\ calib \in Nat
      /\ codes \in Seq(RowCode) /\ Len(codes) = n
  BY RowsOf
<1>2. i \in 1 .. n
  BY <1>1, CachesAssumption DEF SwapRemove
<1>3. /\ rows' = Filled(rows, i) /\ n' = n - 1 /\ calib' = calib /\ cursor' = cursor
      /\ dim' = dim /\ tables' = tables /\ scales' = Filled(scales, i)
      /\ packed' = IF packed = <<>> THEN <<>> ELSE <<Filled(packed[1], i)>>
      /\ blocked' = IF blocked.live THEN Vacated(blocked, i, n) ELSE NoLayout
  BY DEF SwapRemove
<1>4. /\ rows' \in Seq(Vector) /\ Len(rows') = n - 1 /\ n - 1 \in Nat
      /\ \A j \in 1 .. n - 1 : rows'[j] = IF j = i THEN rows[n] ELSE rows[j]
  <2>1. n - 1 \in Nat
    BY <1>1, <1>2
  <2>2. /\ Filled(rows, i) \in Seq(Vector) /\ Len(Filled(rows, i)) = n - 1
        /\ \A j \in 1 .. n - 1 : Filled(rows, i)[j] = IF j = i THEN rows[n] ELSE rows[j]
    BY <1>1, <1>2, FilledOf
  <2> QED
    BY <1>3, <2>1, <2>2
<1>5. Codes(rows)' = new
  <2>1. Codes(rows)' = Codes(Filled(rows, i))
    BY <1>3 DEF Codes, Code
  <2> QED
    BY <1>1, <1>2, <2>1, CodesFilled
<1>6. packed' \in {<<>>, <<new>>} /\ scales' = new
  <2>1. scales = codes
    BY DEF CInv, LayoutsAgree
  <2> QED
    BY <1>3, <2>1, PackedIs
<1>7. /\ IsLayout(blocked') /\ blocked'.live \in BOOLEAN /\ (~ blocked'.live => blocked' = NoLayout)
      /\ (blocked'.live => Holds(blocked', new))
      /\ blocked'.sample = <<>> /\ blocked'.centre = <<>>
      /\ (blocked.live => blocked'.live)
  <2>1. CASE blocked.live
    <3>1. IsLayout(blocked) /\ blocked.live = TRUE /\ Holds(blocked, codes)
      BY <2>1, GoodOf DEF Good
    <3>2. Len(new) = n - 1
      BY <1>1, <1>2, FilledOf
    <3>3. First([Moved(Pad(codes), i, n) EXCEPT ![n] = Zero], Blocks(n - 1) * BlockRows) = Pad(new)
      BY <1>1, <1>2, VacatedData
    <3> HIDE DEF codes
    <3>4. Fresh(Vacated(blocked, i, n), new)
      BY <3>1, <3>2, <3>3, VacatedIsFresh
    <3> HIDE DEF new
    <3> QED
      BY <1>3, <2>1, <3>4 DEF Fresh, Holds
  <2>2. CASE ~ blocked.live
    BY <1>3, <2>2 DEF NoLayout, IsLayout
  <2> QED
    BY <2>1, <2>2
<1>8. n - 1 > 0 => packed' # <<>> \/ blocked'.live
  BY <1>1, <1>3, <1>7 DEF CInv, LayoutsAgree
<1> HIDE DEF new
<1>9. /\ arena' \in Seq(RowCode) /\ Len(arena') <= MaxOps
      /\ captured' \subseteq (1 .. n - 1) \X (1 .. Len(arena'))
      /\ \A c \in captured' : arena'[c[2]] = Code(IF c[1] = i THEN rows[n] ELSE rows[c[1]])
      /\ \A c, e \in captured' : c # e => c[1] # e[1] /\ c[2] # e[2]
  BY <1>2, RemovalCaptures
<1>10. CTypeOK'
  <2>1. dim' \in Nat /\ calib' \in Nat /\ cursor' \in Nat
    BY <1>3 DEF CInv, CTypeOK
  <2>2. packed' = <<>> \/ packed' = <<packed'[1]>>
    BY <1>6
  <2> QED
    BY <1>3, <1>4, <1>7, <1>9, <2>1, <2>2 DEF CTypeOK, IsLayout, NoLayout
<1>11. LayoutsAgree'
  <2>1. packed' # <<>> => packed'[1] = new
    BY <1>6
  <2> QED
    BY <1>3, <1>4, <1>5, <1>6, <1>7, <1>8, <2>1 DEF LayoutsAgree, Holds, Pad, Blocks, Zero
<1>12. CapturesAgree'
  <2>1. \A c \in captured' : c[1] \in 1 .. n - 1
    BY <1>9
  <2>2. \A c \in captured' : arena'[c[2]] = Code(rows'[c[1]])
    BY <1>4, <1>9, <2>1
  <2> QED
    BY <1>3, <1>9, <2>2 DEF CapturesAgree, Code
<1>13. DerivedFromTheRows' /\ CentreHasRows'
  BY <1>3, <1>7 DEF DerivedFromTheRows, CentreHasRows, CInv
<1> QED
  BY <1>10, <1>11, <1>12, <1>13 DEF CInv

LEMMA InitialCaches ==
  ASSUME CInit
  PROVE  CInv
<1>1. Codes(rows) = <<>>
  BY DEF CInit, Codes
<1>2. CTypeOK
  BY CachesAssumption DEF CInit, CTypeOK, NoLayout
<1>3. LayoutsAgree
  BY <1>1 DEF CInit, LayoutsAgree, NoLayout
<1>4. CapturesAgree
  BY CachesAssumption DEF CInit, CapturesAgree
<1>5. DerivedFromTheRows /\ CentreHasRows
  BY DEF CInit, DerivedFromTheRows, CentreHasRows, NoLayout
<1> QED
  BY <1>2, <1>3, <1>4, <1>5 DEF CInv

-----------------------------------------------------------------------------
(* CInv is inductive: every operation keeps the representations of the     *)
(* rows it leaves, or drops them.                                          *)
THEOREM CachesInvariance == CSpec => []CInv
<1>1. CInit => CInv
  BY InitialCaches
<1>2. CInv /\ [CNext]_cvars => CInv'
  <2> SUFFICES ASSUME CInv, [CNext]_cvars PROVE CInv'
    OBVIOUS
  <2>1. ASSUME NEW d \in Dims, NEW vs \in Batch, Add(d, vs) PROVE CInv'
    BY <2>1, AddStep
  <2>2. ASSUME NEW d \in Dims, AddPanics(d) PROVE CInv'
    BY <2>2, AddPanicsStep
  <2>3. ASSUME NEW d \in Dims, Calibrate(d) PROVE CInv'
    BY <2>3, CalibrateStep
  <2>4. ASSUME NEW d \in Dims, CalibrateRefused(d) PROVE CInv'
    BY <2>4, CalibrateRefusedStep
  <2>5. ASSUME NEW i \in 1 .. MaxRows, SwapRemove(i) PROVE CInv'
    BY <2>5, SwapRemoveStep
  <2>6. CASE MaterializePacked
    BY <2>6, MaterializeStep
  <2>7. CASE Prepare
    BY <2>7, PrepareStep
  <2>8. CASE Search
    BY <2>8, SearchStep
  <2>9. CASE Sync \/ SyncFails
    BY <2>9, SyncsStep
  <2>10. ASSUME NEW b \in BOOLEAN, Load(b) PROVE CInv'
    BY <2>10, LoadStep
  <2>11. CASE UNCHANGED cvars
    BY <2>11 DEF cvars, CInv, CTypeOK, LayoutsAgree, CapturesAgree, DerivedFromTheRows,
                 CentreHasRows, Codes, Code, Holds, Pad, Blocks, Zero, NoLayout
  <2> QED
    BY <2>1, <2>2, <2>3, <2>4, <2>5, <2>6, <2>7, <2>8, <2>9, <2>10, <2>11 DEF CNext
<1> QED
  BY <1>1, <1>2, PTL DEF CSpec

(* The layouts, the scales and what a search derives from them are of the  *)
(* rows the index has, and a sync reads those rows whatever it reads them  *)
(* from (lib.rs:31, lib.rs:1032, sync_v7_impl).                            *)
THEOREM CachesCorrect == CSpec => []CachesAgree
<1>1. CInv => CachesAgree
  BY ReadsTheRows DEF CachesAgree, CInv
<1> QED
  BY <1>1, CachesInvariance, PTL

=============================================================================
