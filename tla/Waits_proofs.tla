---------------------------- MODULE Waits_proofs ----------------------------
(***************************************************************************)
(* What threads wait for and share.  For any pool, any searches and any    *)
(* number of ranges: a call that has returned scanned every range once,    *)
(* under its seed, and left no task (PoolSpin).  For any walks, chunk      *)
(* sizes, image, damage and budget: every walk reads the rows of the       *)
(* commit, each once and in order, and the cache counts what it holds,     *)
(* keeps its budget and drops what was used longest ago (MappedChunks).    *)
(***************************************************************************)
EXTENDS PoolSpin, MappedChunks, FiniteSetTheorems, SequenceTheorems, WellFoundedInduction, TLAPS

-----------------------------------------------------------------------------
(* Stacks. *)

FrameAt(w, i) == stack[w][i]
Depth(w) == 1 .. Len(stack[w])

LEMMA TopFrame ==
  ASSUME PTypeOK, NEW w \in Workers, stack[w] # <<>>
  PROVE  /\ Len(stack[w]) \in Depth(w) /\ Top(w) = stack[w][Len(stack[w])]
         /\ Top(w) \in Frames
  BY DEF PTypeOK, Top, Depth

LEMMA EachFrame ==
  ASSUME PTypeOK, NEW w \in Workers, NEW i \in 1 .. Len(stack[w])
  PROVE  stack[w][i] \in Frames
  BY DEF PTypeOK

(* The frame that runs is exchanged for another, and no other changes.     *)
LEMMA Replaced ==
  ASSUME PTypeOK, NEW w \in Workers, stack[w] # <<>>, NEW f \in Frames,
         stack' = Replace(w, f)
  PROVE  /\ stack' \in [Workers -> Seq(Frames)]
         /\ \A v \in Workers : Len(stack'[v]) = Len(stack[v])
         /\ stack'[w][Len(stack[w])] = f
         /\ \A v \in Workers : \A i \in 1 .. Len(stack[v]) :
              ~ (v = w /\ i = Len(stack[w])) => stack'[v][i] = stack[v][i]
<1> DEFINE s == stack[w]
           t == [s EXCEPT ![Len(s)] = f]
<1>1. s \in Seq(Frames) /\ stack \in [Workers -> Seq(Frames)]
  BY DEF PTypeOK
<1>2. stack' = [stack EXCEPT ![w] = t]
  BY DEF Replace
<1>3. Len(s) \in 1 .. Len(s)
  BY <1>1
<1>4. t \in Seq(Frames) /\ Len(t) = Len(s) /\ t[Len(s)] = f
      /\ \A i \in 1 .. Len(s) : i # Len(s) => t[i] = s[i]
  BY <1>1, <1>3
<1> HIDE DEF t
<1>5. stack'[w] = t /\ \A v \in Workers : v # w => stack'[v] = stack[v]
  BY <1>1, <1>2
<1>6. stack' \in [Workers -> Seq(Frames)]
  BY <1>1, <1>2, <1>4
<1> QED
  BY <1>4, <1>5, <1>6

LEMMA Pushed ==
  ASSUME PTypeOK, NEW w \in Workers, NEW f \in Frames, stack' = Push(w, f)
  PROVE  /\ stack' \in [Workers -> Seq(Frames)]
         /\ Len(stack'[w]) = Len(stack[w]) + 1
         /\ stack'[w][Len(stack[w]) + 1] = f
         /\ \A i \in 1 .. Len(stack[w]) : stack'[w][i] = stack[w][i]
         /\ \A v \in Workers : v # w => stack'[v] = stack[v]
<1>1. stack[w] \in Seq(Frames) /\ stack \in [Workers -> Seq(Frames)]
  BY DEF PTypeOK
<1>2. stack'[w] = Append(stack[w], f) /\ \A v \in Workers : v # w => stack'[v] = stack[v]
  BY <1>1 DEF Push
<1>3. stack' \in [Workers -> Seq(Frames)]
  BY <1>1 DEF Push
<1> QED
  BY <1>1, <1>2, <1>3

LEMMA WithoutTop ==
  ASSUME NEW S, NEW s \in Seq(S), s # <<>>
  PROVE  LET t == SubSeq(s, 1, Len(s) - 1)
         IN /\ t \in Seq(S) /\ Len(t) = Len(s) - 1
            /\ \A i \in 1 .. Len(s) - 1 : t[i] = s[i]
<1>1. Len(s) - 1 \in Nat /\ \A i \in 1 .. Len(s) - 1 : s[i] \in S
  OBVIOUS
<1> DEFINE t == SubSeq(s, 1, Len(s) - 1)
           m == Len(s) - 1
<1>2. /\ t \in Seq(S)
      /\ Len(t) = IF 1 <= m THEN m - 1 + 1 ELSE 0
      /\ \A i \in 1 .. m - 1 + 1 : t[i] = s[1 + i - 1]
  BY <1>1, SubSeqProperties
<1> HIDE DEF t
<1>3. m \in Nat
  BY <1>1
<1>4. Len(t) = m /\ \A i \in 1 .. m : t[i] = s[i]
  <2> HIDE DEF m
  <2>1. Len(t) = m
    BY <1>2, <1>3
  <2>2. \A i \in 1 .. m : i \in 1 .. m - 1 + 1 /\ 1 + i - 1 = i
    BY <1>3
  <2>3. ASSUME NEW i \in 1 .. m PROVE t[i] = s[i]
    BY <1>2, <2>2
  <2> QED
    BY <2>1, <2>3
<1> QED
  BY <1>2, <1>4 DEF t

LEMMA Popped ==
  ASSUME PTypeOK, NEW w \in Workers, stack[w] # <<>>, stack' = Pop(w)
  PROVE  /\ stack' \in [Workers -> Seq(Frames)]
         /\ Len(stack'[w]) = Len(stack[w]) - 1
         /\ \A i \in 1 .. Len(stack'[w]) : stack'[w][i] = stack[w][i]
         /\ \A v \in Workers : v # w => stack'[v] = stack[v]
<1> DEFINE s == stack[w]
           t == SubSeq(s, 1, Len(s) - 1)
<1>1. s \in Seq(Frames) /\ stack \in [Workers -> Seq(Frames)] /\ Len(s) \in Nat \ {0}
  BY DEF PTypeOK
<1>2. t \in Seq(Frames) /\ Len(t) = Len(s) - 1
      /\ \A i \in 1 .. Len(s) - 1 : t[i] = s[i]
  BY <1>1, WithoutTop
<1>3. stack'[w] = t /\ \A v \in Workers : v # w => stack'[v] = stack[v]
  BY <1>1 DEF Pop
<1>4. stack' \in [Workers -> Seq(Frames)]
  BY <1>1, <1>2, <1>3 DEF Pop
<1> QED
  BY <1>1, <1>2, <1>3, <1>4

(* A task more or less leaves counts of tasks.                             *)
LEMMA SpawnTreeType ==
  ASSUME NEW N, NEW q \in [1 .. N -> Nat], NEW n
  PROVE  SpawnTree(q, n) \in [1 .. N -> Nat]
<1>1. CASE n = 0
  BY <1>1 DEF SpawnTree
<1>2. CASE n # 0
  <2>1. SpawnTree(q, n) = [q EXCEPT ![n] = q[n] + 1]
    BY <1>2 DEF SpawnTree
  <2>2. \A i \in 1 .. N : [q EXCEPT ![n] = q[n] + 1][i] \in Nat
    OBVIOUS
  <2> QED
    BY <2>1, <2>2
<1> QED
  BY <1>1, <1>2

LEMMA TakenType ==
  ASSUME NEW D, NEW q \in [D -> Nat], NEW n \in D, q[n] > 0
  PROVE  n \in DOMAIN q /\ q[n] # 0 /\ Taken(q, n) \in [D -> Nat]
<1>1. q[n] \in Nat
  OBVIOUS
<1>2. q[n] - 1 \in Nat /\ q[n] # 0
  BY <1>1
<1> QED
  BY <1>2 DEF Taken

LEMMA FrameType ==
  ASSUME NEW c \in Calls, NEW role \in {"owner", "helper"},
         NEW p \in {"pre", "gate", "claim", "work", "wait"}
  PROVE  /\ Frame(c, role, p, 0) \in Frames
         /\ Frame(c, role, p, 0).call = c /\ Frame(c, role, p, 0).role = role
         /\ Frame(c, role, p, 0).pc = p
  BY DEF Frame, Frames

(* A call that does not run has no frame.                                  *)
LEMMA OnlyRunning ==
  ASSUME SpinInv, NEW c \in Calls, call[c] # "running"
  PROVE  \A w \in Workers : \A i \in 1 .. Len(stack[w]) : stack[w][i].call # c
  BY DEF SpinInv, FrameInv, Fine

LEMMA SpinInvSuffices == SpinInv => EveryItemRanOnce
<1> SUFFICES ASSUME SpinInv, NEW c \in Calls, call[c] = "returned"
             PROVE  /\ \A i \in Range1(c) : slot[c][i] = <<TRUE>>
                    /\ \A n \in DOMAIN queue[c] : queue[c][n] = 0
                    /\ \A w \in Workers : \A i \in 1 .. Len(stack[w]) : stack[w][i].call # c
  BY DEF EveryItemRanOnce
<1> QED
  BY OnlyRunning DEF SpinInv, CallInv, CallFine

LEMMA InitSpinInv == SpinInit => SpinInv
<1> SUFFICES ASSUME SpinInit PROVE SpinInv
  OBVIOUS
<1>1. \A w \in Workers : stack[w] = <<>> /\ Len(stack[w]) = 0
  BY DEF SpinInit
<1>2. PTypeOK
  BY ItemsAssumption DEF SpinInit, PTypeOK, Range1
<1>3. FrameInv /\ OneEach
  BY <1>1 DEF FrameInv, OneEach
<1>4. CallInv
  BY ItemsAssumption DEF SpinInit, CallInv, CallFine, Range1
<1> QED
  BY <1>2, <1>3, <1>4 DEF SpinInv

-----------------------------------------------------------------------------
(* Each step. *)

LEMMA SerialKeeps ==
  ASSUME SpinInv, NEW w \in Workers, NEW c \in Calls, Serial(w, c)
  PROVE  SpinInv'
<1>1. \A v \in Workers : \A i \in 1 .. Len(stack[v]) : stack[v][i].call # c
  BY OnlyRunning DEF Serial
<1>2. PTypeOK'
  BY DEF SpinInv, PTypeOK, Serial, Range1
<1>3. FrameInv'
  <2> SUFFICES ASSUME NEW v \in Workers, NEW i \in 1 .. Len(stack[v])
               PROVE  Fine(stack[v][i])'
    BY DEF SpinInv, FrameInv, Serial, Waits, Fine
  <2>1. stack[v][i] \in Frames /\ stack[v][i].call # c
    BY <1>1, EachFrame DEF SpinInv
  <2>2. stack[v][i].call \in Calls
    BY <2>1 DEF Frames
  <2>3. /\ call'[stack[v][i].call] = call[stack[v][i].call]
        /\ slot'[stack[v][i].call] = slot[stack[v][i].call]
    BY <2>1, <2>2 DEF Serial, SpinInv, PTypeOK
  <2> QED
    BY <2>3 DEF SpinInv, FrameInv, Fine, Serial
<1>4. OneEach'
  BY DEF SpinInv, OneEach, Serial, Rival
<1>5. CallInv'
  <2> SUFFICES ASSUME NEW d \in Calls PROVE CallFine(d)'
    BY DEF CallInv
  <2>0. \A i : AtWork(d, i)' <=> AtWork(d, i)
    BY DEF AtWork, Serial
  <2>1. CASE d = c
    BY <2>1 DEF SpinInv, PTypeOK, CallInv, CallFine, Serial, Range1
  <2>2. CASE d # c
    BY <2>0, <2>2 DEF SpinInv, PTypeOK, CallInv, CallFine, Serial, Range1
  <2> QED
    BY <2>1, <2>2
<1> QED
  BY <1>2, <1>3, <1>4, <1>5 DEF SpinInv

(* A worker that may take work has only frames that wait.                  *)
LEMMA AllWait ==
  ASSUME SpinInv, NEW w \in Workers, MayTake(w), NEW i \in 1 .. Len(stack[w])
  PROVE  Waits(stack[w][i])
<1>1. stack[w] \in Seq(Frames)
  BY DEF SpinInv, PTypeOK
<1>2. stack[w] # <<>> /\ Len(stack[w]) \in Nat
  BY <1>1
<1>3. CASE i = Len(stack[w])
  BY <1>2, <1>3 DEF MayTake, Top, Waits
<1>4. CASE i < Len(stack[w])
  BY <1>4 DEF SpinInv, FrameInv
<1> QED
  BY <1>2, <1>3, <1>4

(* A frame put on top of frames that wait.                                 *)
LEMMA PushFrames ==
  ASSUME SpinInv, NEW w \in Workers, MayTake(w), NEW f \in Frames, stack' = Push(w, f),
         f.pc \in {"pre", "gate"}, call'[f.call] = "running",
         \A c \in Calls : call[c] = "running" => call'[c] = "running",
         \A v \in Workers : \A i \in 1 .. Len(stack[v]) : ~ Rival(stack[v][i], f),
         UNCHANGED <<go, next, slot>>
  PROVE  FrameInv' /\ OneEach' /\ (\A c \in Calls : \A i \in Range1(c) : AtWork(c, i)' <=> AtWork(c, i))
<1> DEFINE k == Len(stack[w]) + 1
<1>1. /\ stack' \in [Workers -> Seq(Frames)]
      /\ Len(stack'[w]) = k /\ stack'[w][k] = f
      /\ \A i \in 1 .. Len(stack[w]) : stack'[w][i] = stack[w][i]
      /\ \A v \in Workers : v # w => stack'[v] = stack[v]
  BY Pushed DEF SpinInv
<1>2. \A v \in Workers : Len(stack[v]) \in Nat
  BY DEF SpinInv, PTypeOK
<1>3. \A v \in Workers : \A i \in 1 .. Len(stack'[v]) :
         \/ v = w /\ i = k /\ stack'[v][i] = f
         \/ i \in 1 .. Len(stack[v]) /\ stack'[v][i] = stack[v][i]
  <2> SUFFICES ASSUME NEW v \in Workers, NEW i \in 1 .. Len(stack'[v])
               PROVE  \/ v = w /\ i = k /\ stack'[v][i] = f
                      \/ i \in 1 .. Len(stack[v]) /\ stack'[v][i] = stack[v][i]
    OBVIOUS
  <2>1. CASE v = w
    <3>1. i = k \/ i \in 1 .. Len(stack[w]) BY <1>1, <1>2, <2>1
    <3> QED BY <1>1, <2>1, <3>1
  <2>2. CASE v # w BY <1>1, <2>2
  <2> QED BY <2>1, <2>2
<1>4. \A v \in Workers : \A i \in 1 .. Len(stack[v]) :
         i \in 1 .. Len(stack'[v]) /\ stack'[v][i] = stack[v][i] /\ ~ (v = w /\ i = k)
  BY <1>1, <1>2
<1>5. FrameInv'
  <2> SUFFICES ASSUME NEW v \in Workers, NEW i \in 1 .. Len(stack'[v])
               PROVE  /\ Fine(stack[v][i])'
                      /\ i < Len(stack'[v]) =>
                           Waits(stack'[v][i])
    BY DEF FrameInv, Fine, Waits
  <2>1. CASE v = w /\ i = k /\ stack'[v][i] = f
    BY <2>1, <1>1, <1>2 DEF Fine
  <2>2. CASE i \in 1 .. Len(stack[v]) /\ stack'[v][i] = stack[v][i]
    <3>1. Fine(stack[v][i]) /\ stack[v][i].call \in Calls
      BY <2>2, EachFrame DEF SpinInv, Frames, FrameInv
    <3>2. Fine(stack[v][i])'
      BY <2>2, <3>1 DEF Fine
    <3>3. CASE v = w
      BY <3>2, <3>3, <2>2, AllWait
    <3>4. CASE v # w
      BY <3>2, <3>4, <2>2, <1>1 DEF SpinInv, FrameInv
    <3> QED
      BY <3>3, <3>4
  <2> QED
    BY <2>1, <2>2, <1>3
<1>6. OneEach'
  <2>1. \A g \in Frames : Rival(f, g) <=> Rival(g, f)
    BY DEF Rival
  <2> SUFFICES ASSUME NEW v \in Workers, NEW i \in 1 .. Len(stack'[v]),
                      NEW u \in Workers, NEW j \in 1 .. Len(stack'[u]),
                      Rival(stack'[v][i], stack'[u][j])
               PROVE  v = u /\ i = j
    BY DEF OneEach, Rival
  <2>2. CASE i \in 1 .. Len(stack[v]) /\ stack'[v][i] = stack[v][i]
    <3>1. CASE j \in 1 .. Len(stack[u]) /\ stack'[u][j] = stack[u][j]
      BY <2>2, <3>1 DEF SpinInv, OneEach
    <3> QED
      BY <2>2, <3>1, <1>3
  <2>3. CASE v = w /\ i = k /\ stack'[v][i] = f
    <3>1. CASE j \in 1 .. Len(stack[u]) /\ stack'[u][j] = stack[u][j]
      <4>1. stack[u][j] \in Frames
        BY <3>1, EachFrame DEF SpinInv
      <4> QED
        BY <2>3, <3>1, <4>1, <2>1
    <3> QED
      BY <2>3, <3>1, <1>3
  <2> QED
    BY <2>2, <2>3, <1>3
<1>7. ASSUME NEW c \in Calls, NEW i \in Range1(c)
      PROVE  AtWork(c, i)' <=> AtWork(c, i)
  <2>1. ASSUME AtWork(c, i) PROVE AtWork(c, i)'
    <3>0. PICK v \in Workers : \E j \in 1 .. Len(stack[v]) :
             stack[v][j].call = c /\ stack[v][j].pc = "work" /\ stack[v][j].n = i
      BY <2>1 DEF AtWork
    <3>1. PICK j \in 1 .. Len(stack[v]) :
             stack[v][j].call = c /\ stack[v][j].pc = "work" /\ stack[v][j].n = i
      BY <3>0
    <3>2. j \in 1 .. Len(stack'[v]) /\ stack'[v][j] = stack[v][j]
      BY <1>4
    <3> QED
      BY <3>1, <3>2 DEF AtWork
  <2>2. ASSUME AtWork(c, i)' PROVE AtWork(c, i)
    <3>0. PICK v \in Workers : \E j \in 1 .. Len(stack'[v]) :
             stack'[v][j].call = c /\ stack'[v][j].pc = "work" /\ stack'[v][j].n = i
      BY <2>2 DEF AtWork
    <3>1. PICK j \in 1 .. Len(stack'[v]) :
             stack'[v][j].call = c /\ stack'[v][j].pc = "work" /\ stack'[v][j].n = i
      BY <3>0
    <3>2. j \in 1 .. Len(stack[v]) /\ stack'[v][j] = stack[v][j]
      BY <3>1, <1>3
    <3> QED
      BY <3>1, <3>2 DEF AtWork
  <2> QED
    BY <2>1, <2>2
<1> QED
  BY <1>5, <1>6, <1>7

(* The frame that runs becomes another of its call, and what the step does *)
(* to the rest hurts none but a rival.                                     *)
LEMMA ReplaceFrames ==
  ASSUME SpinInv, NEW w \in Workers, stack[w] # <<>>, NEW f \in Frames,
         stack' = Replace(w, f), Fine(f)',
         \A g \in Frames : Fine(g) /\ ~ Rival(g, Top(w)) => Fine(g)' /\ ~ Rival(g, f)
  PROVE  /\ FrameInv' /\ OneEach'
         /\ f.pc = "work" => AtWork(f.call, f.n)'
         /\ \A c \in Calls : \A i \in Range1(c) :
              AtWork(c, i) /\ ~ (Top(w).call = c /\ Top(w).pc = "work" /\ Top(w).n = i)
              => AtWork(c, i)'
<1> DEFINE k == Len(stack[w])
<1>1. /\ stack' \in [Workers -> Seq(Frames)]
      /\ \A v \in Workers : Len(stack'[v]) = Len(stack[v])
      /\ stack'[w][k] = f
      /\ \A v \in Workers : \A i \in 1 .. Len(stack[v]) :
           ~ (v = w /\ i = k) => stack'[v][i] = stack[v][i]
  BY Replaced DEF SpinInv
<1>2. k \in 1 .. Len(stack[w]) /\ Top(w) = stack[w][k] /\ Top(w) \in Frames
  BY TopFrame DEF SpinInv, Depth
<1>3. \A v \in Workers : \A i \in 1 .. Len(stack[v]) :
        /\ stack[v][i] \in Frames /\ Fine(stack[v][i])
        /\ ~ (v = w /\ i = k) => ~ Rival(stack[v][i], Top(w))
  BY <1>2, EachFrame DEF SpinInv, OneEach, FrameInv
<1>4. \A v \in Workers : \A i \in 1 .. Len(stack[v]) :
        ~ (v = w /\ i = k) => /\ Fine(stack[v][i])' /\ ~ Rival(stack'[v][i], f)
                             /\ stack'[v][i] = stack[v][i]
  <2> SUFFICES ASSUME NEW v \in Workers, NEW i \in 1 .. Len(stack[v]), ~ (v = w /\ i = k)
               PROVE  /\ Fine(stack[v][i])' /\ ~ Rival(stack'[v][i], f)
                      /\ stack'[v][i] = stack[v][i]
    OBVIOUS
  <2> DEFINE g == stack[v][i]
  <2>1. stack'[v][i] = g
    BY <1>1
  <2>2. g \in Frames /\ Fine(g) /\ ~ Rival(g, Top(w))
    BY <1>3
  <2>3. PICK x \in Frames : x = g
    BY <2>2
  <2>4. Fine(x)' /\ ~ Rival(x, f)
    BY <2>2, <2>3
  <2>5. Fine(stack[v][i])'
    BY <2>1, <2>3, <2>4 DEF Fine
  <2> QED
    BY <2>1, <2>3, <2>4, <2>5
<1>5. FrameInv'
  <2> SUFFICES ASSUME NEW v \in Workers, NEW i \in 1 .. Len(stack[v])
               PROVE  /\ Fine(stack[v][i])'
                      /\ i < Len(stack[v]) => Waits(stack'[v][i])
    BY <1>1 DEF FrameInv, Fine, Waits
  <2>1. CASE v = w /\ i = k
    BY <2>1, <1>1, <1>2 DEF Fine
  <2>2. CASE ~ (v = w /\ i = k)
    BY <2>2, <1>4 DEF SpinInv, FrameInv
  <2> QED
    BY <2>1, <2>2
<1>6. OneEach'
  <2> SUFFICES ASSUME NEW v \in Workers, NEW i \in 1 .. Len(stack[v]),
                      NEW u \in Workers, NEW j \in 1 .. Len(stack[u]),
                      Rival(stack'[v][i], stack'[u][j])
               PROVE  v = u /\ i = j
    BY <1>1 DEF OneEach, Rival
  <2>1. Rival(stack'[u][j], stack'[v][i])
    BY DEF Rival
  <2>2. CASE v = w /\ i = k
    BY <2>1, <2>2, <1>1, <1>4
  <2>3. CASE u = w /\ j = k
    BY <2>3, <1>1, <1>4
  <2>4. CASE ~ (v = w /\ i = k) /\ ~ (u = w /\ j = k)
    BY <2>4, <1>4 DEF SpinInv, OneEach
  <2> QED
    BY <2>2, <2>3, <2>4
<1>7. f.pc = "work" => AtWork(f.call, f.n)'
  BY <1>1, <1>2 DEF AtWork
<1>8. ASSUME NEW c \in Calls, NEW i \in Range1(c), AtWork(c, i),
             ~ (Top(w).call = c /\ Top(w).pc = "work" /\ Top(w).n = i)
      PROVE  AtWork(c, i)'
  <2>1. PICK v \in Workers : \E j \in 1 .. Len(stack[v]) :
           stack[v][j].call = c /\ stack[v][j].pc = "work" /\ stack[v][j].n = i
    BY <1>8 DEF AtWork
  <2>2. PICK j \in 1 .. Len(stack[v]) :
           stack[v][j].call = c /\ stack[v][j].pc = "work" /\ stack[v][j].n = i
    BY <2>1
  <2>3. ~ (v = w /\ j = k)
    BY <2>2, <1>2, <1>8
  <2>4. j \in 1 .. Len(stack'[v]) /\ stack'[v][j] = stack[v][j]
    BY <2>3, <1>1
  <2> QED
    BY <2>2, <2>4 DEF AtWork
<1> QED
  BY <1>5, <1>6, <1>7, <1>8

(* The frame that runs ends.                                               *)
LEMMA PopFrames ==
  ASSUME SpinInv, NEW w \in Workers, stack[w] # <<>>, stack' = Pop(w),
         Top(w).pc # "work", UNCHANGED <<go, next, slot>>,
         \A v \in Workers : \A i \in 1 .. Len(stack[v]) :
           ~ (v = w /\ i = Len(stack[w])) => call'[stack[v][i].call] = "running"
  PROVE  /\ FrameInv' /\ OneEach'
         /\ \A c \in Calls : \A i \in Range1(c) : AtWork(c, i) => AtWork(c, i)'
<1> DEFINE k == Len(stack[w])
<1>1. /\ Len(stack'[w]) = k - 1
      /\ \A i \in 1 .. Len(stack'[w]) : stack'[w][i] = stack[w][i]
      /\ \A v \in Workers : v # w => stack'[v] = stack[v]
  BY Popped DEF SpinInv
<1>2. k \in 1 .. Len(stack[w]) /\ Top(w) = stack[w][k]
  BY TopFrame DEF SpinInv, Depth
<1>3. \A v \in Workers : Len(stack[v]) \in Nat
  BY DEF SpinInv, PTypeOK
<1>4. \A v \in Workers : \A i \in 1 .. Len(stack'[v]) :
        /\ i \in 1 .. Len(stack[v]) /\ stack'[v][i] = stack[v][i] /\ ~ (v = w /\ i = k)
        /\ i < Len(stack'[v]) => i < Len(stack[v])
  BY <1>1, <1>2, <1>3
<1>5. FrameInv'
  <2> SUFFICES ASSUME NEW v \in Workers, NEW i \in 1 .. Len(stack'[v])
               PROVE  Fine(stack[v][i])' /\ (i < Len(stack'[v]) => Waits(stack'[v][i]))
    BY DEF FrameInv, Fine, Waits
  <2>1. Fine(stack[v][i]) /\ (i < Len(stack[v]) => Waits(stack[v][i]))
    BY <1>4 DEF SpinInv, FrameInv
  <2>2. call'[stack[v][i].call] = "running"
    BY <1>4
  <2> QED
    BY <2>1, <2>2, <1>4 DEF Fine
<1>6. OneEach'
  <2> SUFFICES ASSUME NEW v \in Workers, NEW i \in 1 .. Len(stack'[v]),
                      NEW u \in Workers, NEW j \in 1 .. Len(stack'[u]),
                      Rival(stack'[v][i], stack'[u][j])
               PROVE  v = u /\ i = j
    BY DEF OneEach, Rival
  <2> QED
    BY <1>4 DEF SpinInv, OneEach
<1>7. ASSUME NEW c \in Calls, NEW i \in Range1(c), AtWork(c, i)
      PROVE  AtWork(c, i)'
  <2>1. PICK v \in Workers : \E j \in 1 .. Len(stack[v]) :
           stack[v][j].call = c /\ stack[v][j].pc = "work" /\ stack[v][j].n = i
    BY <1>7 DEF AtWork
  <2>2. PICK j \in 1 .. Len(stack[v]) :
           stack[v][j].call = c /\ stack[v][j].pc = "work" /\ stack[v][j].n = i
    BY <2>1
  <2>3. ~ (v = w /\ j = k)
    BY <2>2, <1>2
  <2>4. j \in 1 .. Len(stack'[v]) /\ stack'[v][j] = stack[v][j]
    BY <2>3, <1>1, <1>3
  <2> QED
    BY <2>2, <2>4 DEF AtWork
<1> QED
  BY <1>5, <1>6, <1>7

LEMMA StartKeeps ==
  ASSUME SpinInv, NEW w \in Workers, NEW c \in Calls, Start(w, c)
  PROVE  SpinInv'
<1> DEFINE f == Frame(c, "owner", "pre", 0)
<1>1. f \in Frames /\ f.call = c /\ f.role = "owner" /\ f.pc = "pre"
  BY FrameType
<1>2. /\ MayTake(w) /\ call[c] = "new" /\ stack' = Push(w, f)
      /\ call' = [call EXCEPT ![c] = "running"]
      /\ queue' = [queue EXCEPT ![c] = SpawnTree(@, Helpers(c))]
      /\ UNCHANGED <<go, seed, next, slot>>
  BY DEF Start
<1> HIDE DEF f
<1>3. /\ call \in [Calls -> {"new", "running", "returned"}]
      /\ queue \in [Calls -> [1 .. Cardinality(Workers) -> Nat]]
  BY DEF SpinInv, PTypeOK
<1>4. call'[c] = "running" /\ \A d \in Calls : d # c => call'[d] = call[d]
  BY <1>2, <1>3
<1>5. \A v \in Workers : \A i \in 1 .. Len(stack[v]) : ~ Rival(stack[v][i], f)
  BY <1>1, <1>2, OnlyRunning DEF Rival
<1>6. /\ FrameInv' /\ OneEach'
      /\ \A d \in Calls : \A i \in Range1(d) : AtWork(d, i)' <=> AtWork(d, i)
  BY <1>1, <1>2, <1>4, <1>5, PushFrames
<1>7. PTypeOK'
  <2>1. stack' \in [Workers -> Seq(Frames)]
    BY <1>1, <1>2, Pushed DEF SpinInv
  <2>2. SpawnTree(queue[c], Helpers(c)) \in [1 .. Cardinality(Workers) -> Nat]
    BY <1>3, SpawnTreeType
  <2>3. queue' \in [Calls -> [1 .. Cardinality(Workers) -> Nat]]
    BY <1>2, <1>3, <2>2
  <2>4. call' \in [Calls -> {"new", "running", "returned"}]
    BY <1>2, <1>3
  <2> QED
    BY <1>2, <2>1, <2>3, <2>4 DEF SpinInv, PTypeOK, Range1
<1>8. CallInv'
  <2> SUFFICES ASSUME NEW d \in Calls PROVE CallFine(d)'
    BY DEF CallInv
  <2>1. CallFine(d)
    BY DEF SpinInv, CallInv
  <2>2. d # c => queue'[d] = queue[d]
    BY <1>2, <1>3
  <2> QED
    BY <1>2, <1>4, <1>6, <2>1, <2>2 DEF CallFine, Range1
<1> QED
  BY <1>6, <1>7, <1>8 DEF SpinInv

LEMMA TakeTaskKeeps ==
  ASSUME SpinInv, NEW w \in Workers, NEW c \in Calls, NEW n \in 1 .. Cardinality(Workers),
         TakeTask(w, c, n)
  PROVE  SpinInv'
<1> DEFINE f == Frame(c, "helper", "gate", 0)
           q == Taken(queue[c], n)
<1>1. f \in Frames /\ f.call = c /\ f.role = "helper" /\ f.pc = "gate"
  BY FrameType
<1>2. /\ MayTake(w) /\ queue[c][n] > 0 /\ stack' = Push(w, f)
      /\ queue' = [queue EXCEPT ![c] =
                     SpawnTree(SpawnTree(Taken(@, n), Left(n)), Right(n))]
      /\ UNCHANGED <<call, go, seed, next, slot>>
  BY DEF TakeTask
<1> HIDE DEF f
<1>3. queue \in [Calls -> [1 .. Cardinality(Workers) -> Nat]]
  BY DEF SpinInv, PTypeOK
<1>4. call[c] = "running"
  <2>1. queue[c] \in [1 .. Cardinality(Workers) -> Nat]
    BY <1>3
  <2>2. n \in DOMAIN queue[c] /\ queue[c][n] # 0
    <3> DEFINE D == 1 .. Cardinality(Workers)
               p == queue[c]
    <3>1. p \in [D -> Nat] /\ n \in D /\ p[n] > 0
      BY <1>2, <2>1
    <3> HIDE DEF D, p
    <3>2. n \in DOMAIN p /\ p[n] # 0
      BY <3>1, TakenType
    <3> QED
      BY <3>2 DEF p
  <2>3. CallFine(c)
    BY DEF SpinInv, CallInv
  <2> QED
    BY <2>2, <2>3 DEF CallFine
<1>5. \A v \in Workers : \A i \in 1 .. Len(stack[v]) : ~ Rival(stack[v][i], f)
  BY <1>1 DEF Rival
<1>6. /\ FrameInv' /\ OneEach'
      /\ \A d \in Calls : \A i \in Range1(d) : AtWork(d, i)' <=> AtWork(d, i)
  BY <1>1, <1>2, <1>4, <1>5, PushFrames
<1>7. PTypeOK'
  <2>1. stack' \in [Workers -> Seq(Frames)]
    BY <1>1, <1>2, Pushed DEF SpinInv
  <2>2. q \in [1 .. Cardinality(Workers) -> Nat]
    <3>1. queue[c] \in [1 .. Cardinality(Workers) -> Nat]
      BY <1>3
    <3> QED
      BY <1>2, <3>1, TakenType
  <2> HIDE DEF q
  <2>3. SpawnTree(SpawnTree(q, Left(n)), Right(n)) \in [1 .. Cardinality(Workers) -> Nat]
    BY <2>2, SpawnTreeType
  <2>4. queue'[c] \in [1 .. Cardinality(Workers) -> Nat]
    BY <1>2, <1>3, <2>3 DEF q
  <2>5. queue' \in [Calls -> [1 .. Cardinality(Workers) -> Nat]]
    <3>1. DOMAIN queue' = Calls /\ \A d \in Calls : d # c => queue'[d] = queue[d]
      BY <1>2, <1>3
    <3> QED
      BY <1>2, <1>3, <2>4, <3>1
  <2> QED
    BY <1>2, <2>1, <2>5 DEF SpinInv, PTypeOK, Range1
<1>8. CallInv'
  <2> SUFFICES ASSUME NEW d \in Calls PROVE CallFine(d)'
    BY DEF CallInv
  <2>1. CallFine(d)
    BY DEF SpinInv, CallInv
  <2>2. d # c => queue'[d] = queue[d]
    BY <1>2, <1>3
  <2> QED
    BY <1>2, <1>4, <1>6, <2>1, <2>2 DEF CallFine, Range1
<1> QED
  BY <1>6, <1>7, <1>8 DEF SpinInv

(* What the running frame of an invariant state is.                        *)
LEMMA TopFine ==
  ASSUME SpinInv, NEW w \in Workers, stack[w] # <<>>
  PROVE  /\ Top(w) \in Frames /\ Top(w).call \in Calls /\ Fine(Top(w))
         /\ Items[Top(w).call] \in Nat
<1>1. /\ Len(stack[w]) \in 1 .. Len(stack[w]) /\ Top(w) = stack[w][Len(stack[w])]
      /\ Top(w) \in Frames
  BY TopFrame DEF SpinInv, Depth
<1>2. Fine(Top(w))
  BY <1>1 DEF SpinInv, FrameInv
<1> QED
  BY <1>1, <1>2, ItemsAssumption DEF Frames

(* A frame goes on to another point of its code.                           *)
LEMMA GotoFrame ==
  ASSUME SpinInv, NEW w \in Workers, stack[w] # <<>>,
         NEW p \in {"pre", "gate", "claim", "work", "wait"}
  PROVE  \E f \in Frames : /\ f = [Top(w) EXCEPT !.pc = p] /\ f.call = Top(w).call
                           /\ f.role = Top(w).role /\ f.pc = p
<1> DEFINE f == [Top(w) EXCEPT !.pc = p]
<1>1. f \in Frames /\ f.call = Top(w).call /\ f.role = Top(w).role /\ f.pc = p
  BY TopFine DEF Frames
<1> QED
  BY <1>1, Zenon

LEMMA WorkFrame ==
  ASSUME SpinInv, NEW w \in Workers, stack[w] # <<>>, NEW n \in Nat
  PROVE  \E f \in Frames : /\ f = WorkOn(Top(w), n)
                           /\ f.call = Top(w).call /\ f.role = Top(w).role
                           /\ f.pc = "work" /\ f.n = n
<1> DEFINE f == WorkOn(Top(w), n)
<1>1. /\ f \in Frames /\ f.call = Top(w).call /\ f.role = Top(w).role
      /\ f.pc = "work" /\ f.n = n
  BY TopFine DEF Frames, WorkOn
<1> QED
  BY <1>1, Zenon

(* A frame that does not come to work rivals nothing its place did not.    *)
LEMMA NoNewRival ==
  ASSUME NEW g \in Frames, NEW f \in Frames, NEW t \in Frames,
         f.call = t.call, f.role = t.role, f.pc # "work", ~ Rival(g, t)
  PROVE  ~ Rival(g, f)
  BY DEF Rival

LEMMA OwnerPreKeeps ==
  ASSUME SpinInv, NEW w \in Workers, OwnerPre(w)
  PROVE  SpinInv'
<1>1. /\ stack[w] # <<>> /\ Top(w).role = "owner" /\ Top(w).pc = "pre"
      /\ UNCHANGED <<call, queue, next, slot>>
  BY DEF OwnerPre, Runs
<1>2. Top(w) \in Frames /\ Top(w).call \in Calls /\ Fine(Top(w))
  BY <1>1, TopFine
<1>c. PICK c \in Calls : c = Top(w).call
  BY <1>2
<1>3. CASE ~ seed[c] /\ seed' = [seed EXCEPT ![c] = TRUE] /\ UNCHANGED <<go, stack>>
  <2>1. PTypeOK'
    BY <1>1, <1>2, <1>3 DEF SpinInv, PTypeOK, Range1
  <2>2. FrameInv' /\ OneEach'
    BY <1>1, <1>3 DEF SpinInv, FrameInv, Fine, Waits, OneEach, Rival
  <2>3. \A d \in Calls : seed[d] => seed'[d]
    BY <1>3 DEF SpinInv, PTypeOK
  <2>4. CallInv'
    <3> SUFFICES ASSUME NEW d \in Calls PROVE CallFine(d)'
      BY DEF CallInv
    <3>1. CallFine(d) /\ \A i : AtWork(d, i)' <=> AtWork(d, i)
      BY <1>3 DEF SpinInv, CallInv, AtWork
    <3>2. go'[d] => seed'[d]
      BY <1>3, <2>3, <3>1 DEF CallFine
    <3> QED
      BY <1>1, <3>1, <3>2 DEF CallFine, Range1
  <2> QED
    BY <2>1, <2>2, <2>4 DEF SpinInv
<1>4. CASE seed[c] /\ go' = [go EXCEPT ![c] = TRUE] /\ stack' = Goto(w, "claim")
           /\ UNCHANGED seed
  <2>1. PICK f \in Frames : /\ f = [Top(w) EXCEPT !.pc = "claim"]
                           /\ f.call = c /\ f.role = Top(w).role /\ f.pc = "claim"
    BY <1>1, <1>c, GotoFrame
  <2>2. stack' = Replace(w, f)
    BY <1>4, <2>1 DEF Goto
  <2>3. go'[c] /\ \A d \in Calls : go[d] => go'[d]
    BY <1>4 DEF SpinInv, PTypeOK
  <2>4. \A g \in Frames : Fine(g) => Fine(g)'
    BY <1>1, <2>3 DEF Fine, Frames
  <2>5. Fine(f)'
    BY <1>1, <1>2, <1>c, <2>1, <2>3 DEF Fine
  <2>6. \A g \in Frames : ~ Rival(g, Top(w)) => ~ Rival(g, f)
    BY <1>2, <1>c, <2>1, NoNewRival
  <2>7. /\ FrameInv' /\ OneEach'
        /\ \A d \in Calls : \A i \in Range1(d) : AtWork(d, i) => AtWork(d, i)'
    BY <1>1, <2>2, <2>4, <2>5, <2>6, ReplaceFrames
  <2>8. PTypeOK'
    <3>1. stack' \in [Workers -> Seq(Frames)]
      BY <1>1, <2>2, Replaced DEF SpinInv
    <3>2. go' \in [Calls -> BOOLEAN]
      BY <1>4 DEF SpinInv, PTypeOK
    <3> QED
      BY <1>1, <1>4, <3>1, <3>2 DEF SpinInv, PTypeOK, Range1
  <2>9. CallInv'
    <3> SUFFICES ASSUME NEW d \in Calls PROVE CallFine(d)'
      BY DEF CallInv
    <3>1. CallFine(d)
      BY DEF SpinInv, CallInv
    <3>2. go'[d] => seed'[d]
      <4>1. CASE d = c
        BY <4>1, <1>4
      <4>2. CASE d # c
        <5>1. go'[d] = go[d]
          BY <4>2, <1>4 DEF SpinInv, PTypeOK
        <5> QED
          BY <5>1, <1>4, <3>1 DEF CallFine
      <4> QED
        BY <4>1, <4>2
    <3> QED
      BY <1>1, <2>7, <3>1, <3>2 DEF CallFine, Range1
  <2> QED
    BY <2>7, <2>8, <2>9 DEF SpinInv
<1> QED
  BY <1>c, <1>3, <1>4 DEF OwnerPre

(* The steps in which a frame only moves to another point of its code.     *)
LEMMA MoveKeeps ==
  ASSUME SpinInv, NEW w \in Workers, stack[w] # <<>>, Top(w).pc # "work",
         NEW p \in {"claim", "wait"}, stack' = Goto(w, p), go[Top(w).call],
         p = "wait" => next[Top(w).call] >= Items[Top(w).call],
         UNCHANGED <<call, queue, go, seed, next, slot>>
  PROVE  SpinInv'
<1>1. Top(w) \in Frames /\ Top(w).call \in Calls /\ Fine(Top(w))
  BY TopFine
<1>2. PICK f \in Frames : /\ f = [Top(w) EXCEPT !.pc = p] /\ f.call = Top(w).call
                         /\ f.role = Top(w).role /\ f.pc = p
  BY GotoFrame
<1>3. stack' = Replace(w, f)
  BY <1>2 DEF Goto
<1>4. \A g \in Frames : Fine(g) => Fine(g)'
  BY DEF Fine
<1>5. Fine(f)'
  BY <1>1, <1>2 DEF Fine
<1>6. \A g \in Frames : ~ Rival(g, Top(w)) => ~ Rival(g, f)
  BY <1>1, <1>2, NoNewRival
<1>7. /\ FrameInv' /\ OneEach'
      /\ \A d \in Calls : \A i \in Range1(d) : AtWork(d, i) => AtWork(d, i)'
  BY <1>3, <1>4, <1>5, <1>6, ReplaceFrames
<1>8. PTypeOK'
  <2>1. stack' \in [Workers -> Seq(Frames)]
    BY <1>3, Replaced DEF SpinInv
  <2> QED
    BY <2>1 DEF SpinInv, PTypeOK, Range1
<1>9. CallInv'
  BY <1>7 DEF SpinInv, CallInv, CallFine, Range1
<1> QED
  BY <1>7, <1>8, <1>9 DEF SpinInv

LEMMA GateKeeps ==
  ASSUME SpinInv, NEW w \in Workers, Gate(w)
  PROVE  SpinInv'
<1>1. /\ stack[w] # <<>> /\ Top(w).pc # "work" /\ stack' = Goto(w, "claim")
      /\ go[Top(w).call] /\ UNCHANGED <<call, queue, go, seed, next, slot>>
  BY DEF Gate, Runs
<1> QED
  BY <1>1, MoveKeeps

(* The item claimed is one no frame has.                                   *)
LEMMA ClaimKeeps ==
  ASSUME SpinInv, NEW w \in Workers, Claim(w)
  PROVE  SpinInv'
<1>1. /\ stack[w] # <<>> /\ Top(w).pc = "claim" /\ next[Top(w).call] < Items[Top(w).call]
      /\ stack' = Replace(w, WorkOn(Top(w), next[Top(w).call]))
      /\ next' = [next EXCEPT ![Top(w).call] = @ + 1]
      /\ UNCHANGED <<call, queue, go, seed, slot>>
  BY DEF Claim, Runs
<1>2. /\ Top(w) \in Frames /\ Top(w).call \in Calls /\ Fine(Top(w))
      /\ next \in [Calls -> Nat]
  BY <1>1, TopFine DEF SpinInv, PTypeOK
<1>c. PICK c \in Calls : c = Top(w).call
  BY <1>2
<1>m. PICK m \in Nat : m = next[c]
  BY <1>2
<1>3. \A d \in Calls : next[d] \in Nat /\ Items[d] \in Nat
  BY <1>2, ItemsAssumption
<1>0. stack[w] # <<>>
  BY <1>1
<1>f. PICK f \in Frames : /\ f = WorkOn(Top(w), m)
                         /\ f.call = Top(w).call /\ f.role = Top(w).role
                         /\ f.pc = "work" /\ f.n = m
  BY <1>0, WorkFrame
<1>4. /\ f = WorkOn(Top(w), m) /\ f.call = c
      /\ f.role = Top(w).role /\ f.pc = "work" /\ f.n = m
  BY <1>f, <1>c
<1>5. next'[c] = m + 1 /\ \A d \in Calls : d # c => next'[d] = next[d]
  BY <1>1, <1>2, <1>c, <1>m
<1>6. stack' = Replace(w, f) /\ m < Items[c]
  BY <1>1, <1>4, <1>c, <1>m
<1>7. \A g \in Frames : Fine(g) => Fine(g)'
  <2> SUFFICES ASSUME NEW g \in Frames, Fine(g) PROVE Fine(g)'
    OBVIOUS
  <2>1. g.call \in Calls /\ g.n \in Nat
    BY DEF Frames
  <2>2. next'[g.call] = next[g.call] \/ next'[g.call] = next[g.call] + 1
    BY <1>5, <1>m, <2>1
  <2>3. /\ g.pc = "wait" => next'[g.call] >= Items[g.call]
        /\ g.pc = "work" => g.n < next'[g.call]
    BY <1>3, <2>1, <2>2 DEF Fine
  <2> QED
    BY <1>1, <2>3 DEF Fine
<1>8. slot[c][m] = <<>> /\ go[c] /\ call[c] = "running"
  <2>1. go[c] /\ call[c] = "running"
    BY <1>1, <1>2, <1>c DEF Fine
  <2>2. CallFine(c) /\ m \in Range1(c) /\ m >= next[c]
    BY <1>3, <1>6, <1>m DEF SpinInv, CallInv, Range1
  <2>3. call[c] # "returned"
    BY <2>1
  <2>4. slot[c][m] = <<>>
    BY <2>2, <2>3 DEF CallFine
  <2> QED
    BY <2>1, <2>4
<1>9. Fine(f)'
  <2>1. m < next'[c]
    BY <1>5
  <2>2. f.pc = "work" /\ f.call = c /\ f.n = m
    BY <1>4
  <2>3. /\ call'[f.call] = "running" /\ go'[f.call]
        /\ f.n < next'[f.call] /\ f.n < Items[f.call] /\ slot'[f.call][f.n] = <<>>
    BY <1>1, <1>6, <1>8, <2>1, <2>2
  <2> QED
    BY <2>2, <2>3 DEF Fine
<1>10. \A g \in Frames : Fine(g) /\ ~ Rival(g, Top(w)) => ~ Rival(g, f)
  <2> SUFFICES ASSUME NEW g \in Frames, Fine(g), ~ Rival(g, Top(w)), Rival(g, f)
               PROVE  FALSE
    OBVIOUS
  <2>1. g.call = c /\ g.pc = "work" /\ g.n = m
    BY <1>4, <1>c DEF Rival
  <2> QED
    BY <1>m, <2>1 DEF Fine
<1>11. /\ FrameInv' /\ OneEach' /\ AtWork(c, m)'
       /\ \A d \in Calls : \A i \in Range1(d) : AtWork(d, i) => AtWork(d, i)'
  <2>1. Top(w).pc # "work"
    BY <1>1
  <2>2. /\ FrameInv' /\ OneEach' /\ (f.pc = "work" => AtWork(f.call, f.n)')
        /\ \A d \in Calls : \A i \in Range1(d) :
             AtWork(d, i) /\ ~ (Top(w).call = d /\ Top(w).pc = "work" /\ Top(w).n = i)
             => AtWork(d, i)'
    BY <1>1, <1>6, <1>7, <1>9, <1>10, ReplaceFrames
  <2>3. AtWork(c, m)'
    BY <1>4, <2>2 DEF AtWork
  <2> QED
    BY <2>1, <2>2, <2>3
<1>12. PTypeOK'
  <2>1. stack' \in [Workers -> Seq(Frames)]
    BY <1>1, <1>6, Replaced DEF SpinInv
  <2>2. next' \in [Calls -> Nat]
    <3>1. DOMAIN next' = Calls /\ next' = [d \in Calls |-> next'[d]]
      BY <1>1, <1>2
    <3>2. \A d \in Calls : next'[d] \in Nat
      BY <1>3, <1>5
    <3> QED
      BY <3>1, <3>2
  <2> QED
    BY <1>1, <2>1, <2>2 DEF SpinInv, PTypeOK, Range1
<1>13. CallInv'
  <2> SUFFICES ASSUME NEW d \in Calls PROVE CallFine(d)'
    BY DEF CallInv
  <2>1. CallFine(d)
    BY DEF SpinInv, CallInv
  <2>2. ASSUME NEW i \in Range1(d), call[d] # "returned"
        PROVE  IF i >= next'[d] THEN slot[d][i] = <<>>
               ELSE slot[d][i] = <<TRUE>> \/ AtWork(d, i)'
    <3>0. i \in Nat
      BY ItemsAssumption DEF Range1
    <3>1. CASE d = c /\ i = m
      <4>1. ~ i >= next'[d]
        BY <3>1, <1>5
      <4> QED
        BY <3>1, <4>1, <1>11
    <3>2. CASE i >= next[d] /\ ~ (d = c /\ i = m)
      <4>1. i >= next'[d]
        BY <3>0, <3>2, <1>3, <1>5, <1>m
      <4> QED
        BY <3>2, <4>1, <2>1, <2>2 DEF CallFine
    <3>3. CASE ~ i >= next[d]
      <4>1. slot[d][i] = <<TRUE>> \/ AtWork(d, i)
        BY <2>1, <2>2, <3>3 DEF CallFine
      <4>2. ~ i >= next'[d]
        BY <3>0, <3>3, <1>3, <1>5, <1>m
      <4> QED
        BY <4>1, <4>2, <1>11
    <3> QED
      BY <3>1, <3>2, <3>3
  <2> QED
    BY <1>1, <2>1, <2>2 DEF CallFine, Range1
<1> QED
  BY <1>11, <1>12, <1>13 DEF SpinInv

(* The slot filled is the worker's own: no rival is at work on it.         *)
LEMMA WorkKeeps ==
  ASSUME SpinInv, NEW w \in Workers, Work(w)
  PROVE  SpinInv'
<1>1. /\ stack[w] # <<>> /\ Top(w).pc = "work" /\ stack' = Goto(w, "claim")
      /\ slot' = [slot EXCEPT ![Top(w).call][Top(w).n] = Append(@, seed[Top(w).call])]
      /\ UNCHANGED <<call, queue, go, seed, next>>
  BY DEF Work, Runs
<1>2. Top(w) \in Frames /\ Top(w).call \in Calls /\ Top(w).n \in Nat /\ Fine(Top(w))
  BY <1>1, TopFine DEF Frames
<1>c. PICK c \in Calls : c = Top(w).call
  BY <1>2
<1>m. PICK m \in Nat : m = Top(w).n
  BY <1>2
<1>3. /\ call[c] = "running" /\ go[c] /\ m < next[c] /\ m < Items[c]
      /\ slot[c][m] = <<>>
  BY <1>1, <1>2, <1>c, <1>m DEF Fine
<1>4. m \in Range1(c)
  BY <1>3, ItemsAssumption DEF Range1
<1>5. seed[c] = TRUE
  BY <1>3 DEF SpinInv, PTypeOK, CallInv, CallFine
<1>6. /\ DOMAIN slot = Calls
      /\ \A d \in Calls : slot[d] \in [Range1(d) -> {<<>>, <<TRUE>>}]
  BY DEF SpinInv, PTypeOK
<1>7. slot' = [slot EXCEPT ![c] = [slot[c] EXCEPT ![m] = Append(slot[c][m], seed[c])]]
  BY <1>1, <1>c, <1>m
<1>8. /\ slot' = [slot EXCEPT ![c] = [slot[c] EXCEPT ![m] = <<TRUE>>]]
      /\ DOMAIN slot' = Calls /\ \A d \in Calls : d # c => slot'[d] = slot[d]
      /\ slot'[c] = [slot[c] EXCEPT ![m] = <<TRUE>>]
  <2>0. \A x : Append(<<>>, x) = <<x>>
    OBVIOUS
  <2>1. Append(slot[c][m], seed[c]) = <<TRUE>>
    BY <1>3, <1>5, <2>0, Zenon
  <2> QED
    BY <1>6, <1>7, <2>1
<1>9. /\ slot'[c][m] = <<TRUE>>
      /\ \A d \in Calls : \A i \in Range1(d) : ~ (d = c /\ i = m) => slot'[d][i] = slot[d][i]
      /\ \A d \in Calls : slot'[d] \in [Range1(d) -> {<<>>, <<TRUE>>}]
  <2>1. slot[c] \in [Range1(c) -> {<<>>, <<TRUE>>}]
    BY <1>6
  <2>2. /\ slot'[c] \in [Range1(c) -> {<<>>, <<TRUE>>}] /\ slot'[c][m] = <<TRUE>>
        /\ \A i \in Range1(c) : i # m => slot'[c][i] = slot[c][i]
    BY <1>4, <1>8, <2>1
  <2> QED
    BY <1>6, <1>8, <2>2
<1>10. PICK f \in Frames : /\ f = [Top(w) EXCEPT !.pc = "claim"] /\ f.call = Top(w).call
                          /\ f.role = Top(w).role /\ f.pc = "claim"
  BY <1>1, GotoFrame
<1>11. stack' = Replace(w, f)
  BY <1>1, <1>10 DEF Goto
<1>12. \A g \in Frames : Fine(g) /\ ~ Rival(g, Top(w)) => Fine(g)' /\ ~ Rival(g, f)
  <2> SUFFICES ASSUME NEW g \in Frames, Fine(g), ~ Rival(g, Top(w))
               PROVE  Fine(g)' /\ ~ Rival(g, f)
    OBVIOUS
  <2>1. ~ Rival(g, f)
    BY <1>2, <1>10, NoNewRival
  <2>2. g.call \in Calls /\ g.n \in Nat
    BY DEF Frames
  <2>3. ASSUME g.pc = "work" PROVE slot'[g.call][g.n] = <<>>
    <3>1. ~ (g.call = c /\ g.n = m)
      BY <1>1, <1>c, <1>m, <2>3 DEF Rival
    <3>2. g.n \in Range1(g.call) /\ slot[g.call][g.n] = <<>>
      BY <2>2, <2>3, ItemsAssumption DEF Fine, Range1
    <3> QED
      BY <1>9, <2>2, <3>1, <3>2
  <2>4. Fine(g)'
    BY <1>1, <2>3 DEF Fine
  <2> QED
    BY <2>1, <2>4
<1>13. Fine(f)'
  BY <1>1, <1>3, <1>c, <1>10 DEF Fine
<1>14. /\ FrameInv' /\ OneEach'
       /\ \A d \in Calls : \A i \in Range1(d) :
            AtWork(d, i) /\ ~ (d = c /\ i = m) => AtWork(d, i)'
  <2>1. /\ FrameInv' /\ OneEach'
        /\ \A d \in Calls : \A i \in Range1(d) :
             AtWork(d, i) /\ ~ (Top(w).call = d /\ Top(w).pc = "work" /\ Top(w).n = i)
             => AtWork(d, i)'
    BY <1>1, <1>11, <1>12, <1>13, ReplaceFrames
  <2> QED
    BY <1>c, <1>m, <2>1
<1>15. PTypeOK'
  <2>1. stack' \in [Workers -> Seq(Frames)]
    BY <1>1, <1>11, Replaced DEF SpinInv
  <2> QED
    BY <1>1, <1>8, <1>9, <2>1 DEF SpinInv, PTypeOK, Range1
<1>16. CallInv'
  <2> SUFFICES ASSUME NEW d \in Calls PROVE CallFine(d)'
    BY DEF CallInv
  <2>1. CallFine(d)
    BY DEF SpinInv, CallInv
  <2>2. ASSUME NEW i \in Range1(d)
        PROVE  IF call[d] = "returned" THEN slot'[d][i] = <<TRUE>>
               ELSE IF i >= next[d] THEN slot'[d][i] = <<>>
               ELSE slot'[d][i] = <<TRUE>> \/ AtWork(d, i)'
    <3>1. CASE d = c /\ i = m
      <4>1. ~ m >= next[c]
        BY <1>3 DEF SpinInv, PTypeOK
      <4> QED
        BY <3>1, <4>1, <1>3, <1>9
    <3>2. CASE ~ (d = c /\ i = m)
      <4>1. slot'[d][i] = slot[d][i] /\ (AtWork(d, i) => AtWork(d, i)')
        BY <3>2, <1>9, <1>14
      <4> QED
        BY <2>1, <4>1 DEF CallFine
    <3> QED
      BY <3>1, <3>2
  <2> QED
    BY <1>1, <2>1, <2>2 DEF CallFine, Range1
<1> QED
  BY <1>14, <1>15, <1>16 DEF SpinInv

LEMMA RunOutKeeps ==
  ASSUME SpinInv, NEW w \in Workers, RunOut(w)
  PROVE  SpinInv'
<1>1. /\ stack[w] # <<>> /\ Top(w).pc = "claim" /\ next[Top(w).call] >= Items[Top(w).call]
      /\ stack' = IF Top(w).role = "helper" THEN Pop(w) ELSE Goto(w, "wait")
      /\ UNCHANGED <<call, queue, go, seed, next, slot>>
  BY DEF RunOut, Runs
<1>2. go[Top(w).call]
  BY <1>1, TopFine DEF Fine
<1>3. CASE Top(w).role # "helper"
  BY <1>1, <1>2, <1>3, MoveKeeps
<1>4. CASE Top(w).role = "helper"
  <2>1. stack' = Pop(w) /\ Top(w).pc # "work"
    BY <1>1, <1>4
  <2>2. \A v \in Workers : \A i \in 1 .. Len(stack[v]) : call'[stack[v][i].call] = "running"
    BY <1>1 DEF SpinInv, FrameInv, Fine
  <2>3. /\ FrameInv' /\ OneEach'
        /\ \A c \in Calls : \A i \in Range1(c) : AtWork(c, i) => AtWork(c, i)'
    BY <1>1, <2>1, <2>2, PopFrames
  <2>4. PTypeOK'
    <3>1. stack' \in [Workers -> Seq(Frames)]
      BY <1>1, <2>1, Popped DEF SpinInv
    <3> QED
      BY <1>1, <3>1 DEF SpinInv, PTypeOK, Range1
  <2>5. CallInv'
    BY <1>1, <2>3 DEF SpinInv, CallInv, CallFine, Range1
  <2> QED
    BY <2>3, <2>4, <2>5 DEF SpinInv
<1> QED
  BY <1>3, <1>4

(* The owner that waits is the last frame of its call, so nothing is at    *)
(* work and every range below next, which is all of them, is done.         *)
LEMMA ReturnKeeps ==
  ASSUME SpinInv, NEW w \in Workers, Return(w)
  PROVE  SpinInv'
<1>1. /\ stack[w] # <<>> /\ Top(w).role = "owner" /\ Top(w).pc = "wait"
      /\ ScopeEnds(w, Top(w).call) /\ stack' = Pop(w)
      /\ call' = [call EXCEPT ![Top(w).call] = "returned"]
      /\ UNCHANGED <<queue, go, seed, next, slot>>
  BY DEF Return, Runs
<1>2. Top(w) \in Frames /\ Top(w).call \in Calls /\ Fine(Top(w))
  BY <1>1, TopFine
<1>c. PICK c \in Calls : c = Top(w).call
  BY <1>2
<1> DEFINE k == Len(stack[w])
<1>3. k \in 1 .. Len(stack[w]) /\ Top(w) = stack[w][k]
  BY <1>1, TopFrame DEF SpinInv, Depth
<1>4. \A v \in Workers : \A i \in 1 .. Len(stack[v]) :
        ~ (v = w /\ i = k) => stack[v][i].call # c
  <2> SUFFICES ASSUME NEW v \in Workers, NEW i \in 1 .. Len(stack[v]), stack[v][i].call = c
               PROVE  v = w /\ i = k
    OBVIOUS
  <2>1. stack[v][i].role = "owner"
    <3>1. stack[v][i].role \in {"owner", "helper"}
      BY EachFrame DEF SpinInv, Frames
    <3>2. stack[v][i].role # "helper"
      BY <1>1, <1>c DEF ScopeEnds
    <3> QED
      BY <3>1, <3>2
  <2>2. Rival(stack[v][i], stack[w][k])
    BY <1>1, <1>3, <1>c, <2>1 DEF Rival
  <2> QED
    BY <1>3, <2>2 DEF SpinInv, OneEach
<1>5. \A i : ~ AtWork(c, i)
  <2> SUFFICES ASSUME NEW i, AtWork(c, i) PROVE FALSE
    OBVIOUS
  <2>1. PICK v \in Workers : \E j \in 1 .. Len(stack[v]) :
           stack[v][j].call = c /\ stack[v][j].pc = "work"
    BY DEF AtWork
  <2>2. PICK j \in 1 .. Len(stack[v]) : stack[v][j].call = c /\ stack[v][j].pc = "work"
    BY <2>1
  <2> QED
    BY <1>1, <1>3, <1>4, <2>2
<1>6. call[c] = "running" /\ next[c] >= Items[c]
  BY <1>1, <1>2, <1>c DEF Fine
<1>7. \A i \in Range1(c) : slot[c][i] = <<TRUE>>
  <2> SUFFICES ASSUME NEW i \in Range1(c) PROVE slot[c][i] = <<TRUE>>
    OBVIOUS
  <2>1. ~ i >= next[c]
    <3>1. next[c] \in Nat /\ Items[c] \in Nat
      BY ItemsAssumption DEF SpinInv, PTypeOK
    <3> QED
      BY <1>6, <3>1 DEF Range1
  <2>2. CallFine(c) /\ call[c] # "returned"
    BY <1>6 DEF SpinInv, CallInv
  <2> QED
    BY <1>5, <2>1, <2>2 DEF CallFine
<1>8. call'[c] = "returned" /\ \A d \in Calls : d # c => call'[d] = call[d]
  BY <1>1, <1>c DEF SpinInv, PTypeOK
<1>9. /\ FrameInv' /\ OneEach'
      /\ \A d \in Calls : \A i \in Range1(d) : AtWork(d, i) => AtWork(d, i)'
  <2>1. ASSUME NEW v \in Workers, NEW i \in 1 .. Len(stack[v]), ~ (v = w /\ i = k)
        PROVE  call'[stack[v][i].call] = "running"
    <3>1. stack[v][i].call \in Calls /\ call[stack[v][i].call] = "running"
      BY EachFrame DEF SpinInv, FrameInv, Fine, Frames
    <3> QED
      BY <1>4, <1>8, <2>1, <3>1
  <2>2. Top(w).pc # "work"
    BY <1>1
  <2> QED
    BY <1>1, <2>1, <2>2, PopFrames
<1>10. PTypeOK'
  <2>1. stack' \in [Workers -> Seq(Frames)]
    BY <1>1, Popped DEF SpinInv
  <2>2. call' \in [Calls -> {"new", "running", "returned"}]
    BY <1>1 DEF SpinInv, PTypeOK
  <2> QED
    BY <1>1, <2>1, <2>2 DEF SpinInv, PTypeOK, Range1
<1>11. CallInv'
  <2> SUFFICES ASSUME NEW d \in Calls PROVE CallFine(d)'
    BY DEF CallInv
  <2>1. CallFine(d)
    BY DEF SpinInv, CallInv
  <2>2. CASE d = c
    <3>1. \A n \in DOMAIN queue[c] : queue[c][n] = 0
      BY <1>1, <1>c DEF ScopeEnds
    <3> QED
      BY <1>1, <1>7, <1>8, <2>1, <2>2, <3>1 DEF CallFine, Range1
  <2>3. CASE d # c
    BY <1>1, <1>8, <1>9, <2>1, <2>3 DEF CallFine, Range1
  <2> QED
    BY <2>2, <2>3
<1> QED
  BY <1>9, <1>10, <1>11 DEF SpinInv

LEMMA SpinStutters ==
  ASSUME SpinInv, UNCHANGED spinVars
  PROVE  SpinInv'
<1>1. PTypeOK'
  BY DEF SpinInv, PTypeOK, spinVars, Range1
<1>2. FrameInv' /\ OneEach'
  BY DEF SpinInv, FrameInv, Fine, Waits, OneEach, Rival, spinVars
<1>3. CallInv'
  <2> SUFFICES ASSUME NEW d \in Calls PROVE CallFine(d)'
    BY DEF CallInv
  <2>1. CallFine(d) /\ \A i : AtWork(d, i)' <=> AtWork(d, i)
    BY DEF SpinInv, CallInv, AtWork, spinVars
  <2>2. go'[d] => seed'[d]
    BY <2>1 DEF CallFine, spinVars
  <2> QED
    BY <2>1, <2>2 DEF CallFine, spinVars, Range1
<1> QED
  BY <1>1, <1>2, <1>3 DEF SpinInv

LEMMA StepKeeps ==
  ASSUME SpinInv, [SpinNext]_spinVars
  PROVE  SpinInv'
<1>1. ASSUME NEW w \in Workers, NEW c \in Calls, Serial(w, c) PROVE SpinInv'
  BY <1>1, SerialKeeps
<1>2. ASSUME NEW w \in Workers, NEW c \in Calls, Start(w, c) PROVE SpinInv'
  BY <1>2, StartKeeps
<1>3. ASSUME NEW w \in Workers, NEW c \in Calls, NEW n \in 1 .. Cardinality(Workers),
             TakeTask(w, c, n)
      PROVE  SpinInv'
  BY <1>3, TakeTaskKeeps
<1>4. ASSUME NEW w \in Workers, OwnerPre(w) PROVE SpinInv'
  BY <1>4, OwnerPreKeeps
<1>5. ASSUME NEW w \in Workers, Gate(w) PROVE SpinInv'
  BY <1>5, GateKeeps
<1>6. ASSUME NEW w \in Workers, Claim(w) PROVE SpinInv'
  BY <1>6, ClaimKeeps
<1>7. ASSUME NEW w \in Workers, Work(w) PROVE SpinInv'
  BY <1>7, WorkKeeps
<1>8. ASSUME NEW w \in Workers, RunOut(w) PROVE SpinInv'
  BY <1>8, RunOutKeeps
<1>9. ASSUME NEW w \in Workers, Return(w) PROVE SpinInv'
  BY <1>9, ReturnKeeps
<1> QED
  BY <1>1, <1>2, <1>3, <1>4, <1>5, <1>6, <1>7, <1>8, <1>9, SpinStutters DEF SpinNext, SpinStep

-----------------------------------------------------------------------------

(* A range below the claim counter of a call that runs is done, or one     *)
(* frame is at work on it under the owner's seed; a call has one owner,    *)
(* and frames and tasks only while it runs (pool_map_spin).                *)
THEOREM PoolSpinInvariance == SpinSpec => []SpinInv
<1> QED
  BY InitSpinInv, StepKeeps, PTL DEF SpinSpec

(* Whatever the number of workers, searches and ranges: a call of          *)
(* pool_map_spin that returned scanned each range once and under its       *)
(* seed, and no task that could reach its stack is queued or running.      *)
THEOREM EveryItemOnce == SpinSpec => []EveryItemRanOnce
<1> QED
  BY PoolSpinInvariance, SpinInvSuffices, PTL

-----------------------------------------------------------------------------
(* Induction over the numbers, from the theorem that they are well founded: *)
(* what is proved by it is stated as a set that holds 0 and is closed under *)
(* the successor.                                                           *)
LEMMA LeastNat == ASSUME NEW T, T \subseteq Nat, T # {}
               PROVE  \E x \in T : \A y \in T : x <= y
<1> DEFINE R == {p \in Nat \X Nat : p[1] < p[2]}
<1>1. IsWellFoundedOn(OpToRel(<, Nat), Nat)
  BY NatLessThanWellFounded
<1>2. OpToRel(<, Nat) = R
  BY DEF OpToRel
<1>3. IsWellFoundedOn(R, Nat)
  BY <1>1, <1>2
<1>a. \A a, b \in Nat : a < b => <<a, b>> \in R
  OBVIOUS
<1> HIDE DEF R
<1>4. PICK x \in T : \A y \in T : ~ (<<y, x>> \in R)
  BY <1>3, WFMin
<1>5. x \in Nat /\ \A y \in T : y \in Nat /\ ~ (y < x)
  BY <1>4, <1>a
<1>6. \A y \in T : x <= y
  BY <1>5
<1> QED BY <1>6

(* A set of numbers with 0 and with n + 1 for each n of it has all.       *)
LEMMA Induct == ASSUME NEW S, 0 \in S, \A n \in Nat : n \in S => n + 1 \in S
                PROVE  Nat \subseteq S
<1> SUFFICES ASSUME Nat \ S # {} PROVE FALSE
  OBVIOUS
<1>1. PICK x \in Nat \ S : \A y \in Nat \ S : x <= y
  BY LeastNat
<1>2. x - 1 \in Nat /\ ~ (x <= x - 1)
  BY <1>1
<1>3. x - 1 \in S
  BY <1>1, <1>2
<1>4. x - 1 + 1 = x
  BY <1>1
<1> QED BY <1>1, <1>2, <1>3, <1>4

-----------------------------------------------------------------------------
(* Sums.  SumFunctionOnSet is a fold: a recursive function on the subsets   *)
(* of S, chosen as one that satisfies its equation.                         *)
One(s) == CHOOSE x \in s : TRUE

IsFold(f, S, g) ==
  g = [s \in SUBSET S |-> IF s = {} THEN 0 ELSE f[One(s)] + g[s \ {One(s)}]]

(* The library's sum is the chosen fold.                                   *)
LEMMA SumIsFold == ASSUME NEW f, NEW S PROVE SumFunctionOnSet(f, S) = (CHOOSE g : IsFold(f, S, g))[S]
BY DEF SumFunctionOnSet, FoldFunctionOnSet, MapThenFoldSet, IsFold, One

(* What a fold takes from a set leaves a smaller one.                      *)
LEMMA Smaller == ASSUME NEW s, IsFiniteSet(s), s # {}
                 PROVE  /\ One(s) \in s /\ IsFiniteSet(s \ {One(s)})
                        /\ Cardinality(s) \in Nat /\ Cardinality(s \ {One(s)}) = Cardinality(s) - 1
                        /\ Cardinality(s \ {One(s)}) \in Nat
<1>1. One(s) \in s BY DEF One
<1> QED BY <1>1, FS_RemoveElement, FS_CardinalityType

(* The fold exists. *)
LEMMA FoldExists == ASSUME NEW f, NEW S, IsFiniteSet(S) PROVE \E g : IsFold(f, S, g)
<1> DEFINE Small(n) == {s \in SUBSET S : Cardinality(s) <= n}
           Goes(n, g) == \A s \in Small(n) : g[s] = IF s = {} THEN 0 ELSE f[One(s)] + g[s \ {One(s)}]
           Good == {n \in Nat : \E g : DOMAIN g = SUBSET S /\ Goes(n, g)}
<1>1. 0 \in Good
  <2>1. DOMAIN [s \in SUBSET S |-> 0] = SUBSET S /\ Goes(0, [s \in SUBSET S |-> 0])
    <3> SUFFICES ASSUME NEW s \in Small(0) PROVE s = {}
      OBVIOUS
    <3>1. IsFiniteSet(s) BY FS_Subset
    <3> QED BY <3>1, FS_EmptySet, FS_CardinalityType
  <2> QED BY <2>1
<1>2. ASSUME NEW n \in Nat, n \in Good PROVE n + 1 \in Good
  <2>1. PICK g : DOMAIN g = SUBSET S /\ Goes(n, g)
    BY <1>2
  <2> DEFINE h == [s \in SUBSET S |-> IF s = {} THEN 0 ELSE f[One(s)] + g[s \ {One(s)}]]
  <2>2. \A s \in Small(n) : h[s] = g[s]
    BY <2>1
  <2>3. ASSUME NEW s \in Small(n + 1), s # {} PROVE s \ {One(s)} \in Small(n)
    BY <2>3, FS_Subset, Smaller
  <2>4. Goes(n + 1, h)
    <3> SUFFICES ASSUME NEW s \in Small(n + 1)
                 PROVE  h[s] = IF s = {} THEN 0 ELSE f[One(s)] + h[s \ {One(s)}]
      OBVIOUS
    <3>1. CASE s = {} BY <3>1
    <3>2. CASE s # {}
      <4>1. h[s \ {One(s)}] = g[s \ {One(s)}]
        BY <3>2, <2>2, <2>3
      <4>2. h[s] = f[One(s)] + g[s \ {One(s)}]
        BY <3>2
      <4> QED BY <3>2, <4>1, <4>2
    <3> QED BY <3>1, <3>2
  <2>5. DOMAIN h = SUBSET S
    OBVIOUS
  <2> HIDE DEF h, Goes
  <2> QED BY <2>4, <2>5
<1>3. Cardinality(S) \in Good
  <2> HIDE DEF Good
  <2> QED BY <1>1, <1>2, Induct, FS_CardinalityType
<1>4. PICK g : DOMAIN g = SUBSET S /\ Goes(Cardinality(S), g)
  BY <1>3
<1>5. \A s \in SUBSET S : s \in Small(Cardinality(S))
  BY FS_Subset
<1>6. \A s \in SUBSET S : g[s] = IF s = {} THEN 0 ELSE f[One(s)] + g[s \ {One(s)}]
  BY <1>4, <1>5
<1>7. IsFold(f, S, [s \in SUBSET S |-> g[s]])
  BY <1>6 DEF IsFold
<1> QED BY <1>7

(* Two folds agree where both are. *)
LEMMA FoldsAgree == ASSUME NEW f, NEW h, NEW S, NEW T, NEW u, NEW v, IsFiniteSet(S), IsFiniteSet(T),
                           IsFold(f, S, u), IsFold(h, T, v), \A x \in S \cap T : f[x] = h[x]
                    PROVE  \A s \in SUBSET (S \cap T) : u[s] = v[s]
<1> DEFINE Good == {n \in Nat : \A s \in SUBSET (S \cap T) : Cardinality(s) = n => u[s] = v[s]}
<1>0. \A s \in SUBSET (S \cap T) : IsFiniteSet(s) /\ Cardinality(s) \in Nat
  BY FS_Subset, FS_CardinalityType
<1>1. 0 \in Good
  <2>1. \A s \in SUBSET (S \cap T) : Cardinality(s) = 0 => s = {}
    BY <1>0, FS_EmptySet
  <2>2. u[{}] = 0 /\ v[{}] = 0
    BY DEF IsFold
  <2> QED BY <2>1, <2>2
<1>2. ASSUME NEW n \in Nat, n \in Good PROVE n + 1 \in Good
  <2> SUFFICES ASSUME NEW s \in SUBSET (S \cap T), Cardinality(s) = n + 1 PROVE u[s] = v[s]
    OBVIOUS
  <2>1. s # {}
    BY FS_EmptySet
  <2>2. One(s) \in s /\ Cardinality(s \ {One(s)}) = n
    BY <2>1, <1>0, Smaller
  <2>3. u[s \ {One(s)}] = v[s \ {One(s)}]
    BY <1>2, <2>2
  <2>4. /\ u[s] = f[One(s)] + u[s \ {One(s)}]
        /\ v[s] = h[One(s)] + v[s \ {One(s)}]
    BY <2>1 DEF IsFold
  <2>5. f[One(s)] = h[One(s)]
    BY <2>2
  <2> QED BY <2>3, <2>4, <2>5
<1>3. Nat \subseteq Good
  <2> HIDE DEF Good
  <2> QED BY <1>1, <1>2, Induct
<1> QED BY <1>0, <1>3

(* A sum depends on what the function is on the set.                       *)
LEMMA SumAgrees == ASSUME NEW f, NEW h, NEW S, IsFiniteSet(S), \A x \in S : f[x] = h[x]
                   PROVE  SumFunctionOnSet(f, S) = SumFunctionOnSet(h, S)
<1>1. IsFold(f, S, CHOOSE g : IsFold(f, S, g)) /\ IsFold(h, S, CHOOSE g : IsFold(h, S, g))
  BY FoldExists
<1> QED BY <1>1, FoldsAgree, SumIsFold

LEMMA SumEmpty == ASSUME NEW f PROVE SumFunctionOnSet(f, {}) = 0
<1>1. IsFold(f, {}, CHOOSE g : IsFold(f, {}, g))
  BY FoldExists, FS_EmptySet
<1>2. (CHOOSE g : IsFold(f, {}, g))[{}] = 0
  BY <1>1 DEF IsFold
<1> QED BY <1>2, SumIsFold

(* The fold's equation, which is about the element it chooses.             *)
LEMMA SumOne == ASSUME NEW f, NEW S, IsFiniteSet(S), S # {}
                PROVE  SumFunctionOnSet(f, S) = f[One(S)] + SumFunctionOnSet(f, S \ {One(S)})
<1> DEFINE R == S \ {One(S)}
           u == CHOOSE g : IsFold(f, S, g)
           v == CHOOSE g : IsFold(f, R, g)
<1>1. IsFold(f, S, u) /\ IsFold(f, R, v) /\ IsFiniteSet(R)
  BY FoldExists, Smaller
<1> HIDE DEF u, v
<1>2. u[R] = v[R]
  BY <1>1, FoldsAgree
<1>3. u[S] = f[One(S)] + u[R]
  BY <1>1 DEF IsFold
<1> QED BY <1>2, <1>3, SumIsFold DEF u, v

LEMMA SumNat == ASSUME NEW f, NEW S, IsFiniteSet(S), \A x \in S : f[x] \in Nat
                PROVE  SumFunctionOnSet(f, S) \in Nat
<1> DEFINE Good == {n \in Nat : \A s \in SUBSET S : Cardinality(s) = n => SumFunctionOnSet(f, s) \in Nat}
<1>1. 0 \in Good
  BY FS_Subset, FS_EmptySet, SumEmpty
<1>2. ASSUME NEW n \in Nat, n \in Good PROVE n + 1 \in Good
  <2> SUFFICES ASSUME NEW s \in SUBSET S, Cardinality(s) = n + 1
               PROVE  SumFunctionOnSet(f, s) \in Nat
    OBVIOUS
  <2>1. s # {} /\ IsFiniteSet(s)
    BY FS_EmptySet, FS_Subset
  <2>2. One(s) \in s /\ Cardinality(s \ {One(s)}) = n
    BY <2>1, Smaller
  <2>3. SumFunctionOnSet(f, s \ {One(s)}) \in Nat
    BY <1>2, <2>2
  <2>4. SumFunctionOnSet(f, s) = f[One(s)] + SumFunctionOnSet(f, s \ {One(s)})
    BY <2>1, SumOne
  <2> QED BY <2>2, <2>3, <2>4
<1>3. Cardinality(S) \in Good
  <2> HIDE DEF Good
  <2> QED BY <1>1, <1>2, Induct, FS_CardinalityType
<1> QED BY <1>3

(* Any element can be taken out. *)
LEMMA SumTakes == ASSUME NEW f, NEW S, IsFiniteSet(S), \A x \in S : f[x] \in Nat, NEW k \in S
                  PROVE  SumFunctionOnSet(f, S) = f[k] + SumFunctionOnSet(f, S \ {k})
<1> DEFINE Sum(s) == SumFunctionOnSet(f, s)
           Good == {n \in Nat : \A s \in SUBSET S : Cardinality(s) = n => \A x \in s : Sum(s) = f[x] + Sum(s \ {x})}
<1>1. 0 \in Good
  BY FS_Subset, FS_EmptySet
<1>2. ASSUME NEW n \in Nat, n \in Good PROVE n + 1 \in Good
  <2> SUFFICES ASSUME NEW s \in SUBSET S, Cardinality(s) = n + 1, NEW x \in s
               PROVE  Sum(s) = f[x] + Sum(s \ {x})
    OBVIOUS
  <2> DEFINE y == One(s)
  <2>1. s # {} /\ IsFiniteSet(s)
    BY FS_Subset
  <2>2. y \in s /\ Cardinality(s \ {y}) = n /\ Cardinality(s \ {x}) = n
    <3>1. y \in s BY <2>1, Smaller
    <3>2. ASSUME NEW z \in s PROVE Cardinality(s \ {z}) = n
      <4>1. Cardinality(s \ {z}) = Cardinality(s) - 1 BY <2>1, FS_RemoveElement
      <4> QED BY <4>1
    <3> HIDE DEF y
    <3> QED BY <3>1, <3>2
  <2>3. Sum(s) = f[y] + Sum(s \ {y})
    BY <2>1, SumOne
  <2>4. CASE x = y BY <2>3, <2>4
  <2>5. CASE x # y
    <3>1. x \in s \ {y} /\ y \in s \ {x} /\ (s \ {x}) \ {y} = (s \ {y}) \ {x}
      BY <2>2, <2>5
    <3>2. Sum(s \ {y}) = f[x] + Sum((s \ {y}) \ {x})
      BY <1>2, <2>2, <3>1
    <3>3. Sum(s \ {x}) = f[y] + Sum((s \ {x}) \ {y})
      BY <1>2, <2>2, <3>1
    <3>4. f[x] \in Nat /\ f[y] \in Nat /\ Sum((s \ {y}) \ {x}) \in Nat
      BY <2>2, SumNat, FS_Subset
    <3> HIDE DEF Sum, y
    <3> QED BY <2>3, <3>1, <3>2, <3>3, <3>4
  <2> QED BY <2>4, <2>5
<1>3. Cardinality(S) \in Good
  <2> HIDE DEF Good
  <2> QED BY <1>1, <1>2, Induct, FS_CardinalityType
<1> QED BY <1>3

(* A sum is that of the keys a sequence lists, each once, and of the rest. *)
LEMMA SumDrop ==
  ASSUME NEW K, IsFiniteSet(K), NEW f, \A x \in K : f[x] \in Nat, NEW n \in Nat, NEW o,
         \A i \in 1 .. n : o[i] \in K, \A i, j \in 1 .. n : o[i] = o[j] => i = j
  PROVE  SumFunctionOnSet(f, K) = SumFunctionOnSet([i \in 1 .. n |-> f[o[i]]], 1 .. n)
                                    + SumFunctionOnSet(f, K \ {o[i] : i \in 1 .. n})
<1> DEFINE w == [i \in 1 .. n |-> f[o[i]]]
           Rest(m) == K \ {o[i] : i \in 1 .. m}
           Good == {m \in Nat : m <= n => SumFunctionOnSet(f, K) =
                                   SumFunctionOnSet(w, 1 .. m) + SumFunctionOnSet(f, Rest(m))}
<1>1. 0 \in Good
  <2>1. Rest(0) = K /\ 1 .. 0 = {} OBVIOUS
  <2>2. SumFunctionOnSet(f, K) \in Nat BY SumNat
  <2> HIDE DEF Rest, w
  <2> QED BY <2>1, <2>2, SumEmpty
<1>2. ASSUME NEW m \in Nat, m \in Good PROVE m + 1 \in Good
  <2> SUFFICES ASSUME m + 1 <= n
               PROVE  SumFunctionOnSet(f, K) =
                        SumFunctionOnSet(w, 1 .. m + 1) + SumFunctionOnSet(f, Rest(m + 1))
    OBVIOUS
  <2> DEFINE x == o[m + 1]
  <2>1. Rest(m + 1) = Rest(m) \ {x} /\ x \in Rest(m)
    <3>1. 1 .. m + 1 = (1 .. m) \cup {m + 1} OBVIOUS
    <3>2. \A i \in 1 .. m : o[i] # x OBVIOUS
    <3> QED BY <3>1, <3>2
  <2>2. Rest(m) \subseteq K /\ IsFiniteSet(Rest(m)) /\ IsFiniteSet(Rest(m + 1))
    BY FS_Subset
  <2>3. SumFunctionOnSet(f, Rest(m)) = f[x] + SumFunctionOnSet(f, Rest(m + 1))
    <3> HIDE DEF Rest, x
    <3> QED BY <2>1, <2>2, SumTakes
  <2>4. SumFunctionOnSet(w, 1 .. m + 1) = w[m + 1] + SumFunctionOnSet(w, 1 .. m)
    <3>1. IsFiniteSet(1 .. m + 1) BY FS_Interval
    <3>2. (1 .. m + 1) \ {m + 1} = 1 .. m /\ m + 1 \in 1 .. m + 1 OBVIOUS
    <3>3. \A i \in 1 .. m + 1 : w[i] \in Nat OBVIOUS
    <3> HIDE DEF w
    <3> QED BY <3>1, <3>2, <3>3, SumTakes
  <2>5. w[m + 1] = f[x] OBVIOUS
  <2>6. SumFunctionOnSet(w, 1 .. m) \in Nat
    <3>1. IsFiniteSet(1 .. m) /\ \A i \in 1 .. m : w[i] \in Nat BY FS_Interval
    <3> HIDE DEF w
    <3> QED BY <3>1, SumNat
  <2>7. SumFunctionOnSet(f, Rest(m + 1)) \in Nat
    <3>1. \A z \in Rest(m + 1) : f[z] \in Nat OBVIOUS
    <3> HIDE DEF Rest
    <3> QED BY <2>2, <3>1, SumNat
  <2>8. f[x] \in Nat OBVIOUS
  <2>9. SumFunctionOnSet(f, K) = SumFunctionOnSet(w, 1 .. m) + SumFunctionOnSet(f, Rest(m))
    BY <1>2
  <2> HIDE DEF w, Rest, x
  <2> QED BY <2>3, <2>4, <2>5, <2>6, <2>7, <2>8, <2>9
<1>3. n \in Good
  <2> HIDE DEF Good
  <2> QED BY <1>1, <1>2, Induct
<1> QED BY <1>3

(* The first n keys of a queue, and a function's values along them.        *)
First(o, n) == {o[i] : i \in 1 .. n}
Along(f, o, n) == [i \in 1 .. n |-> f[o[i]]]

(* The same, with the first n keys of a queue by name.                     *)
LEMMA SumDropped ==
  ASSUME NEW K, NEW f, NEW n, NEW o, n \in Nat, IsFiniteSet(K), \A x \in K : f[x] \in Nat,
         \A i \in 1 .. n : o[i] \in K, \A i, j \in 1 .. n : o[i] = o[j] => i = j
  PROVE  SumFunctionOnSet(f, K) = SumFunctionOnSet(Along(f, o, n), 1 .. n) + SumFunctionOnSet(f, K \ First(o, n))
BY SumDrop DEF First, Along

-----------------------------------------------------------------------------
(* Each entry once; the entries.                                           *)
Each(s) == \A i, j \in 1 .. Len(s) : s[i] = s[j] => i = j
In(s) == {s[i] : i \in 1 .. Len(s)}

(* What position, remove and push_back do to a queue without duplicates.   *)
LEMMA MovedToEnd ==
  ASSUME NEW S, NEW s \in Seq(S), Each(s), NEW j \in 1 .. Len(s)
  PROVE  LET t == ToEnd(s, s[j])
         IN  /\ t \in Seq(S) /\ Len(t) = Len(s)
             /\ \A i \in 1 .. Len(s) : t[i] = IF i < j THEN s[i] ELSE IF i < Len(s) THEN s[i + 1] ELSE s[j]
<1> DEFINE I == {i \in 1 .. Len(s) : s[i] = s[j]}
<1>1. I = {j} BY DEF Each
<1>2. Min(I) = j BY <1>1 DEF Min
<1>3. ToEnd(s, s[j]) = Append(RemoveAt(s, j), s[j])
  <2>1. I # {} BY <1>1
  <2> DEFINE at == IF I # {} THEN Min(I) ELSE 0
  <2>2. ToEnd(s, s[j]) = Append(IF at = 0 THEN s ELSE RemoveAt(s, at), s[j])
    BY DEF ToEnd, SelectInSeq
  <2>3. at = j BY <1>2, <2>1
  <2> HIDE DEF at
  <2> QED BY <2>2, <2>3
<1> DEFINE u == RemoveAt(s, j)
<1>4. u \in Seq(S) /\ Len(u) = Len(s) - 1 /\ \A i \in 1 .. Len(s) - 1 : u[i] = IF i < j THEN s[i] ELSE s[i + 1]
  <2> DEFINE a == SubSeq(s, 1, j - 1)
             b == SubSeq(s, j + 1, Len(s))
  <2>1. a \in Seq(S) /\ Len(a) = j - 1 /\ \A i \in 1 .. j - 1 : a[i] = s[i]
    OBVIOUS
  <2>2. b \in Seq(S) /\ Len(b) = Len(s) - j /\ \A i \in 1 .. Len(s) - j : b[i] = s[j + i]
    OBVIOUS
  <2>3. u = a \o b BY DEF RemoveAt
  <2> HIDE DEF a, b, u
  <2>4. u \in Seq(S) /\ Len(u) = Len(s) - 1
    BY <2>1, <2>2, <2>3
  <2>5. ASSUME NEW i \in 1 .. Len(s) - 1 PROVE u[i] = IF i < j THEN s[i] ELSE s[i + 1]
    <3>1. u[i] = IF i <= Len(a) THEN a[i] ELSE b[i - Len(a)]
      BY <2>1, <2>2, <2>3, ConcatProperties
    <3> QED BY <2>1, <2>2, <3>1
  <2> QED BY <2>4, <2>5
<1> HIDE DEF u
<1>5. s[j] \in S OBVIOUS
<1> QED BY <1>3, <1>4, <1>5 DEF u

(* What they do when the key is not in the queue.                          *)
LEMMA AddedAtEnd ==
  ASSUME NEW S, NEW s \in Seq(S), NEW k \in S, k \notin In(s)
  PROVE  ToEnd(s, k) = Append(s, k)
<1>1. {i \in 1 .. Len(s) : s[i] = k} = {} BY DEF In
<1> QED BY <1>1 DEF ToEnd, SelectInSeq

(* The entries of one end of a sequence.                                   *)
LEMMA SuffixOf ==
  ASSUME NEW S, NEW s \in Seq(S), NEW t \in Seq(S), Len(s) <= Len(t),
         \A i \in 1 .. Len(s) : s[i] = t[Len(t) - Len(s) + i]
  PROVE  IsSuffix(s, t)
<1> DEFINE a == Reverse(s)
           b == Reverse(t)
<1>1. a \in Seq(S) /\ Len(a) = Len(s) /\ \A i \in 1 .. Len(s) : a[i] = s[Len(s) - i + 1]
  BY DEF Reverse
<1>2. b \in Seq(S) /\ Len(b) = Len(t) /\ \A i \in 1 .. Len(t) : b[i] = t[Len(t) - i + 1]
  BY DEF Reverse
<1>3. \A i \in 1 .. Len(s) : a[i] = b[i]
  <2> SUFFICES ASSUME NEW i \in 1 .. Len(s) PROVE a[i] = b[i] OBVIOUS
  <2>1. Len(s) - i + 1 \in 1 .. Len(s) /\ i \in 1 .. Len(t) OBVIOUS
  <2>2. s[Len(s) - i + 1] = t[Len(t) - Len(s) + (Len(s) - i + 1)] BY <2>1
  <2>3. Len(t) - Len(s) + (Len(s) - i + 1) = Len(t) - i + 1 OBVIOUS
  <2> HIDE DEF a, b
  <2> QED BY <1>1, <1>2, <2>1, <2>2, <2>3
<1> HIDE DEF a, b
<1>4. SubSeq(a, 1, Len(a)) = SubSeq(b, 1, Len(a))
  BY <1>1, <1>2, <1>3
<1> QED BY <1>1, <1>2, <1>4 DEF IsSuffix, IsPrefix, a, b

-----------------------------------------------------------------------------
(***************************************************************************)
(* The inductive invariant.                                                *)
(***************************************************************************)
Keys == Nat \X Nat
Bits == {"tail", "op", "unit"} \X Nat
Pcs == {"enter", "lookup", "assemble", "insert", "scan", "scales", "publish", "done", "failed"}

TypeOK ==
    /\ bad \in Damage
    /\ pc \in [Walks -> Pcs] /\ base \in [Walks -> 0 .. Rows]
    /\ held \in [Walks -> Seq(Bits)] /\ seen \in [Walks -> Seq(Bits)]
    /\ blocked \in {"none", "filling", "set"} /\ scales \in BOOLEAN

(* A chunk somebody may be served: inside the image, and no row of it bad. *)
Sound(k) == k[1] + k[2] <= Rows /\ \A r \in bad : ~ (k[1] <= r /\ r < k[1] + k[2])

(* The queue lists the cached chunks once each; a cached chunk is the rows *)
(* its key names, so a second thread that assembled it loses nothing by    *)
(* dropping its own; the count is what the chunks weigh.                   *)
Weights(c) == [k \in DOMAIN c |-> Bytes(c[k])]
CacheInv ==
    /\ order \in Seq(Keys) /\ Each(order) /\ In(order) = DOMAIN chunks
    /\ chunks = [k \in DOMAIN chunks |-> Span(k[1], k[2])]
    /\ \A k \in DOMAIN chunks : Sound(k)
    /\ used = SumFunction(Weights(chunks))
    /\ used > Budget => Len(order) = 1

(* The queue is the end of the list of everything ever used.               *)
Ends(s, t) == /\ Len(s) <= Len(t)
              /\ \A i \in 1 .. Len(s) : s[i] = t[Len(t) - Len(s) + i]
RecencyInv ==
    /\ recency \in Seq(Keys) /\ Each(recency)
    /\ Ends(order, recency)
    /\ recency # <<>> => order # <<>>

(* A walk has read the rows before its next chunk and holds the chunk it   *)
(* stands at; it got past no bad row.                                      *)
WalkInv(w) ==
    /\ seen[w] = Span(0, base[w])
    /\ held[w] = IF pc[w] \in {"insert", "scan"} THEN Assembled(w) ELSE <<>>
    /\ pc[w] \in {"assemble", "insert", "scan"} => base[w] < Rows
    /\ pc[w] \in {"insert", "scan"} => Sound(Key(w))
    /\ pc[w] \in {"enter", "scales", "publish"} => w \in Readers
    /\ pc[w] \in {"scales", "publish"} => base[w] = Rows
    /\ pc[w] = "publish" => scales
    /\ pc[w] = "done" /\ w \notin Readers => base[w] = Rows
    /\ \A r \in bad : base[w] <= r

BlockedInv ==
    blocked = "set" => scales /\ bad = {} /\ \E w \in Readers : base[w] = Rows

MInv == TypeOK /\ CacheInv /\ RecencyInv /\ (\A w \in Walks : WalkInv(w)) /\ BlockedInv

-----------------------------------------------------------------------------
(* A sequence that lists a set, each member once, is as long as the set.   *)
LEMMA ListCounts ==
  ASSUME NEW S, NEW s \in Seq(S), Each(s)
  PROVE  IsFiniteSet(In(s)) /\ Cardinality(In(s)) = Len(s)
<1> DEFINE f == [i \in 1 .. Len(s) |-> s[i]]
<1>1. f \in Bijection(1 .. Len(s), In(s))
  BY DEF In, Each, Bijection, Injection, Surjection, IsInjective
<1>2. ExistsBijection(1 .. Len(s), In(s))
  BY <1>1 DEF ExistsBijection
<1>3. Len(s) \in Nat OBVIOUS
<1> QED BY <1>2, <1>3, FS_CountingElements, FS_NatBijection

LEMMA RowBits == \A r \in Nat : Row(r) \in Bits
BY DEF Row, Bits

(* Spans of the image: their rows, and one after another.                  *)
LEMMA SpanIs ==
  ASSUME NEW b \in Nat, NEW n \in Nat
  PROVE  Span(b, n) \in Seq(Bits) /\ Len(Span(b, n)) = n /\ \A i \in 1 .. n : Span(b, n)[i] = Row(b + i - 1)
<1>1. ASSUME NEW i \in 1 .. n PROVE Row(b + i - 1) \in Bits
  <2>1. b + i - 1 \in Nat OBVIOUS
  <2> QED BY <2>1, RowBits
<1> DEFINE f == [i \in 1 .. n |-> Row(b + i - 1)]
<1>2. f \in [1 .. n -> Bits] /\ \A i \in 1 .. n : f[i] = Row(b + i - 1)
  BY <1>1
<1> HIDE DEF f
<1>3. f \in Seq(Bits) /\ Len(f) = n
  BY <1>2
<1> QED BY <1>2, <1>3 DEF Span, f

LEMMA SpanGrows ==
  ASSUME NEW b \in Nat, NEW n \in Nat
  PROVE  Span(0, b) \o Span(b, n) = Span(0, b + n)
<1> DEFINE x == Span(0, b)
           y == Span(b, n)
           z == Span(0, b + n)
           u == x \o y
<1>1. x \in Seq(Bits) /\ Len(x) = b /\ \A i \in 1 .. b : x[i] = Row(0 + i - 1)
  BY SpanIs, 0 \in Nat
<1>2. y \in Seq(Bits) /\ Len(y) = n /\ \A i \in 1 .. n : y[i] = Row(b + i - 1)
  BY SpanIs
<1>3. z \in Seq(Bits) /\ Len(z) = b + n /\ \A i \in 1 .. b + n : z[i] = Row(0 + i - 1)
  BY SpanIs, 0 \in Nat, b + n \in Nat
<1> HIDE DEF x, y, z
<1>4. /\ u \in Seq(Bits) /\ Len(u) = b + n
      /\ \A i \in 1 .. b + n : u[i] = IF i <= b THEN x[i] ELSE y[i - b]
  BY <1>1, <1>2, ConcatProperties
<1> HIDE DEF u
<1>5. ASSUME NEW i \in 1 .. b + n PROVE u[i] = z[i]
  <2>1. CASE i <= b
    <3>1. i \in 1 .. b BY <2>1
    <3> QED BY <1>1, <1>3, <1>4, <2>1, <3>1
  <2>2. CASE ~ (i <= b)
    <3>1. i - b \in 1 .. n /\ b + (i - b) - 1 = 0 + i - 1 BY <2>2
    <3>2. u[i] = Row(b + (i - b) - 1) BY <1>2, <1>4, <2>2, <3>1
    <3> QED BY <1>3, <3>1, <3>2
  <2> QED BY <2>1, <2>2
<1>6. u = z
  BY <1>3, <1>4, <1>5
<1> QED BY <1>6 DEF u, x, y, z

LEMMA ReadOn ==
  ASSUME NEW b \in Nat, NEW n \in Nat, NEW t, t = Span(0, b) \o Span(b, n), NEW e, e = b + n
  PROVE  t = Span(0, e) /\ t \in Seq(Bits)
<1>1. t = Span(0, e)
  BY SpanGrows
<1> QED BY <1>1, SpanIs, 0 \in Nat, e \in Nat

(* The chunk of a walk that has rows left is not empty and inside the      *)
(* image.                                                                  *)
LEMMA KeyIs ==
  ASSUME ImageAssumption, TypeOK, NEW w \in Walks, base[w] < Rows
  PROVE  /\ Key(w) \in Keys /\ Key(w)[1] = base[w]
         /\ Key(w)[2] = Least(ChunkRows[w], Rows - base[w])
         /\ Key(w)[2] \in 1 .. Rows /\ Key(w)[1] + Key(w)[2] = Least(base[w] + ChunkRows[w], Rows)
         /\ Assembled(w) = Span(Key(w)[1], Key(w)[2])
<1>1. base[w] \in 0 .. Rows /\ ChunkRows[w] \in Nat \ {0} /\ Rows \in Nat
  BY DEF TypeOK, ImageAssumption
<1> QED BY <1>1 DEF Key, Keys, Least, Assembled

-----------------------------------------------------------------------------
(* What a step that leaves the cache, a walk or the cell alone preserves.  *)
LEMMA CacheKept ==
  ASSUME CacheInv, RecencyInv, UNCHANGED <<bad, order, chunks, used, recency>>
  PROVE  CacheInv' /\ RecencyInv'
BY DEF CacheInv, RecencyInv, Each, In, Ends, Sound, Weights, Span, Row, Bytes

LEMMA WalkKept ==
  ASSUME NEW v, WalkInv(v), bad' = bad, scales => scales',
         pc'[v] = pc[v], base'[v] = base[v], held'[v] = held[v], seen'[v] = seen[v]
  PROVE  WalkInv(v)'
BY DEF WalkInv, Assembled, Sound, Key, Span, Row

LEMMA OthersKept ==
  ASSUME MInv, NEW w \in Walks, bad' = bad, scales => scales',
         \A v \in Walks \ {w} : /\ pc'[v] = pc[v] /\ base'[v] = base[v]
                                /\ held'[v] = held[v] /\ seen'[v] = seen[v],
         WalkInv(w)'
  PROVE  \A v \in Walks : WalkInv(v)'
<1> SUFFICES ASSUME NEW v \in Walks, v # w PROVE WalkInv(v)'
  OBVIOUS
<1> QED BY WalkKept DEF MInv

LEMMA BlockedKept ==
  ASSUME BlockedInv, blocked' \in {blocked, "none", "filling"}, bad' = bad, scales => scales',
         \A v \in Readers : base[v] = Rows => base'[v] = Rows
  PROVE  BlockedInv'
BY DEF BlockedInv

LEMMA InitMInv == Init => MInv
<1> SUFFICES ASSUME Init PROVE MInv
  OBVIOUS
<1> USE ImageAssumption DEF Init
<1>1. TypeOK
  <2>1. pc \in [Walks -> Pcs] BY DEF Pcs
  <2>2. base \in [Walks -> 0 .. Rows] BY DEF ImageAssumption
  <2>3. <<>> \in Seq(Bits) OBVIOUS
  <2>4. held \in [Walks -> Seq(Bits)] /\ seen \in [Walks -> Seq(Bits)] BY <2>3
  <2> QED BY <2>1, <2>2, <2>4 DEF TypeOK
<1>2. CacheInv
  <2>1. DOMAIN chunks = {} /\ chunks = [k \in {} |-> Span(k[1], k[2])]
    OBVIOUS
  <2>2. In(order) = {} /\ order \in Seq(Keys) /\ Each(order)
    BY DEF In, Each
  <2>3. SumFunction(Weights(chunks)) = 0
    BY <2>1, SumEmpty DEF SumFunction, Weights
  <2> QED BY <2>1, <2>2, <2>3 DEF CacheInv, ImageAssumption
<1>3. RecencyInv
  BY DEF RecencyInv, Ends, Each
<1>4. ASSUME NEW w \in Walks PROVE WalkInv(w)
  <2>1. Span(0, 0) = <<>>
    BY DEF Span
  <2>2. pc[w] \in {"enter", "lookup"} /\ (pc[w] = "enter" => w \in Readers)
    OBVIOUS
  <2>3. base[w] = 0 /\ held[w] = <<>> /\ seen[w] = <<>>
    OBVIOUS
  <2>4. \A r \in bad : 0 <= r
    BY DEF ImageAssumption
  <2> QED BY <2>1, <2>2, <2>3, <2>4 DEF WalkInv
<1>5. BlockedInv
  BY DEF BlockedInv
<1> QED BY <1>1, <1>2, <1>3, <1>4, <1>5 DEF MInv

LEMMA EnterKeeps == ASSUME ImageAssumption, MInv, NEW w \in Walks, Enter(w) PROVE MInv'
<1> USE DEF Enter
<1>1. TypeOK'
  BY DEF MInv, TypeOK, Pcs
<1>2. CacheInv' /\ RecencyInv'
  BY CacheKept DEF MInv
<1>3. \A v \in Walks : WalkInv(v)'
  <2>1. pc \in [Walks -> Pcs] /\ WalkInv(w)
    BY DEF MInv, TypeOK
  <2>2. pc'[w] \in {"done", "lookup"} /\ w \in Readers
    BY <2>1 DEF WalkInv
  <2>3. WalkInv(w)'
    BY <2>1, <2>2 DEF WalkInv, Span, Row
  <2> QED BY <2>1, <2>3, OthersKept
<1>4. BlockedInv'
  BY BlockedKept DEF MInv
<1> QED BY <1>1, <1>2, <1>3, <1>4 DEF MInv

LEMMA AssembleKeeps == ASSUME ImageAssumption, MInv, NEW w \in Walks, Assemble(w) PROVE MInv'
<1> USE DEF Assemble
<1>0. pc \in [Walks -> Pcs] /\ held \in [Walks -> Seq(Bits)] /\ WalkInv(w) /\ TypeOK /\ base[w] < Rows
  BY DEF MInv, TypeOK, WalkInv
<1>1. Assembled(w) \in Seq(Bits)
  <2>1. Key(w)[1] \in Nat /\ Key(w)[2] \in Nat /\ Assembled(w) = Span(Key(w)[1], Key(w)[2])
    BY <1>0, KeyIs DEF Keys
  <2> QED BY <2>1, SpanIs
<1>2. TypeOK'
  BY <1>1 DEF MInv, TypeOK, Pcs, Released
<1>3. CacheInv' /\ RecencyInv'
  BY CacheKept DEF MInv
<1>4. WalkInv(w)'
  <2>1. CASE Refused(w)
    <3>1. pc'[w] = "failed"
      BY <1>0, <2>1
    <3> QED BY <1>0, <2>1, <3>1 DEF WalkInv, Span, Row
  <2>2. CASE ~ Refused(w)
    <3>1. pc'[w] = "insert" /\ held'[w] = Assembled(w)
      BY <1>0, <2>2
    <3>2. Sound(Key(w))
      <4>0. base[w] \in Nat /\ \A r \in bad : r \in Nat
        BY <1>0 DEF TypeOK, ImageAssumption
      <4> DEFINE n == Least(ChunkRows[w], Rows - base[w])
      <4>1. Key(w)[1] = base[w] /\ Key(w)[2] = n /\ n \in 1 .. Rows /\ base[w] + n <= Rows
        BY <1>0, KeyIs DEF Least, TypeOK, ImageAssumption
      <4>2. ~ \E i \in 0 .. n - 1 : base[w] + i \in bad
        BY <2>2 DEF Refused
      <4> HIDE DEF n
      <4>3. ASSUME NEW r \in bad, base[w] <= r, r < base[w] + n PROVE FALSE
        <5>1. r - base[w] \in 0 .. n - 1 /\ base[w] + (r - base[w]) = r
          BY <4>0, <4>1, <4>3
        <5> QED BY <4>2, <5>1
      <4> QED BY <4>1, <4>3 DEF Sound
    <3>3. Assembled(w)' = Assembled(w) /\ Key(w)' = Key(w) /\ Sound(Key(w))' /\ Span(0, base[w])' = Span(0, base[w])
      BY <3>2 DEF Assembled, Key, Sound, Span, Row
    <3> QED BY <1>0, <3>1, <3>3 DEF WalkInv
  <2> QED BY <2>1, <2>2
<1>5. \A v \in Walks : WalkInv(v)'
  BY <1>0, <1>4, OthersKept
<1>6. BlockedInv'
  BY BlockedKept DEF MInv, Released
<1> QED BY <1>2, <1>3, <1>5, <1>6 DEF MInv

LEMMA ScanKeeps == ASSUME ImageAssumption, MInv, NEW w \in Walks, Scan(w) PROVE MInv'
<1> USE DEF Scan
<1>0. /\ pc \in [Walks -> Pcs] /\ held \in [Walks -> Seq(Bits)] /\ seen \in [Walks -> Seq(Bits)]
      /\ base \in [Walks -> 0 .. Rows] /\ WalkInv(w) /\ TypeOK /\ base[w] < Rows /\ Sound(Key(w))
  BY DEF MInv, TypeOK, WalkInv
<1>1. /\ base'[w] = Least(base[w] + ChunkRows[w], Rows) /\ base'[w] \in 0 .. Rows
      /\ base'[w] = Key(w)[1] + Key(w)[2] /\ Key(w)[1] = base[w] /\ Key(w)[2] \in Nat
  <2>1. base'[w] = Least(base[w] + ChunkRows[w], Rows) BY <1>0
  <2>2. Key(w)[1] + Key(w)[2] = Least(base[w] + ChunkRows[w], Rows) /\ Key(w)[1] = base[w] /\ Key(w)[2] \in Nat
    BY <1>0, KeyIs DEF Keys
  <2>3. Least(base[w] + ChunkRows[w], Rows) \in 0 .. Rows
    BY <1>0 DEF Least, ImageAssumption
  <2> QED BY <2>1, <2>2, <2>3
<1>2. seen'[w] = Span(0, base'[w]) /\ seen'[w] \in Seq(Bits)
  <2>1. held[w] = Span(Key(w)[1], Key(w)[2]) /\ seen[w] = Span(0, base[w])
    BY <1>0, KeyIs DEF WalkInv
  <2>2. seen'[w] = seen[w] \o held[w] BY <1>0
  <2>3. base[w] \in Nat BY <1>0 DEF ImageAssumption
  <2> DEFINE b == base[w]
             n == Key(w)[2]
             t == seen'[w]
             e == base'[w]
  <2>4. b \in Nat /\ n \in Nat /\ t = Span(0, b) \o Span(b, n) /\ e = b + n
    BY <1>1, <2>1, <2>2, <2>3
  <2> HIDE DEF Scan, b, n, t, e
  <2>5. t = Span(0, e) /\ t \in Seq(Bits)
    BY <2>4, ReadOn
  <2> QED BY <2>5 DEF t, e
<1>3. TypeOK'
  <2>1. base' \in [Walks -> 0 .. Rows] BY <1>0, <1>1
  <2>2. seen' \in [Walks -> Seq(Bits)] BY <1>0, <1>2
  <2>3. held' \in [Walks -> Seq(Bits)] BY <1>0
  <2>4. pc' \in [Walks -> Pcs] BY <1>0 DEF Pcs
  <2> QED BY <1>0, <2>1, <2>2, <2>3, <2>4 DEF TypeOK
<1>4. CacheInv' /\ RecencyInv'
  BY CacheKept DEF MInv
<1>5. WalkInv(w)'
  <2>1. held'[w] = <<>> BY <1>0
  <2>2. \/ pc'[w] = "lookup" /\ base'[w] < Rows
        \/ pc'[w] = "scales" /\ w \in Readers /\ base'[w] = Rows
        \/ pc'[w] = "done" /\ w \notin Readers /\ base'[w] = Rows
    BY <1>0, <1>1 DEF ImageAssumption
  <2>3. ASSUME NEW r \in bad PROVE base'[w] <= r
    <3>1. r \in Nat BY <1>0 DEF TypeOK, ImageAssumption
    <3>2. base[w] <= r BY <1>0 DEF WalkInv
    <3> QED BY <1>0, <1>1, <3>1, <3>2 DEF Sound, ImageAssumption
  <2>4. Span(0, base'[w]) = Span(0, base[w])'
    BY DEF Span, Row
  <2> QED BY <1>2, <2>1, <2>2, <2>3, <2>4 DEF WalkInv
<1>6. \A v \in Walks : WalkInv(v)'
  BY <1>0, <1>5, OthersKept
<1>7. BlockedInv'
  <2>1. \A v \in Readers : base[v] = Rows => base'[v] = Rows
    BY <1>0 DEF ImageAssumption
  <2> QED BY <2>1, BlockedKept DEF MInv
<1> QED BY <1>3, <1>4, <1>6, <1>7 DEF MInv

LEMMA SetScalesKeeps == ASSUME ImageAssumption, MInv, NEW w \in Walks, SetScales(w) PROVE MInv'
<1> USE DEF SetScales
<1>0. pc \in [Walks -> Pcs] /\ WalkInv(w) /\ pc'[w] = "publish"
  BY DEF MInv, TypeOK
<1>1. TypeOK'
  BY DEF MInv, TypeOK, Pcs
<1>2. CacheInv' /\ RecencyInv'
  BY CacheKept DEF MInv
<1>3. WalkInv(w)'
  BY <1>0 DEF WalkInv, Span, Row
<1>4. \A v \in Walks : WalkInv(v)'
  BY <1>0, <1>3, OthersKept
<1>5. BlockedInv'
  BY BlockedKept DEF MInv
<1> QED BY <1>1, <1>2, <1>4, <1>5 DEF MInv

LEMMA PublishKeeps == ASSUME ImageAssumption, MInv, NEW w \in Walks, Publish(w) PROVE MInv'
<1> USE DEF Publish
<1>0. pc \in [Walks -> Pcs] /\ WalkInv(w) /\ pc'[w] = "done"
  BY DEF MInv, TypeOK
<1>1. TypeOK'
  BY DEF MInv, TypeOK, Pcs
<1>2. CacheInv' /\ RecencyInv'
  BY CacheKept DEF MInv
<1>3. WalkInv(w)'
  BY <1>0 DEF WalkInv, Span, Row
<1>4. \A v \in Walks : WalkInv(v)'
  BY <1>0, <1>3, OthersKept
<1>5. BlockedInv'
  <2>1. scales /\ base[w] = Rows /\ w \in Readers
    BY <1>0 DEF WalkInv
  <2>2. bad = {}
    <3>1. \A r \in bad : r < Rows /\ Rows <= r
      BY <1>0, <2>1 DEF WalkInv, MInv, TypeOK, ImageAssumption
    <3>2. \A r \in bad : r \in Nat /\ Rows \in Nat
      BY DEF MInv, TypeOK, ImageAssumption
    <3> QED BY <3>1, <3>2
  <2> QED BY <2>1, <2>2 DEF BlockedInv
<1> QED BY <1>1, <1>2, <1>4, <1>5 DEF MInv

-----------------------------------------------------------------------------
(* The queue and the list of uses.                                         *)
LEMMA ToEndIs ==
  ASSUME NEW S, NEW s \in Seq(S), Each(s), NEW k \in In(s)
  PROVE  /\ ToEnd(s, k) \in Seq(S) /\ Len(ToEnd(s, k)) = Len(s)
         /\ Each(ToEnd(s, k)) /\ In(ToEnd(s, k)) = In(s)
<1> PICK j \in 1 .. Len(s) : k = s[j]
  BY DEF In
<1> DEFINE t == ToEnd(s, k)
<1>1. /\ t \in Seq(S) /\ Len(t) = Len(s)
      /\ \A i \in 1 .. Len(s) : t[i] = IF i < j THEN s[i] ELSE IF i < Len(s) THEN s[i + 1] ELSE s[j]
  BY MovedToEnd
<1> HIDE DEF t
<1> DEFINE from(i) == IF i < j THEN i ELSE IF i < Len(s) THEN i + 1 ELSE j
<1>2. \A i \in 1 .. Len(s) : from(i) \in 1 .. Len(s) /\ t[i] = s[from(i)]
  BY <1>1
<1>3. \A a, b \in 1 .. Len(s) : from(a) = from(b) => a = b
  OBVIOUS
<1>4. \A b \in 1 .. Len(s) : \E a \in 1 .. Len(s) : from(a) = b
  <2> TAKE b \in 1 .. Len(s)
  <2>1. CASE b < j BY <2>1
  <2>2. CASE b = j
    <3>1. Len(s) \in 1 .. Len(s) /\ from(Len(s)) = b BY <2>2
    <3> QED BY <3>1
  <2>3. CASE b > j
    <3>1. b - 1 \in 1 .. Len(s) /\ from(b - 1) = b BY <2>3
    <3> QED BY <3>1
  <2> QED BY <2>1, <2>2, <2>3
<1> HIDE DEF from
<1>5. Each(t)
  BY <1>1, <1>2, <1>3 DEF Each
<1>6. In(t) = In(s)
  <2>1. In(t) \subseteq In(s) BY <1>1, <1>2 DEF In
  <2>2. ASSUME NEW b \in 1 .. Len(s) PROVE s[b] \in In(t)
    <3>1. PICK a \in 1 .. Len(s) : from(a) = b BY <1>4
    <3>2. t[a] = s[b] BY <1>2, <3>1
    <3> QED BY <1>1, <3>2 DEF In
  <2> QED BY <2>1, <2>2 DEF In
<1> QED BY <1>1, <1>5, <1>6 DEF t

LEMMA AppendIs ==
  ASSUME NEW S, NEW s \in Seq(S), Each(s), NEW k \in S, k \notin In(s)
  PROVE  /\ Append(s, k) \in Seq(S) /\ Len(Append(s, k)) = Len(s) + 1
         /\ Each(Append(s, k)) /\ In(Append(s, k)) = In(s) \cup {k}
<1> DEFINE t == Append(s, k)
<1>1. /\ t \in Seq(S) /\ Len(t) = Len(s) + 1 /\ t[Len(s) + 1] = k
      /\ \A i \in 1 .. Len(s) : t[i] = s[i]
  OBVIOUS
<1>2. Len(s) \in Nat
  OBVIOUS
<1> HIDE DEF t
<1>3. Each(t)
  <2> SUFFICES ASSUME NEW i \in 1 .. Len(t), NEW j \in 1 .. Len(t), t[i] = t[j] PROVE i = j
    BY DEF Each
  <2>1. \A m \in 1 .. Len(t) : m \in 1 .. Len(s) \/ m = Len(s) + 1
    BY <1>1, <1>2
  <2> QED BY <1>1, <2>1 DEF Each, In
<1>4. In(t) = In(s) \cup {k}
  <2>1. \A m \in 1 .. Len(t) : m \in 1 .. Len(s) \/ m = Len(s) + 1
    BY <1>1, <1>2
  <2>2. Len(s) + 1 \in 1 .. Len(t) /\ 1 .. Len(s) \subseteq 1 .. Len(t)
    BY <1>1, <1>2
  <2>3. In(t) \subseteq In(s) \cup {k} BY <1>1, <2>1 DEF In
  <2>4. In(s) \cup {k} \subseteq In(t) BY <1>1, <2>2 DEF In
  <2> QED BY <2>3, <2>4
<1> QED BY <1>1, <1>3, <1>4 DEF t

(* A key of the queue, used now: both lists have it last.                  *)
LEMMA EndsMoved ==
  ASSUME NEW S, NEW s \in Seq(S), NEW t \in Seq(S), Each(s), Each(t), Ends(s, t), NEW k \in In(s)
  PROVE  Ends(ToEnd(s, k), ToEnd(t, k)) /\ k \in In(t)
<1> PICK j \in 1 .. Len(s) : k = s[j]
  BY DEF In
<1> DEFINE d == Len(t) - Len(s)
           a == ToEnd(s, k)
           b == ToEnd(t, k)
<1>0. Len(s) \in Nat /\ Len(t) \in Nat /\ d \in Nat
  BY DEF Ends
<1>1. d + j \in 1 .. Len(t) /\ k = t[d + j]
  BY <1>0 DEF Ends
<1>2. Len(a) = Len(s) /\ \A i \in 1 .. Len(s) : a[i] = IF i < j THEN s[i] ELSE IF i < Len(s) THEN s[i + 1] ELSE s[j]
  BY MovedToEnd
<1>3. /\ Len(b) = Len(t)
      /\ \A i \in 1 .. Len(t) : b[i] = IF i < d + j THEN t[i] ELSE IF i < Len(t) THEN t[i + 1] ELSE t[d + j]
  <2> HIDE DEF d
  <2> QED BY <1>1, MovedToEnd
<1> HIDE DEF a, b
<1>4. \A i \in 1 .. Len(s) : s[i] = t[d + i]
  BY DEF Ends
<1>5. ASSUME NEW i \in 1 .. Len(s) PROVE a[i] = b[d + i]
  <2>1. d + i \in 1 .. Len(t) BY <1>0
  <2>2. CASE i < j
    <3>1. d + i < d + j BY <1>0, <2>2
    <3> QED BY <1>2, <1>3, <1>4, <2>1, <2>2, <3>1
  <2>3. CASE ~ (i < j) /\ i < Len(s)
    <3>1. ~ (d + i < d + j) /\ d + i < Len(t) /\ i + 1 \in 1 .. Len(s) /\ d + (i + 1) = d + i + 1 BY <1>0, <2>3
    <3>2. a[i] = s[i + 1] BY <1>2, <2>3
    <3>3. b[d + i] = t[d + i + 1] BY <1>3, <2>1, <3>1
    <3> QED BY <1>4, <3>1, <3>2, <3>3
  <2>4. CASE ~ (i < j) /\ ~ (i < Len(s))
    <3>1. ~ (d + i < d + j) /\ ~ (d + i < Len(t)) BY <1>0, <2>4
    <3> QED BY <1>1, <1>2, <1>3, <2>1, <2>4, <3>1
  <2> QED BY <2>2, <2>3, <2>4
<1>6. Len(a) <= Len(b) /\ Len(b) - Len(a) = d
  BY <1>0, <1>2, <1>3
<1>7. k \in In(t)
  BY <1>1 DEF In
<1> HIDE DEF d
<1>8. Ends(a, b)
  BY <1>2, <1>5, <1>6 DEF Ends
<1> QED BY <1>7, <1>8 DEF a, b

(* A key the queue does not list, used now.                                *)
LEMMA EndsAdded ==
  ASSUME NEW S, NEW s \in Seq(S), NEW t \in Seq(S), Each(s), Each(t), Ends(s, t),
         NEW k \in S, k \notin In(s)
  PROVE  /\ ToEnd(t, k) \in Seq(S) /\ Each(ToEnd(t, k)) /\ ToEnd(t, k) # <<>>
         /\ Ends(Append(s, k), ToEnd(t, k))
<1> DEFINE d == Len(t) - Len(s)
           a == Append(s, k)
           b == ToEnd(t, k)
<1>0. Len(s) \in Nat /\ Len(t) \in Nat /\ d \in Nat
  BY DEF Ends
<1>1. Len(a) = Len(s) + 1 /\ a[Len(s) + 1] = k /\ \A i \in 1 .. Len(s) : a[i] = s[i]
  OBVIOUS
<1>2. \A i \in 1 .. Len(s) : s[i] = t[d + i]
  BY DEF Ends
<1>3. CASE k \notin In(t)
  <2>1. b = Append(t, k) BY <1>3, AddedAtEnd
  <2>2. b \in Seq(S) /\ Each(b) BY <1>3, <2>1, AppendIs
  <2>3. Len(b) = Len(t) + 1 /\ b[Len(t) + 1] = k /\ \A i \in 1 .. Len(t) : b[i] = t[i]
    BY <2>1
  <2> HIDE DEF a, b
  <2>4. Len(a) <= Len(b) /\ Len(b) - Len(a) = d BY <1>0, <1>1, <2>3
  <2>5. ASSUME NEW i \in 1 .. Len(a) PROVE a[i] = b[d + i]
    <3>1. CASE i \in 1 .. Len(s)
      <4>1. d + i \in 1 .. Len(t) BY <1>0, <3>1
      <4> QED BY <1>1, <1>2, <2>3, <3>1, <4>1
    <3>2. CASE i = Len(s) + 1
      <4>1. d + i = Len(t) + 1 BY <1>0, <3>2
      <4> QED BY <1>1, <2>3, <3>2, <4>1
    <3> QED BY <1>0, <1>1, <3>1, <3>2
  <2> HIDE DEF d
  <2>6. Ends(a, b) BY <2>4, <2>5 DEF Ends
  <2>7. b # <<>> BY <1>0, <2>3
  <2> QED BY <2>2, <2>6, <2>7 DEF a, b
<1>4. CASE k \in In(t)
  <2>1. b \in Seq(S) /\ Each(b) /\ Len(b) = Len(t) BY <1>4, ToEndIs
  <2>2. PICK j \in 1 .. Len(t) : k = t[j] BY <1>4 DEF In
  <2>3. j <= d
    <3> SUFFICES ASSUME ~ (j <= d) PROVE FALSE OBVIOUS
    <3>1. j - d \in 1 .. Len(s) /\ d + (j - d) = j BY <1>0
    <3>2. s[j - d] = k BY <1>2, <2>2, <3>1
    <3> QED BY <3>1, <3>2 DEF In
  <2>4. \A i \in 1 .. Len(t) : b[i] = IF i < j THEN t[i] ELSE IF i < Len(t) THEN t[i + 1] ELSE t[j]
    BY <2>2, MovedToEnd
  <2> HIDE DEF a, b
  <2>5. Len(a) <= Len(b) /\ Len(b) - Len(a) = d - 1 BY <1>0, <1>1, <2>1, <2>2, <2>3
  <2>6. ASSUME NEW i \in 1 .. Len(a) PROVE a[i] = b[d - 1 + i]
    <3>1. CASE i \in 1 .. Len(s)
      <4>1. d - 1 + i \in 1 .. Len(t) /\ ~ (d - 1 + i < j) /\ d - 1 + i < Len(t) /\ d - 1 + i + 1 = d + i
        BY <1>0, <2>2, <2>3, <3>1
      <4>2. b[d - 1 + i] = t[d + i] BY <2>4, <4>1
      <4> QED BY <1>1, <1>2, <3>1, <4>2
    <3>2. CASE i = Len(s) + 1
      <4>1. d - 1 + i = Len(t) /\ Len(t) \in 1 .. Len(t) /\ ~ (Len(t) < j) BY <1>0, <2>2, <3>2
      <4>2. b[Len(t)] = t[j] BY <2>4, <4>1
      <4> QED BY <1>1, <2>2, <3>2, <4>1, <4>2
    <3> QED BY <1>0, <1>1, <3>1, <3>2
  <2> HIDE DEF d
  <2>7. Ends(a, b) BY <2>5, <2>6 DEF Ends
  <2>8. b # <<>> BY <2>1, <2>2
  <2> QED BY <2>1, <2>7, <2>8 DEF a, b
<1> QED BY <1>3, <1>4

(* The first n keys dropped from a queue.                                  *)
LEMMA Dropped ==
  ASSUME NEW S, NEW s \in Seq(S), Each(s), NEW n \in 0 .. Len(s) - 1
  PROVE  LET u == SubSeq(s, n + 1, Len(s))
         IN  /\ u \in Seq(S) /\ Len(u) = Len(s) - n /\ u # <<>>
             /\ Each(u) /\ In(u) = In(s) \ {s[i] : i \in 1 .. n}
             /\ \A t \in Seq(S) : Ends(s, t) => Ends(u, t)
<1> DEFINE u == SubSeq(s, n + 1, Len(s))
<1>0. Len(s) \in Nat
  OBVIOUS
<1>1. u \in Seq(S) /\ Len(u) = Len(s) - n /\ \A i \in 1 .. Len(s) - n : u[i] = s[n + i]
  OBVIOUS
<1> HIDE DEF u
<1>2. Each(u)
  <2> SUFFICES ASSUME NEW i \in 1 .. Len(u), NEW j \in 1 .. Len(u), u[i] = u[j] PROVE i = j
    BY DEF Each
  <2>1. n + i \in 1 .. Len(s) /\ n + j \in 1 .. Len(s) BY <1>0, <1>1
  <2>2. n + i = n + j BY <1>1, <2>1 DEF Each
  <2> QED BY <1>0, <2>2
<1>3. In(u) = In(s) \ {s[i] : i \in 1 .. n}
  <2>1. ASSUME NEW i \in 1 .. Len(u) PROVE u[i] \in In(s) \ {s[m] : m \in 1 .. n}
    <3>1. n + i \in 1 .. Len(s) /\ u[i] = s[n + i] BY <1>0, <1>1
    <3>2. \A m \in 1 .. n : m \in 1 .. Len(s) /\ m # n + i BY <1>0
    <3> QED BY <3>1, <3>2 DEF In, Each
  <2>2. ASSUME NEW i \in 1 .. Len(s), s[i] \notin {s[m] : m \in 1 .. n} PROVE s[i] \in In(u)
    <3>1. i - n \in 1 .. Len(u) /\ n + (i - n) = i BY <1>0, <1>1, <2>2
    <3>2. u[i - n] = s[i] BY <1>1, <3>1
    <3> QED BY <3>1, <3>2 DEF In
  <2> QED BY <2>1, <2>2 DEF In
<1>4. ASSUME NEW t \in Seq(S), Ends(s, t) PROVE Ends(u, t)
  <2>1. Len(t) \in Nat /\ Len(s) <= Len(t) BY <1>4 DEF Ends
  <2>2. Len(u) <= Len(t) /\ Len(t) - Len(u) = Len(t) - Len(s) + n BY <1>0, <1>1, <2>1
  <2>3. ASSUME NEW i \in 1 .. Len(u) PROVE u[i] = t[Len(t) - Len(u) + i]
    <3>1. n + i \in 1 .. Len(s) BY <1>0, <1>1
    <3>2. s[n + i] = t[Len(t) - Len(s) + (n + i)] BY <1>4, <3>1 DEF Ends
    <3>3. Len(t) - Len(s) + (n + i) = Len(t) - Len(u) + i BY <1>0, <1>1, <2>1
    <3> QED BY <1>1, <3>2, <3>3
  <2> QED BY <2>2, <2>3 DEF Ends
<1>5. u # <<>>
  BY <1>0, <1>1
<1> QED BY <1>1, <1>2, <1>3, <1>4, <1>5 DEF u

-----------------------------------------------------------------------------
LEMMA LookupKeeps == ASSUME ImageAssumption, MInv, NEW w \in Walks, Lookup(w) PROVE MInv'
<1> USE DEF Lookup
<1>0. /\ pc \in [Walks -> Pcs] /\ held \in [Walks -> Seq(Bits)] /\ WalkInv(w) /\ TypeOK
      /\ base[w] < Rows /\ CacheInv /\ RecencyInv
  BY DEF MInv, TypeOK
<1>k. /\ Key(w) \in Keys /\ Assembled(w) = Span(Key(w)[1], Key(w)[2])
      /\ Assembled(w) \in Seq(Bits)
  <2>1. Key(w) \in Keys /\ Assembled(w) = Span(Key(w)[1], Key(w)[2])
    BY <1>0, KeyIs
  <2>2. Key(w)[1] \in Nat /\ Key(w)[2] \in Nat
    BY <2>1 DEF Keys
  <2> QED BY <2>1, <2>2, SpanIs
<1>s. Assembled(w)' = Assembled(w) /\ Key(w)' = Key(w) /\ Span(0, base[w])' = Span(0, base[w])
  BY DEF Assembled, Key, Span, Row
<1>1. CASE Key(w) \in DOMAIN chunks
  <2> DEFINE k == Key(w)
  <2>0. order' = ToEnd(order, k) /\ recency' = ToEnd(recency, k) /\ UNCHANGED <<bad, chunks, used>>
    BY <1>1 DEF Touched
  <2>1. held' = [held EXCEPT ![w] = chunks[k]] /\ pc'[w] = "scan" /\ chunks[k] = Assembled(w)
    BY <1>0, <1>1, <1>k DEF CacheInv
  <2>2. k \in In(order) /\ order \in Seq(Keys) /\ Each(order)
    BY <1>0, <1>1 DEF CacheInv
  <2>3. recency \in Seq(Keys) /\ Each(recency) /\ Ends(order, recency)
    BY <1>0 DEF RecencyInv
  <2>4. Ends(order', recency') /\ k \in In(recency)
    <3> HIDE DEF k
    <3> QED BY <2>0, <2>2, <2>3, EndsMoved
  <2>5. /\ order' \in Seq(Keys) /\ Each(order') /\ In(order') = In(order) /\ Len(order') = Len(order)
        /\ recency' \in Seq(Keys) /\ Each(recency')
    <3> HIDE DEF k
    <3> QED BY <2>0, <2>2, <2>3, <2>4, ToEndIs
  <2>6. Each(order)' /\ In(order)' = In(order) /\ Each(recency)' /\ Ends(order, recency)'
    BY <2>4, <2>5 DEF Each, In, Ends
  <2>7. CacheInv'
    <3>1. In(order)' = DOMAIN chunks' /\ chunks' = [x \in DOMAIN chunks' |-> Span(x[1], x[2])']
      BY <1>0, <2>0, <2>6 DEF CacheInv, Span, Row
    <3>2. \A x \in DOMAIN chunks' : Sound(x)'
      BY <1>0, <2>0 DEF CacheInv, Sound
    <3>3. used' = SumFunction(Weights(chunks))'
      BY <1>0, <2>0 DEF CacheInv, Weights, Bytes
    <3>4. used' > Budget => Len(order') = 1
      BY <1>0, <2>0, <2>5 DEF CacheInv
    <3> HIDE DEF Lookup
    <3> QED BY <2>5, <2>6, <3>1, <3>2, <3>3, <3>4 DEF CacheInv
  <2>8. RecencyInv'
    <3>1. order' # <<>>
      <4>1. Len(order) # 0 BY <2>2 DEF In
      <4> QED BY <2>5, <4>1
    <3> QED BY <2>5, <2>6, <3>1 DEF RecencyInv
  <2>9. TypeOK'
    BY <1>0, <1>1, <1>k, <2>1 DEF TypeOK, Pcs
  <2>10. WalkInv(w)'
    <3>1. held'[w] = Assembled(w)
      BY <1>0, <2>1
    <3>2. Sound(Key(w))'
      BY <1>0, <1>1, <1>s DEF CacheInv, Sound
    <3> QED BY <1>0, <1>s, <2>1, <3>1, <3>2 DEF WalkInv
  <2>11. \A v \in Walks : WalkInv(v)'
    BY <1>0, <2>10, OthersKept
  <2>12. BlockedInv'
    BY BlockedKept DEF MInv
  <2> QED BY <2>7, <2>8, <2>9, <2>11, <2>12 DEF MInv
<1>2. CASE Key(w) \notin DOMAIN chunks
  <2>1. pc'[w] = "assemble"
    BY <1>0, <1>2
  <2>2. TypeOK'
    BY <1>0, <1>2 DEF TypeOK, Pcs
  <2>3. CacheInv' /\ RecencyInv'
    BY <1>2, CacheKept DEF MInv
  <2>4. WalkInv(w)'
    BY <1>0, <1>2, <1>s, <2>1 DEF WalkInv
  <2>5. \A v \in Walks : WalkInv(v)'
    BY <1>0, <1>2, <2>4, OthersKept
  <2>6. BlockedInv'
    BY BlockedKept DEF MInv
  <2> QED BY <2>2, <2>3, <2>5, <2>6 DEF MInv
<1> QED BY <1>1, <1>2

(* How many keys an insertion drops, whatever the cache holds.             *)
LEMMA EvictedIs ==
  ASSUME ImageAssumption, NEW o, NEW c, NEW u \in Nat, Len(o) \in Nat \ {0},
         \A i \in 1 .. Len(o) : Bytes(c[o[i]]) \in Nat
  PROVE  /\ Evicted(o, c, u) \in 0 .. Len(o) - 1
         /\ \/ u <= Budget + SumFunction([i \in 1 .. Evicted(o, c, u) |-> Bytes(c[o[i]])])
            \/ Evicted(o, c, u) = Len(o) - 1
<1> DEFINE Sum(n) == SumFunction([i \in 1 .. n |-> Bytes(c[o[i]])])
           Stop(n) == u <= Budget + Sum(n) \/ n = Len(o) - 1
           T == {n \in 0 .. Len(o) - 1 : Stop(n)}
<1>1. ASSUME NEW n \in 0 .. Len(o) - 1 PROVE Sum(n) \in Nat
  <2> DEFINE f == [i \in 1 .. n |-> Bytes(c[o[i]])]
  <2>0. IsFiniteSet(1 .. n)
    BY FS_Interval
  <2>1. (\A i \in 1 .. n : f[i] \in Nat) /\ DOMAIN f = 1 .. n
    OBVIOUS
  <2>2. SumFunctionOnSet(f, 1 .. n) \in Nat
    <3> HIDE DEF f
    <3> QED BY <2>0, <2>1, SumNat
  <2> QED BY <2>1, <2>2 DEF SumFunction
<1>2. Len(o) - 1 \in T
  OBVIOUS
<1>3. Budget \in Nat
  BY DEF ImageAssumption
<1> HIDE DEF Sum
<1>t. T \subseteq Nat /\ T # {}
  <2> HIDE DEF Stop
  <2>1. T \subseteq Nat OBVIOUS
  <2> HIDE DEF T
  <2> QED BY <1>2, <2>1
<1>4. PICK n \in T : \A m \in T : n <= m
  <2> HIDE DEF T
  <2> QED BY <1>t, LeastNat
<1>5. n \in 0 .. Len(o) - 1 /\ Stop(n)
  BY <1>4
<1>6. ASSUME NEW m \in 0 .. n - 1 PROVE u > Budget + Sum(m)
  <2>1. m \in 0 .. Len(o) - 1 /\ m \notin T
    BY <1>4, <1>5
  <2> QED BY <1>1, <1>3, <2>1
<1> DEFINE P(e) == Stop(e) /\ \A m \in 0 .. e - 1 : u > Budget + Sum(m)
<1>7. \E e \in 0 .. Len(o) - 1 : P(e)
  BY <1>5, <1>6
<1>8. Evicted(o, c, u) = CHOOSE e \in 0 .. Len(o) - 1 : P(e)
  BY DEF Evicted, Sum
<1> HIDE DEF P
<1>9. Evicted(o, c, u) \in 0 .. Len(o) - 1 /\ P(Evicted(o, c, u))
  BY <1>7, <1>8
<1> QED BY <1>9 DEF P, Sum

LEMMA InsertKeeps == ASSUME ImageAssumption, MInv, NEW w \in Walks, Insert(w) PROVE MInv'
<1>0. /\ pc \in [Walks -> Pcs] /\ WalkInv(w) /\ TypeOK /\ base[w] < Rows
      /\ CacheInv /\ RecencyInv /\ Sound(Key(w)) /\ held[w] = Assembled(w)
  BY DEF MInv, TypeOK, WalkInv, Insert
<1>1. pc' = [pc EXCEPT ![w] = "scan"] /\ UNCHANGED <<bad, base, held, seen, blocked, scales>>
  BY DEF Insert
<1>2. TypeOK'
  BY <1>0, <1>1 DEF TypeOK, Pcs
<1>3. \A v \in Walks : WalkInv(v)'
  <2>1. pc[w] = "insert" /\ pc'[w] = "scan" BY <1>0, <1>1 DEF Insert
  <2>2. WalkInv(w)'
    BY <1>0, <1>1, <2>1 DEF WalkInv, Assembled, Sound, Key, Span, Row
  <2> QED BY <1>0, <1>1, <2>2, OthersKept
<1>4. BlockedInv'
  BY <1>1, BlockedKept DEF MInv
<1>5. CacheInv' /\ RecencyInv'
  <2> DEFINE k == Key(w)
             K == DOMAIN chunks \cup {k}
             c == [j \in K |-> IF j = k THEN held[w] ELSE chunks[j]]
             o == Append(order, k)
             u == used + Bytes(held[w])
             n == Evicted(o, c, u)
  <2>1. CASE k \in DOMAIN chunks
    BY <1>0, <1>1, <2>1, CacheKept DEF Insert, Cached
  <2>2. CASE k \notin DOMAIN chunks
    <3>1. /\ order' = SubSeq(o, n + 1, Len(o))
          /\ chunks' = [j \in DOMAIN c \ {o[i] : i \in 1 .. n} |-> c[j]]
          /\ used' = u - SumFunction([i \in 1 .. n |-> Bytes(c[o[i]])])
          /\ recency' = ToEnd(recency, k)
      BY <2>2 DEF Insert, Cached
    <3>2. k \in Keys /\ held[w] = Span(k[1], k[2])
      BY <1>0, KeyIs
    <3>3. c = [j \in K |-> Span(j[1], j[2])] /\ \A j \in K : Sound(j)
      <4>1. \A j \in K : IF j = k THEN held[w] = Span(j[1], j[2]) ELSE chunks[j] = Span(j[1], j[2])
        BY <1>0, <2>2, <3>2 DEF CacheInv
      <4> HIDE DEF K
      <4>2. \A j \in K : (IF j = k THEN held[w] ELSE chunks[j]) = Span(j[1], j[2])
        BY <4>1
      <4> QED BY <1>0, <4>2 DEF K, CacheInv
    <3>4. order \in Seq(Keys) /\ Each(order) /\ k \notin In(order) /\ In(order) = DOMAIN chunks
      BY <1>0, <2>2 DEF CacheInv
    <3> HIDE DEF k
    <3>5. o \in Seq(Keys) /\ Len(o) = Len(order) + 1 /\ Each(o) /\ In(o) = K
      BY <3>2, <3>4, AppendIs
    <3>6. DOMAIN c = K /\ DOMAIN chunks = K \ {k}
      BY <2>2
    <3>7. K \subseteq Keys
      <4>1. In(o) \subseteq Keys
        BY <3>5 DEF In
      <4> QED BY <3>5, <4>1
    <3> HIDE DEF c, o, K
    <3>8. ASSUME NEW j \in K PROVE c[j] = Span(j[1], j[2]) /\ Bytes(c[j]) = j[2] /\ Bytes(c[j]) \in Nat
      <4>1. j[1] \in Nat /\ j[2] \in Nat BY <3>7 DEF Keys
      <4>2. c[j] = Span(j[1], j[2]) BY <3>3
      <4>3. Len(Span(j[1], j[2])) = j[2] BY <4>1, SpanIs
      <4> QED BY <4>1, <4>2, <4>3 DEF Bytes
    <3> DEFINE f == Weights(c)
    <3>9. DOMAIN f = K /\ \A j \in K : f[j] = Bytes(c[j]) /\ f[j] \in Nat
      BY <3>6, <3>8 DEF Weights
    <3>10. IsFiniteSet(K)
      BY <3>5, ListCounts
    <3>11. u = SumFunctionOnSet(f, K) /\ u \in Nat
      <4> DEFINE g == Weights(chunks)
      <4>1. DOMAIN g = K \ {k} BY <3>6 DEF Weights
      <4>2. \A j \in K \ {k} : g[j] = f[j]
        <5>1. \A j \in K \ {k} : chunks[j] = c[j]
          BY <3>6, <2>2 DEF c, K
        <5> QED BY <3>6, <3>9, <5>1 DEF Weights
      <4>3. used = SumFunctionOnSet(g, K \ {k})
        BY <1>0, <4>1 DEF CacheInv, SumFunction
      <4>4. k \in K /\ f[k] = Bytes(held[w])
        BY <3>9 DEF K, c
      <4>5. IsFiniteSet(K \ {k})
        BY <3>10, FS_Subset
      <4> HIDE DEF g
      <4>6. SumFunctionOnSet(g, K \ {k}) = SumFunctionOnSet(f, K \ {k})
        BY <4>2, <4>5, SumAgrees
      <4> HIDE DEF f
      <4>7. SumFunctionOnSet(f, K) = f[k] + SumFunctionOnSet(f, K \ {k})
        BY <3>9, <3>10, <4>4, SumTakes
      <4>8. SumFunctionOnSet(f, K) \in Nat /\ SumFunctionOnSet(f, K \ {k}) \in Nat /\ f[k] \in Nat
        BY <3>9, <3>10, <4>4, <4>5, SumNat
      <4> QED BY <4>3, <4>4, <4>6, <4>7, <4>8
    <3>12. Len(o) \in Nat \ {0} /\ \A i \in 1 .. Len(o) : o[i] \in K
      <4>1. Len(order) \in Nat BY <3>4
      <4> QED BY <3>5, <4>1 DEF In
    <3>13. /\ n \in 0 .. Len(o) - 1
           /\ \/ u <= Budget + SumFunction([i \in 1 .. n |-> Bytes(c[o[i]])])
              \/ n = Len(o) - 1
      <4>1. \A i \in 1 .. Len(o) : Bytes(c[o[i]]) \in Nat BY <3>8, <3>12
      <4> HIDE DEF u
      <4> QED BY <3>11, <3>12, <4>1, EvictedIs
    <3> HIDE DEF u, n
    <3> DEFINE Gone == {o[i] : i \in 1 .. n}
               d == SumFunction([i \in 1 .. n |-> Bytes(c[o[i]])])
               rest == SumFunctionOnSet(f, K \ Gone)
    <3>14. u = d + rest /\ d \in Nat /\ rest \in Nat
      <4>1. \A i \in 1 .. n : i \in 1 .. Len(o)
        BY <3>12, <3>13
      <4>2. [i \in 1 .. n |-> Bytes(c[o[i]])] = [i \in 1 .. n |-> f[o[i]]]
        BY <3>9, <3>12, <4>1
      <4>3. d = SumFunctionOnSet([i \in 1 .. n |-> f[o[i]]], 1 .. n)
        BY <4>2 DEF SumFunction
      <4>4. /\ n \in Nat /\ \A i \in 1 .. n : o[i] \in K
            /\ \A i, j \in 1 .. n : o[i] = o[j] => i = j
        BY <3>5, <3>12, <3>13, <4>1 DEF Each
      <4>5. SumFunctionOnSet([i \in 1 .. n |-> f[o[i]]], 1 .. n) \in Nat
        <5> DEFINE g == [i \in 1 .. n |-> f[o[i]]]
        <5>0. IsFiniteSet(1 .. n)
          BY <4>4, FS_Interval
        <5>1. \A i \in 1 .. n : g[i] \in Nat
          BY <3>9, <4>4
        <5> HIDE DEF g
        <5>2. SumFunctionOnSet(g, 1 .. n) \in Nat BY <5>0, <5>1, SumNat
        <5> QED BY <5>2 DEF g
      <4> HIDE DEF f
      <4>6. u = SumFunctionOnSet([i \in 1 .. n |-> f[o[i]]], 1 .. n) + rest
        <5>1. /\ IsFiniteSet(K) /\ (\A x \in K : f[x] \in Nat) /\ n \in Nat
              /\ (\A i \in 1 .. n : o[i] \in K)
              /\ (\A i, j \in 1 .. n : o[i] = o[j] => i = j)
          BY <3>9, <3>10, <4>4
        <5>2. SumFunctionOnSet(f, K) = SumFunctionOnSet(Along(f, o, n), 1 .. n) + SumFunctionOnSet(f, K \ First(o, n))
          BY <5>1, SumDropped, SMTT(60)
        <5> QED BY <3>11, <5>2 DEF Along, First
      <4>7. rest \in Nat
        <5>1. IsFiniteSet(K \ Gone) /\ \A j \in K \ Gone : f[j] \in Nat
          BY <3>9, <3>10, FS_Subset
        <5> HIDE DEF Gone
        <5> QED BY <5>1, SumNat
      <4> HIDE DEF d, rest
      <4> QED BY <4>3, <4>5, <4>6, <4>7
    <3>15. used' = rest /\ (used' > Budget => n = Len(o) - 1)
      <4>1. used' = u - d BY <3>1
      <4>2. Budget \in Nat BY DEF ImageAssumption
      <4>3. u <= Budget + d \/ n = Len(o) - 1 BY <3>13
      <4> HIDE DEF d, rest
      <4> QED BY <3>14, <4>1, <4>2, <4>3
    <3>16. DOMAIN chunks' = K \ Gone /\ \A j \in K \ Gone : chunks'[j] = c[j]
      BY <3>1, <3>6
    <3>17. chunks' = [j \in DOMAIN chunks' |-> Span(j[1], j[2])]
      <4>1. chunks' = [j \in K \ Gone |-> chunks'[j]]
        BY <3>1, <3>6
      <4> QED BY <3>8, <3>16, <4>1
    <3>18. SumFunction(Weights(chunks')) = rest
      <4> DEFINE g == Weights(chunks')
      <4>1. DOMAIN g = K \ Gone /\ \A j \in K \ Gone : g[j] = f[j]
        BY <3>9, <3>16 DEF Weights
      <4>2. IsFiniteSet(K \ Gone)
        BY <3>10, FS_Subset
      <4> HIDE DEF g, f, Gone
      <4>3. SumFunctionOnSet(g, K \ Gone) = SumFunctionOnSet(f, K \ Gone)
        BY <4>1, <4>2, SumAgrees
      <4> QED BY <4>1, <4>3 DEF g, SumFunction
    <3>19. /\ order' \in Seq(Keys) /\ Len(order') = Len(o) - n /\ order' # <<>>
           /\ Each(order') /\ In(order') = K \ Gone
           /\ \A t \in Seq(Keys) : Ends(o, t) => Ends(order', t)
      BY <3>1, <3>5, <3>13, Dropped
    <3>20. recency' \in Seq(Keys) /\ Each(recency') /\ Ends(o, recency')
      <4>1. recency \in Seq(Keys) /\ Each(recency) /\ Ends(order, recency)
        BY <1>0 DEF RecencyInv
      <4> QED BY <3>1, <3>2, <3>4, <4>1, EndsAdded DEF o
    <3>21. Ends(order', recency')
      BY <3>19, <3>20
    <3>22. Each(order)' /\ In(order)' = K \ Gone /\ Each(recency)' /\ Ends(order, recency)'
      BY <3>19, <3>20, <3>21 DEF Each, In, Ends
    <3>23. used' > Budget => Len(order') = 1
      BY <3>12, <3>13, <3>15, <3>19
    <3>24. \A j \in DOMAIN chunks' : Sound(j)'
      BY <1>1, <3>3, <3>16 DEF Sound
    <3>25. used' = SumFunction(Weights(chunks))'
      BY <3>15, <3>18 DEF Weights, Bytes
    <3>26. chunks' = [j \in DOMAIN chunks' |-> Span(j[1], j[2])']
      BY <3>17 DEF Span, Row
    <3>27. CacheInv'
      BY <3>16, <3>19, <3>22, <3>23, <3>24, <3>25, <3>26 DEF CacheInv
    <3>28. RecencyInv'
      BY <3>19, <3>20, <3>22 DEF RecencyInv
    <3> QED BY <3>27, <3>28
  <2> QED BY <2>1, <2>2
<1> QED BY <1>2, <1>3, <1>4, <1>5 DEF MInv

-----------------------------------------------------------------------------
LEMMA StutterKeeps == ASSUME MInv, UNCHANGED vars PROVE MInv'
<1> USE DEF vars
<1>1. TypeOK' BY DEF MInv, TypeOK
<1>2. CacheInv' /\ RecencyInv' BY CacheKept DEF MInv
<1>3. \A v \in Walks : WalkInv(v)' BY WalkKept DEF MInv
<1>4. BlockedInv' BY BlockedKept DEF MInv
<1> QED BY <1>1, <1>2, <1>3, <1>4 DEF MInv

(* The invariant holds of every behaviour, whatever the walks, their chunk *)
(* sizes, the image and the budget.                                        *)
THEOREM ChunksInvariance == Spec => []MInv
<1>1. ASSUME MInv, [Next]_vars PROVE MInv'
  <2>1. CASE Next
    <3>1. PICK w \in Walks : Step(w) BY <2>1 DEF Next
    <3> QED
      BY <1>1, <3>1, ImageAssumption, EnterKeeps, LookupKeeps, AssembleKeeps, InsertKeeps,
         ScanKeeps, SetScalesKeeps, PublishKeeps DEF Step
  <2>2. CASE UNCHANGED vars BY <1>1, <2>2, StutterKeeps
  <2> QED BY <1>1, <2>1, <2>2
<1> QED BY <1>1, InitMInv, PTL DEF Spec

(* A walk reads every row once, in order, with the bytes of the commit,    *)
(* whoever assembled the chunk; the materialized layout is whole           *)
(* (MappedImage::chunk, blocked_materialized).                             *)
THEOREM ServesCommit == Spec => []ServesTheCommit
<1>1. ASSUME MInv PROVE ServesTheCommit
  <2> USE DEF MInv
  <2>1. ASSUME NEW w \in Walks
        PROVE  /\ seen[w] \o held[w] = Span(0, Len(seen[w] \o held[w]))
               /\ w \notin Readers /\ pc[w] = "done" => Len(seen[w]) = Rows
               /\ base[w] = Rows => Len(seen[w]) = Rows
    <3>0. /\ WalkInv(w) /\ TypeOK /\ base[w] \in Nat /\ Rows \in Nat
          /\ seen[w] = Span(0, base[w]) /\ seen[w] \in Seq(Bits)
      BY <1>1, ImageAssumption DEF TypeOK, ImageAssumption, WalkInv
    <3>1. Len(seen[w]) = base[w]
      BY <3>0, SpanIs, 0 \in Nat
    <3>2. CASE pc[w] \in {"insert", "scan"}
      <4> DEFINE b == base[w]
                 n == Key(w)[2]
                 t == seen[w] \o held[w]
                 e == b + n
      <4>1. b \in Nat /\ n \in Nat /\ held[w] = Span(b, n) /\ e = b + n
        BY <3>0, <3>2, KeyIs, ImageAssumption DEF WalkInv
      <4>2. b \in Nat /\ n \in Nat /\ t = Span(0, b) \o Span(b, n) /\ e = b + n
        BY <3>0, <4>1
      <4> HIDE DEF b, n, t, e
      <4>3. e \in Nat
        BY <4>1
      <4>r. t = Span(0, e) /\ t \in Seq(Bits)
        BY <4>2, ReadOn
      <4>4. Len(t) = e
        BY <4>3, <4>r, SpanIs, 0 \in Nat
      <4>5. t = Span(0, Len(t))
        BY <4>r, <4>4
      <4> QED BY <1>1, <3>0, <3>1, <3>2, <4>5 DEF t, WalkInv
    <3>3. CASE pc[w] \notin {"insert", "scan"}
      <4>1. held[w] = <<>> BY <3>0, <3>3 DEF WalkInv
      <4>2. seen[w] \o held[w] = seen[w] BY <3>0, <4>1
      <4> QED BY <3>0, <3>1, <4>2 DEF WalkInv
    <3> QED BY <3>2, <3>3
  <2>2. RowsInOrder
    BY <2>1 DEF RowsInOrder
  <2>3. MaterializedWhole
    BY <1>1, <2>1 DEF MaterializedWhole, BlockedInv, Walks
  <2> QED BY <2>2, <2>3 DEF ServesTheCommit
<1> QED BY <1>1, ChunksInvariance, PTL

(* The cache counts what it holds, keeps to its budget and drops what was  *)
(* used longest ago, whatever the threads insert (PagedCache).             *)
THEOREM CacheKeepsBudget == Spec => []BudgetKept
<1>1. ASSUME MInv PROVE BudgetKept
  <2>1. WithinBudget
    BY <1>1, ListCounts DEF MInv, CacheInv, RecencyInv, Weights, WithinBudget
  <2>2. KeepsMostRecent
    BY <1>1, SuffixOf DEF MInv, CacheInv, RecencyInv, Ends, KeepsMostRecent
  <2> QED BY <2>1, <2>2 DEF BudgetKept
<1> QED BY <1>1, ChunksInvariance, PTL
=============================================================================
