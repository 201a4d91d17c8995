-------------------------------- MODULE Folding --------------------------------
(***************************************************************************)
(* The fold over a sequence, one element after the other, for an operator  *)
(* that a module puts in the place of Op.  FoldLeft is defined by recursion*)
(* on the set of the positions that are left.                              *)
(***************************************************************************)
EXTENDS Induction, SequencesExt, SequenceTheorems

CONSTANT Op(_, _)

Step(base, items, g, s) ==
  IF s = {} THEN base ELSE Op(g[s \ {Max(s)}], items[Max(s)])

Folds(base, items, n, g) ==
  /\ DOMAIN g = SUBSET (1 .. n)
  /\ \A s \in SUBSET (1 .. n) : g[s] = Step(base, items, g, s)

(* The largest position of those up to n + 1. *)
LEMMA LargestPosition ==
  ASSUME NEW n \in Nat, NEW s \in SUBSET (1 .. n + 1), n + 1 \in s
  PROVE  Max(s) = n + 1
<1>1. \A m \in s : (\A y \in s : m >= y) <=> m = n + 1
  OBVIOUS
<1> QED
  BY <1>1 DEF Max

(* The recursion has a solution. *)
LEMMA FoldExists ==
  ASSUME NEW base, NEW items, NEW n \in Nat
  PROVE  \E g : Folds(base, items, n, g)
<1> DEFINE S == {k \in Nat : \E g : Folds(base, items, k, g)}
<1>1. 0 \in S
  <2> DEFINE g == [s \in SUBSET (1 .. 0) |-> base]
  <2>1. SUBSET (1 .. 0) = {{}}
    OBVIOUS
  <2>2. Folds(base, items, 0, g)
    BY <2>1 DEF Folds, Step
  <2> QED
    BY <2>2
<1>2. ASSUME NEW k \in Nat, k \in S PROVE k + 1 \in S
  <2>1. PICK g : Folds(base, items, k, g)
    BY <1>2
  <2> DEFINE f == [s \in SUBSET (1 .. k + 1) |->
                     IF k + 1 \in s THEN Op(g[s \ {k + 1}], items[k + 1]) ELSE g[s]]
  <2>2. ASSUME NEW s \in SUBSET (1 .. k + 1) PROVE f[s] = Step(base, items, f, s)
    <3>1. CASE k + 1 \in s
      <4>1. Max(s) = k + 1 /\ s # {}
        BY <3>1, LargestPosition
      <4>2. s \ {k + 1} \in SUBSET (1 .. k + 1) /\ k + 1 \notin s \ {k + 1}
        OBVIOUS
      <4>3. f[s \ {k + 1}] = g[s \ {k + 1}]
        BY <4>2
      <4> QED
        BY <3>1, <4>1, <4>3 DEF Step
    <3>2. CASE k + 1 \notin s
      <4>1. s \in SUBSET (1 .. k)
        BY <3>2
      <4>2. f[s] = g[s] /\ g[s] = Step(base, items, g, s)
        BY <2>1, <3>2, <4>1 DEF Folds
      <4>3. f[s \ {Max(s)}] = g[s \ {Max(s)}]
        BY <3>2
      <4> QED
        BY <4>2, <4>3 DEF Step
    <3> QED
      BY <3>1, <3>2
  <2>3. Folds(base, items, k + 1, f)
    <3>1. DOMAIN f = SUBSET (1 .. k + 1)
      OBVIOUS
    <3> HIDE DEF f
    <3> QED
      BY <2>2, <3>1 DEF Folds
  <2> QED
    BY <2>3
<1> HIDE DEF S
<1>3. Nat \subseteq S
  BY <1>1, <1>2, SetInduction
<1> QED
  BY <1>3 DEF S

(* ... and one only, as far as the first positions go. *)
LEMMA FoldUnique ==
  ASSUME NEW base, NEW items, NEW more, NEW n \in Nat, NEW m \in Nat, NEW g, NEW f,
         Folds(base, items, n, g), Folds(base, more, m, f), n <= m,
         \A i \in 1 .. n : items[i] = more[i]
  PROVE  f[1 .. n] = g[1 .. n]
<1> DEFINE S == {k \in Nat : k <= n => f[1 .. k] = g[1 .. k]}
<1>1. 0 \in S
  <2>1. 1 .. 0 = {} /\ {} \in SUBSET (1 .. n) /\ {} \in SUBSET (1 .. m)
    OBVIOUS
  <2>2. g[{}] = base /\ f[{}] = base
    BY <2>1 DEF Folds, Step
  <2> QED
    BY <2>1, <2>2
<1>2. ASSUME NEW k \in Nat, k \in S PROVE k + 1 \in S
  <2>1. SUFFICES ASSUME k + 1 <= n PROVE f[1 .. k + 1] = g[1 .. k + 1]
    OBVIOUS
  <2>2. 1 .. k + 1 \in SUBSET (1 .. n) /\ 1 .. k + 1 \in SUBSET (1 .. m)
    BY <2>1
  <2>3. Max(1 .. k + 1) = k + 1 /\ (1 .. k + 1) # {}
    BY LargestPosition
  <2>4. (1 .. k + 1) \ {k + 1} = 1 .. k
    OBVIOUS
  <2>5. g[1 .. k + 1] = Op(g[1 .. k], items[k + 1])
    BY <2>2, <2>3, <2>4 DEF Folds, Step
  <2>6. f[1 .. k + 1] = Op(f[1 .. k], more[k + 1])
    BY <2>2, <2>3, <2>4 DEF Folds, Step
  <2>7. items[k + 1] = more[k + 1] /\ f[1 .. k] = g[1 .. k]
    BY <1>2, <2>1
  <2> QED
    BY <2>5, <2>6, <2>7
<1> HIDE DEF S
<1>3. Nat \subseteq S
  BY <1>1, <1>2, SetInduction
<1> QED
  BY <1>3 DEF S

(* FoldLeft is that solution. *)
LEMMA FoldLeftFolds ==
  ASSUME NEW base, NEW items, NEW n \in Nat, DOMAIN items = 1 .. n
  PROVE  \E g : Folds(base, items, n, g) /\ FoldLeft(Op, base, items) = g[1 .. n]
<1> DEFINE Body(g) == [s \in SUBSET DOMAIN items |->
                         IF s = {} THEN base ELSE Op(g[s \ {Max(s)}], items[Max(s)])]
           iter == CHOOSE g : g = Body(g)
<1>1. FoldLeft(Op, base, items) = iter[DOMAIN items]
  BY DEF FoldLeft, MapThenFoldSet
<1>2. PICK g : Folds(base, items, n, g)
  BY FoldExists
<1>3. \E h : h = Body(h)
  <2> DEFINE h == [s \in SUBSET (1 .. n) |-> g[s]]
  <2>1. ASSUME NEW s \in SUBSET (1 .. n) PROVE h[s] = Step(base, items, h, s)
    <3>1. g[s] = Step(base, items, g, s) /\ h[s] = g[s] /\ h[s \ {Max(s)}] = g[s \ {Max(s)}]
      BY <1>2 DEF Folds
    <3> QED
      BY <3>1 DEF Step
  <2>2. h = [s \in SUBSET (1 .. n) |-> Step(base, items, h, s)]
    BY <2>1
  <2> HIDE DEF h
  <2>3. h = Body(h)
    BY <2>2 DEF Step
  <2> QED
    BY <2>3
<1>4. iter = Body(iter)
  BY <1>3
<1> HIDE DEF iter
<1>5. Folds(base, items, n, iter)
  BY <1>4 DEF Folds, Step
<1> QED
  BY <1>1, <1>5

After(base, items, n) == FoldLeft(Op, base, SubSeq(items, 1, n))

LEMMA FoldEmpty ==
  ASSUME NEW base, NEW items
  PROVE  After(base, items, 0) = base
<1>1. DOMAIN << >> = 1 .. 0
  OBVIOUS
<1>2. PICK g : Folds(base, << >>, 0, g) /\ FoldLeft(Op, base, << >>) = g[1 .. 0]
  BY <1>1, FoldLeftFolds
<1>3. 1 .. 0 = {} /\ {} \in SUBSET (1 .. 0)
  OBVIOUS
<1>4. FoldLeft(Op, base, << >>) = base
  BY <1>2, <1>3 DEF Folds, Step
<1>5. SubSeq(items, 1, 0) = << >>
  BY SubSeqEmpty
<1> QED
  BY <1>4, <1>5 DEF After

(* One more statement: the fold of a longer prefix. *)
LEMMA FoldStep ==
  ASSUME NEW base, NEW I, NEW items \in Seq(I), NEW n \in 1 .. Len(items)
  PROVE  After(base, items, n) = Op(After(base, items, n - 1), items[n])
<1> DEFINE long  == SubSeq(items, 1, n)
           short == SubSeq(items, 1, n - 1)
<1>1. /\ n \in Nat /\ n - 1 \in Nat /\ n = (n - 1) + 1
      /\ DOMAIN long = 1 .. n /\ DOMAIN short = 1 .. n - 1
      /\ \A i \in 1 .. n - 1 : short[i] = long[i]
      /\ long[n] = items[n]
  OBVIOUS
<1> HIDE DEF long, short
<1>2. PICK f : Folds(base, long, n, f) /\ FoldLeft(Op, base, long) = f[1 .. n]
  BY <1>1, FoldLeftFolds
<1>3. PICK g : Folds(base, short, n - 1, g) /\ FoldLeft(Op, base, short) = g[1 .. n - 1]
  BY <1>1, FoldLeftFolds
<1>4. f[1 .. n - 1] = g[1 .. n - 1]
  <2>1. n - 1 <= n
    BY <1>1
  <2> QED
    BY <1>1, <1>2, <1>3, <2>1, FoldUnique
<1>5. Max(1 .. n) = n /\ (1 .. n) # {} /\ (1 .. n) \ {n} = 1 .. n - 1
  <2>1. n \in 1 .. n /\ 1 .. n \in SUBSET (1 .. (n - 1) + 1)
    BY <1>1
  <2>2. Max(1 .. n) = n
    BY <1>1, <2>1, LargestPosition
  <2> QED
    BY <1>1, <2>2
<1>6. f[1 .. n] = Step(base, long, f, 1 .. n)
  BY <1>2 DEF Folds
<1>7. f[1 .. n] = Op(f[1 .. n - 1], long[n])
  BY <1>5, <1>6 DEF Step
<1>8. FoldLeft(Op, base, long) = Op(FoldLeft(Op, base, short), items[n])
  BY <1>1, <1>2, <1>3, <1>4, <1>7
<1> QED
  BY <1>8 DEF long, short, After

(* The whole of a batch, and a single statement: a batch of one. *)
LEMMA FoldWhole ==
  ASSUME NEW base, NEW I, NEW items \in Seq(I)
  PROVE  /\ FoldLeft(Op, base, items) = After(base, items, Len(items))
         /\ Len(items) = 1 => FoldLeft(Op, base, items) = Op(base, items[1])
<1>1. SubSeq(items, 1, Len(items)) = items
  BY SubSeqFull
<1>2. FoldLeft(Op, base, items) = After(base, items, Len(items))
  BY <1>1 DEF After
<1>3. ASSUME Len(items) = 1 PROVE After(base, items, 1) = Op(After(base, items, 0), items[1])
  <2>1. 1 \in 1 .. Len(items) /\ 1 - 1 = 0
    BY <1>3
  <2>2. After(base, items, 1) = Op(After(base, items, 1 - 1), items[1])
    BY <2>1, FoldStep, Zenon
  <2> QED
    BY <2>1, <2>2
<1> QED
  BY <1>2, <1>3, FoldEmpty
================================================================================
