------------------------------ MODULE FoldLemmas ------------------------------
(***************************************************************************)
(* Facts about numbers, and what a fold over the positions of a sequence   *)
(* is: the last value of a run with one step for each element. The library *)
(* states induction for operators; here a property is a set of numbers, so *)
(* that an induction can be cited by a proof.                              *)
(***************************************************************************)
EXTENDS Naturals, Sequences, SequencesExt, FiniteSetsExt, SequenceTheorems, WellFoundedInduction, TLAPS

\* A set of numbers has a least one.
LEMMA LeastNumber ==
    ASSUME NEW S \in SUBSET Nat, S # {}
    PROVE  \E i \in S : \A j \in S : i <= j
<1> DEFINE less == {p \in Nat \X Nat : p[1] < p[2]}
<1>1. IsWellFoundedOn(less, Nat)
  BY NatLessThanWellFounded DEF OpToRel
<1>2. PICK i \in S : \A j \in S : ~(<<j, i>> \in less)
  <2> HIDE DEF less
  <2> QED BY <1>1, WFMin
<1>3. ASSUME NEW j \in S
      PROVE  i <= j
  <2>1. i \in Nat /\ j \in Nat /\ <<j, i>> \in Nat \X Nat
    OBVIOUS
  <2>2. ~(j < i)
    BY <1>2, <2>1
  <2> QED BY <2>1, <2>2
<1> QED BY <1>2, <1>3

\* And a greatest one, if there is a bound.
LEMMA GreatestNumber ==
    ASSUME NEW S \in SUBSET Nat, S # {}, NEW n \in Nat, \A i \in S : i <= n
    PROVE  \E i \in S : \A j \in S : j <= i
<1> DEFINE above == {k \in Nat : \A i \in S : i <= k}
<1>1. PICK k \in above : \A l \in above : k <= l
  <2>1. n \in above
    OBVIOUS
  <2> HIDE DEF above
  <2>2. above \in SUBSET Nat
    BY DEF above
  <2> QED BY <2>1, <2>2, LeastNumber
<1>2. k \in S
  <2> SUFFICES ASSUME k \notin S
               PROVE  FALSE
    OBVIOUS
  <2>1. PICK i \in S : TRUE
    OBVIOUS
  <2>2. k \in Nat /\ i \in Nat /\ i <= k /\ i # k
    BY <2>1
  <2>3. k - 1 \in Nat
    BY <2>2
  <2>4. \A j \in S : j <= k - 1
    <3>1. \A j \in S : j \in Nat /\ j <= k /\ j # k
      OBVIOUS
    <3> QED BY <2>2, <3>1
  <2>5. k - 1 \in above
    BY <2>3, <2>4
  <2>6. k <= k - 1
    BY <1>1, <2>5
  <2> QED BY <2>2, <2>6
<1> QED BY <1>1, <1>2

\* Induction up to a bound, for a property given as the set of numbers that have it.
LEMMA UpTo ==
    ASSUME NEW n \in Nat, NEW P, 0 \in P, \A i \in 0 .. n : i < n /\ i \in P => i + 1 \in P
    PROVE  0 .. n \subseteq P
<1> DEFINE bad == {i \in 0 .. n : i \notin P}
<1> SUFFICES ASSUME bad # {}
             PROVE  FALSE
  OBVIOUS
<1>1. bad \in SUBSET Nat
  OBVIOUS
<1>2. PICK k \in bad : \A j \in bad : k <= j
  <2> HIDE DEF bad
  <2> QED BY <1>1, LeastNumber
<1>3. k \in 1 .. n /\ k \notin P
  OBVIOUS
<1>4. k - 1 \in 0 .. n /\ k - 1 < n /\ (k - 1) + 1 = k /\ ~(k <= k - 1)
  BY <1>3
<1>5. k - 1 \in P
  BY <1>2, <1>4
<1> QED BY <1>3, <1>4, <1>5

\* A recursion on the numbers up to a bound has a solution.
RunOf(base, step, m, X) ==
    {run \in [0 .. m -> X] : run[0] = base /\ \A i \in 1 .. m : run[i] = step[i][run[i - 1]]}

LEMMA RunExists ==
    ASSUME NEW X, NEW base \in X, NEW n \in Nat, NEW step, \A i \in 1 .. n : step[i] \in [X -> X]
    PROVE  RunOf(base, step, n, X) # {}
<1> DEFINE Runs(m) == {run \in [0 .. m -> X] : run[0] = base /\ \A i \in 1 .. m : run[i] = step[i][run[i - 1]]}
           P == {m \in 0 .. n : Runs(m) # {}}
<1>1. 0 \in P
  <2>1. [i \in 0 .. 0 |-> base] \in Runs(0)
    OBVIOUS
  <2> QED BY <2>1
<1>2. ASSUME NEW m \in 0 .. n, m < n, m \in P
      PROVE  m + 1 \in P
  <2>1. PICK run \in Runs(m) : TRUE
    BY <1>2
  <2> DEFINE longer == [i \in 0 .. m + 1 |-> IF i = m + 1 THEN step[m + 1][run[m]] ELSE run[i]]
  <2>2. run \in [0 .. m -> X] /\ run[0] = base /\ \A i \in 1 .. m : run[i] = step[i][run[i - 1]]
    BY <2>1
  <2>3. m + 1 \in 1 .. n /\ m \in 0 .. m /\ step[m + 1] \in [X -> X]
    BY <1>2
  <2>4. step[m + 1][run[m]] \in X
    BY <2>2, <2>3
  <2>5. \A i \in 0 .. m + 1 : i = m + 1 \/ i \in 0 .. m
    BY <1>2
  <2>6. longer \in [0 .. m + 1 -> X]
    BY <2>2, <2>4, <2>5
  <2>7. longer[0] = base /\ longer[m + 1] = step[m + 1][run[m]] /\ \A i \in 0 .. m : longer[i] = run[i]
    BY <1>2, <2>2
  <2>8. ASSUME NEW i \in 1 .. m + 1
        PROVE  longer[i] = step[i][longer[i - 1]]
    <3> HIDE DEF longer
    <3>1. CASE i = m + 1
      <4>1. i - 1 = m
        BY <1>2, <3>1
      <4> QED BY <2>3, <2>7, <3>1, <4>1
    <3>2. CASE i \in 1 .. m
      <4>1. i - 1 \in 0 .. m /\ i \in 0 .. m
        BY <1>2, <3>2
      <4> QED BY <2>2, <2>7, <3>2, <4>1
    <3> QED BY <1>2, <3>1, <3>2
  <2>9. longer \in Runs(m + 1)
    <3> HIDE DEF longer
    <3> QED BY <2>6, <2>7, <2>8
  <2> QED BY <1>2, <2>9
<1>3. 0 .. n \subseteq P
  <2> HIDE DEF P
  <2> QED BY <1>1, <1>2, UpTo
<1>4. Runs(n) # {}
  BY <1>3
<1> QED BY <1>4 DEF RunOf

\* The function a fold is computed by, on all sets of positions: it takes the greatest
\* position of a set first.
FoldOf(base, step, m, X) ==
    {g \in [SUBSET (1 .. m) -> X] :
        \A s \in SUBSET (1 .. m) :
            g[s] = IF s = {} THEN base ELSE step[Max(s)][g[s \ {Max(s)}]]}

LEMMA MaxOf ==
    ASSUME NEW m \in Nat, NEW s \in SUBSET (1 .. m + 1), m + 1 \in s
    PROVE  Max(s) = m + 1
<1>1. m + 1 \in s /\ \A j \in s : m + 1 >= j
  OBVIOUS
<1>2. \E i \in s : \A j \in s : i >= j
  BY <1>1
<1>3. Max(s) \in s /\ \A j \in s : Max(s) >= j
  BY <1>2 DEF Max
<1>4. Max(s) \in 1 .. m + 1 /\ Max(s) >= m + 1
  BY <1>1, <1>3
<1> DEFINE max == Max(s)
<1> HIDE DEF max
<1>5. max \in 1 .. m + 1 /\ max >= m + 1
  BY <1>4 DEF max
<1>6. max = m + 1
  BY <1>5
<1> QED BY <1>6 DEF max

LEMMA FoldExists ==
    ASSUME NEW X, NEW base \in X, NEW n \in Nat, NEW step, \A i \in 1 .. n : step[i] \in [X -> X]
    PROVE  FoldOf(base, step, n, X) # {}
<1> DEFINE P == {m \in 0 .. n : FoldOf(base, step, m, X) # {}}
<1>1. 0 \in P
  <2>1. SUBSET (1 .. 0) = {{}}
    OBVIOUS
  <2>2. [s \in {{}} |-> base] \in FoldOf(base, step, 0, X)
    BY <2>1 DEF FoldOf
  <2> QED BY <2>2
<1>2. ASSUME NEW m \in 0 .. n, m < n, m \in P
      PROVE  m + 1 \in P
  <2>1. PICK g \in FoldOf(base, step, m, X) : TRUE
    BY <1>2
  <2>2. /\ g \in [SUBSET (1 .. m) -> X]
        /\ \A s \in SUBSET (1 .. m) :
               g[s] = IF s = {} THEN base ELSE step[Max(s)][g[s \ {Max(s)}]]
    BY <2>1 DEF FoldOf
  <2> DEFINE h == [s \in SUBSET (1 .. m + 1) |-> IF m + 1 \in s THEN step[m + 1][g[s \ {m + 1}]] ELSE g[s]]
  <2>3. m \in Nat /\ m + 1 \in 1 .. n /\ step[m + 1] \in [X -> X]
    BY <1>2
  <2>4. \A s \in SUBSET (1 .. m + 1) : /\ s \ {m + 1} \in SUBSET (1 .. m)
                                       /\ m + 1 \notin s => s \in SUBSET (1 .. m)
    BY <2>3
  <2>5. h \in [SUBSET (1 .. m + 1) -> X]
    BY <2>2, <2>3, <2>4
  <2>6. \A s \in SUBSET (1 .. m) : s \in SUBSET (1 .. m + 1) /\ m + 1 \notin s
    BY <2>3
  <2>7. \A s \in SUBSET (1 .. m) : h[s] = g[s]
    BY <2>6
  <2>8. \A s \in SUBSET (1 .. m + 1) : m + 1 \in s => h[s] = step[m + 1][g[s \ {m + 1}]]
    OBVIOUS
  <2>9. ASSUME NEW s \in SUBSET (1 .. m + 1)
        PROVE  h[s] = IF s = {} THEN base ELSE step[Max(s)][h[s \ {Max(s)}]]
    <3> HIDE DEF h
    <3>1. CASE m + 1 \in s
      <4>1. Max(s) = m + 1 /\ s # {}
        BY <2>3, <3>1, MaxOf
      <4> QED BY <2>4, <2>7, <2>8, <3>1, <4>1
    <3>2. CASE m + 1 \notin s
      <4>1. s \in SUBSET (1 .. m) /\ s \ {Max(s)} \in SUBSET (1 .. m)
        BY <2>4, <3>2
      <4> QED BY <2>2, <2>7, <4>1
    <3> QED BY <3>1, <3>2
  <2>10. h \in FoldOf(base, step, m + 1, X)
    <3> HIDE DEF h
    <3> QED BY <2>5, <2>9 DEF FoldOf
  <2>11. m + 1 \in 0 .. n
    BY <2>3
  <2> QED BY <2>10, <2>11
<1>3. 0 .. n \subseteq P
  <2> HIDE DEF P
  <2> QED BY <1>1, <1>2, UpTo
<1> QED BY <1>3

\* The greatest of the positions of a sequence, and of the first of them.
LEMMA MaxIn ==
    ASSUME NEW n \in Nat
    PROVE  /\ \A s \in SUBSET (1 .. n) : s # {} => Max(s) \in s /\ Max(s) \in 1 .. n
           /\ \A i \in 1 .. n : /\ Max(1 .. i) = i /\ (1 .. i) \ {i} = 1 .. i - 1
                               /\ 1 .. i \in SUBSET (1 .. n) /\ 1 .. i # {}
           /\ 1 .. 0 = {} /\ {} \in SUBSET (1 .. n)
<1>1. ASSUME NEW s \in SUBSET (1 .. n), s # {}
      PROVE  Max(s) \in s /\ Max(s) \in 1 .. n
  <2>1. s \in SUBSET Nat /\ \A i \in s : i <= n
    OBVIOUS
  <2>2. PICK i \in s : \A j \in s : j <= i
    BY <1>1, <2>1, GreatestNumber
  <2>3. \A j \in s : i >= j
    BY <2>1, <2>2
  <2>4. Max(s) \in s
    BY <2>3 DEF Max
  <2> QED BY <2>4
<1>2. ASSUME NEW i \in 1 .. n
      PROVE  /\ Max(1 .. i) = i /\ (1 .. i) \ {i} = 1 .. i - 1
             /\ 1 .. i \in SUBSET (1 .. n) /\ 1 .. i # {}
  <2>1. i - 1 \in Nat /\ (i - 1) + 1 = i
    OBVIOUS
  <2>2. 1 .. i \in SUBSET (1 .. (i - 1) + 1) /\ (i - 1) + 1 \in 1 .. i
    BY <2>1
  <2>3. Max(1 .. i) = (i - 1) + 1
    BY <2>1, <2>2, MaxOf
  <2>4. (1 .. i) \ {i} = 1 .. i - 1 /\ 1 .. i \in SUBSET (1 .. n) /\ 1 .. i # {}
    OBVIOUS
  <2> QED BY <2>1, <2>3, <2>4
<1>3. 1 .. 0 = {} /\ {} \in SUBSET (1 .. n)
  OBVIOUS
<1> QED BY <1>1, <1>2, <1>3

-----------------------------------------------------------------------------
(* What FlattenSeq returns. *)

\* The concatenation of sequences is the last value of a run, one step for each.
FlatOf(run, seqs, W) ==
    /\ run \in [0 .. Len(seqs) -> Seq(W)] /\ run[0] = <<>>
    /\ \A k \in 1 .. Len(seqs) : run[k] = run[k - 1] \o seqs[k]

LEMMA FlattenIs ==
    ASSUME NEW W, NEW seqs \in Seq(Seq(W))
    PROVE  \E run : FlatOf(run, seqs, W) /\ FlattenSeq(seqs) = run[Len(seqs)]
<1> DEFINE n == Len(seqs)
           X == Seq(W)
           step == [k \in 1 .. n |-> [q \in X |-> q \o seqs[k]]]
           body(g) == [k \in 1 .. n |-> IF k = 1 THEN seqs[k] ELSE g[k - 1] \o seqs[k]]
           iter == CHOOSE iter : iter = body(iter)
<1>1. n \in Nat /\ DOMAIN seqs = 1 .. n /\ \A k \in 1 .. n : seqs[k] \in X
  BY LenProperties, ElementOfSeq
<1>2. FlattenSeq(seqs) = IF n = 0 THEN seqs ELSE iter[n]
  BY DEF FlattenSeq
<1>3. /\ <<>> \in X /\ \A q \in X : <<>> \o q = q
      /\ \A q, r \in X : q \o r \in X
  BY EmptySeq, ConcatProperties, ConcatEmptySeq
<1>4. PICK run \in RunOf(<<>>, step, n, X) : TRUE
  <2>1. \A k \in 1 .. n : step[k] \in [X -> X]
    BY <1>1, <1>3
  <2> HIDE DEF step, X, n
  <2>2. RunOf(<<>>, step, n, X) # {}
    BY <1>1, <1>3, <2>1, RunExists
  <2> QED BY <2>2
<1>5. /\ run \in [0 .. n -> X] /\ run[0] = <<>>
      /\ \A k \in 1 .. n : run[k - 1] \in X /\ run[k] = run[k - 1] \o seqs[k]
  <2> HIDE DEF X, n
  <2>1. run \in [0 .. n -> X] /\ run[0] = <<>> /\ \A k \in 1 .. n : run[k] = step[k][run[k - 1]]
    BY <1>4 DEF RunOf
  <2>2. \A k \in 1 .. n : k - 1 \in 0 .. n /\ run[k - 1] \in X
    BY <1>1, <2>1
  <2> QED BY <2>1, <2>2
<1>6. FlatOf(run, seqs, W)
  BY <1>5 DEF FlatOf
<1>7. CASE n = 0
  <2>1. seqs = <<>>
    BY <1>7, EmptySeq
  <2> QED BY <1>2, <1>5, <1>6, <1>7, <2>1
<1>8. CASE n # 0
  <2> HIDE DEF X, n, iter
  <2>1. [k \in 1 .. n |-> run[k]] = body([k \in 1 .. n |-> run[k]])
    <3>1. ASSUME NEW k \in 1 .. n
          PROVE  run[k] = IF k = 1 THEN seqs[k] ELSE run[k - 1] \o seqs[k]
      <4>1. k = 1 => run[k - 1] = <<>>
        BY <1>5
      <4>2. run[k] = run[k - 1] \o seqs[k] /\ <<>> \o seqs[k] = seqs[k]
        BY <1>1, <1>3, <1>5
      <4> QED BY <4>1, <4>2
    <3>2. \A k \in 1 .. n : k # 1 => k - 1 \in 1 .. n
      BY <1>1
    <3> QED BY <3>1, <3>2
  <2>2. iter = body(iter)
    <3> HIDE DEF body
    <3> QED BY <2>1 DEF iter
  <2>3. \A k \in 1 .. n : iter[k] = IF k = 1 THEN seqs[k] ELSE iter[k - 1] \o seqs[k]
    BY <2>2
  <2> DEFINE P == {k \in 0 .. n : k # 0 => iter[k] = run[k]}
  <2>4. 0 \in P
    BY <1>1
  <2>5. ASSUME NEW k \in 0 .. n, k < n, k \in P
        PROVE  k + 1 \in P
    <3>1. k + 1 \in 1 .. n /\ (k + 1) - 1 = k /\ (k + 1 = 1 <=> k = 0)
      BY <1>1, <2>5
    <3>2. run[k + 1] = run[k] \o seqs[k + 1] /\ seqs[k + 1] \in X
      BY <1>1, <1>5, <3>1
    <3>3. iter[k + 1] = IF k + 1 = 1 THEN seqs[k + 1] ELSE iter[k] \o seqs[k + 1]
      BY <2>3, <3>1
    <3>4. k # 0 => iter[k] = run[k]
      BY <2>5
    <3>5. k = 0 => run[k] = <<>> /\ <<>> \o seqs[k + 1] = seqs[k + 1]
      BY <1>3, <1>5, <3>2
    <3>6. iter[k + 1] = run[k + 1]
      BY <3>1, <3>2, <3>3, <3>4, <3>5
    <3>7. k + 1 \in 0 .. n
      BY <1>1, <3>1
    <3> QED BY <3>6, <3>7
  <2>6. 0 .. n \subseteq P
    <3> HIDE DEF P
    <3> QED BY <1>1, <2>4, <2>5, UpTo
  <2>7. iter[n] = run[n]
    BY <1>1, <1>8, <2>6
  <2> QED BY <1>2, <1>6, <1>8, <2>7 DEF n
<1> QED BY <1>7, <1>8

-----------------------------------------------------------------------------
(* Concatenations of lists of sequences. *)

\* The run that gives a concatenation, with its value.
LEMMA FlattenRun ==
    ASSUME NEW W, NEW seqs \in Seq(Seq(W))
    PROVE  /\ FlattenSeq(seqs) \in Seq(W)
           /\ \E run \in [0 .. Len(seqs) -> Seq(W)] :
                 /\ run[0] = <<>> /\ run[Len(seqs)] = FlattenSeq(seqs)
                 /\ \A k \in 1 .. Len(seqs) : run[k] = run[k - 1] \o seqs[k]
<1>1. PICK run : FlatOf(run, seqs, W) /\ FlattenSeq(seqs) = run[Len(seqs)]
  BY FlattenIs
<1>2. /\ run \in [0 .. Len(seqs) -> Seq(W)] /\ run[0] = <<>>
      /\ \A k \in 1 .. Len(seqs) : run[k] = run[k - 1] \o seqs[k]
  BY <1>1 DEF FlatOf
<1>3. Len(seqs) \in 0 .. Len(seqs)
  BY LenProperties
<1>4. FlattenSeq(seqs) \in Seq(W)
  BY <1>1, <1>2, <1>3
<1> QED BY <1>1, <1>2, <1>4

\* The concatenation of two lists, one after the other.
LEMMA FlattenJoined ==
    ASSUME NEW W, NEW a \in Seq(Seq(W)), NEW b \in Seq(Seq(W))
    PROVE  FlattenSeq(a \o b) = FlattenSeq(a) \o FlattenSeq(b)
<1> DEFINE X == Seq(W)
           c == a \o b
           m == Len(a)
           n == Len(b)
<1>1. c \in Seq(X) /\ Len(c) = m + n /\ m \in Nat /\ n \in Nat
  BY ConcatProperties, LenProperties
<1>2. \A k \in 1 .. m + n : c[k] = IF k <= m THEN a[k] ELSE b[k - m]
  BY ConcatProperties
<1>3. (\A k \in 1 .. m : a[k] \in X) /\ \A k \in 1 .. n : b[k] \in X
  BY ElementOfSeq
<1> HIDE DEF c
<1>4. PICK ra \in [0 .. m -> X] : /\ ra[0] = <<>> /\ ra[m] = FlattenSeq(a)
                                  /\ \A k \in 1 .. m : ra[k] = ra[k - 1] \o a[k]
  BY FlattenRun
<1>5. PICK rb \in [0 .. n -> X] : /\ rb[0] = <<>> /\ rb[n] = FlattenSeq(b)
                                  /\ \A k \in 1 .. n : rb[k] = rb[k - 1] \o b[k]
  BY FlattenRun
<1>6. PICK rc \in [0 .. m + n -> X] : /\ rc[0] = <<>> /\ rc[m + n] = FlattenSeq(c)
                                      /\ \A k \in 1 .. m + n : rc[k] = rc[k - 1] \o c[k]
  <2>1. PICK rc \in [0 .. Len(c) -> X] : /\ rc[0] = <<>> /\ rc[Len(c)] = FlattenSeq(c)
                                         /\ \A k \in 1 .. Len(c) : rc[k] = rc[k - 1] \o c[k]
    BY <1>1, FlattenRun
  <2> QED BY <1>1, <2>1
<1> HIDE DEF m, n
<1> DEFINE P == {k \in 0 .. m : rc[k] = ra[k]}
           Q == {k \in 0 .. n : rc[m + k] = ra[m] \o rb[k]}
<1>7. 0 .. m \subseteq P
  <2>1. 0 \in P
    BY <1>1, <1>4, <1>6
  <2>2. ASSUME NEW k \in 0 .. m, k < m, k \in P
        PROVE  k + 1 \in P
    <3>1. k + 1 \in 0 .. m /\ k + 1 \in 1 .. m /\ k + 1 \in 1 .. m + n /\ (k + 1) - 1 = k /\ k + 1 <= m
      BY <1>1, <2>2
    <3>2. c[k + 1] = a[k + 1]
      BY <1>2, <3>1
    <3> QED BY <1>4, <1>6, <2>2, <3>1, <3>2
  <2> HIDE DEF P
  <2> QED BY <1>1, <2>1, <2>2, UpTo
<1>8. rc[m] = ra[m] /\ ra[m] \in X
  BY <1>1, <1>4, <1>7
<1>9. 0 .. n \subseteq Q
  <2>1. 0 \in Q
    <3>1. m + 0 = m /\ 0 \in 0 .. n /\ ra[m] \o <<>> = ra[m]
      BY <1>1, <1>8, ConcatEmptySeq
    <3> QED BY <1>5, <1>8, <3>1
  <2>2. ASSUME NEW k \in 0 .. n, k < n, k \in Q
        PROVE  k + 1 \in Q
    <3>1. /\ k + 1 \in 0 .. n /\ k + 1 \in 1 .. n /\ m + (k + 1) \in 1 .. m + n /\ (k + 1) - 1 = k
          /\ (m + (k + 1)) - 1 = m + k /\ ~(m + (k + 1) <= m) /\ (m + (k + 1)) - m = k + 1
      BY <1>1, <2>2
    <3>2. c[m + (k + 1)] = b[k + 1]
      BY <1>2, <3>1
    <3>3. rc[m + (k + 1)] = rc[m + k] \o b[k + 1]
      BY <1>6, <3>1, <3>2
    <3>4. rb[k + 1] = rb[k] \o b[k + 1]
      BY <1>5, <3>1
    <3>5. rc[m + k] = ra[m] \o rb[k]
      BY <2>2
    <3>6. rb[k] \in X /\ b[k + 1] \in X
      BY <1>3, <1>5, <3>1
    <3>7. (ra[m] \o rb[k]) \o b[k + 1] = ra[m] \o (rb[k] \o b[k + 1])
      <4> DEFINE u == ra[m]
                 v == rb[k]
                 w == b[k + 1]
      <4>1. u \in Seq(W) /\ v \in Seq(W) /\ w \in Seq(W)
        BY <1>8, <3>6
      <4> HIDE DEF u, v, w
      <4>2. (u \o v) \o w = u \o (v \o w)
        BY <4>1, ConcatAssociative, SMTT(30)
      <4> QED BY <4>2 DEF u, v, w
    <3>8. rc[m + (k + 1)] = ra[m] \o rb[k + 1]
      BY <3>3, <3>4, <3>5, <3>7
    <3> QED BY <3>1, <3>8
  <2> HIDE DEF Q
  <2> QED BY <1>1, <2>1, <2>2, UpTo
<1>10. rc[m + n] = ra[m] \o rb[n]
  BY <1>1, <1>9, SMTT(30)
<1>11. FlattenSeq(c) = FlattenSeq(a) \o FlattenSeq(b)
  BY <1>4, <1>5, <1>6, <1>10
<1> QED BY <1>11 DEF c

\* A list of one, a list with one more at an end, a list of empty sequences.
LEMMA FlattenOne ==
    ASSUME NEW W, NEW x \in Seq(W)
    PROVE  <<x>> \in Seq(Seq(W)) /\ FlattenSeq(<<x>>) = x
<1> DEFINE q == <<x>>
<1>1. q \in Seq(Seq(W)) /\ Len(q) = 1 /\ q[1] = x
  OBVIOUS
<1> HIDE DEF q
<1>2. PICK run \in [0 .. Len(q) -> Seq(W)] : /\ run[0] = <<>> /\ run[Len(q)] = FlattenSeq(q)
                                             /\ \A k \in 1 .. Len(q) : run[k] = run[k - 1] \o q[k]
  BY <1>1, FlattenRun
<1>3. 1 \in 1 .. Len(q) /\ 1 - 1 = 0
  BY <1>1
<1>4. FlattenSeq(q) = <<>> \o x
  BY <1>1, <1>2, <1>3
<1>5. <<>> \o x = x
  BY ConcatEmptySeq
<1> QED BY <1>1, <1>4, <1>5 DEF q

\* One element more at the end, and one at the beginning.
LEMMA FlattenEnds ==
    ASSUME NEW W, NEW a \in Seq(Seq(W)), NEW x \in Seq(W)
    PROVE  /\ FlattenSeq(a \o <<x>>) = FlattenSeq(a) \o x
           /\ FlattenSeq(<<x>> \o a) = x \o FlattenSeq(a)
<1>1. <<x>> \in Seq(Seq(W)) /\ FlattenSeq(<<x>>) = x
  BY FlattenOne
<1> DEFINE q == <<x>>
<1>2. q \in Seq(Seq(W)) /\ FlattenSeq(q) = x
  BY <1>1
<1> HIDE DEF q
<1>3. FlattenSeq(a \o q) = FlattenSeq(a) \o FlattenSeq(q) /\ FlattenSeq(q \o a) = FlattenSeq(q) \o FlattenSeq(a)
  BY <1>2, FlattenJoined
<1> QED BY <1>2, <1>3 DEF q

LEMMA FlattenEmpties ==
    ASSUME NEW W, NEW a \in Seq(Seq(W)), \A k \in 1 .. Len(a) : a[k] = <<>>
    PROVE  FlattenSeq(a) = <<>>
<1> DEFINE n == Len(a)
<1>1. n \in Nat /\ <<>> \in Seq(W)
  BY LenProperties, EmptySeq
<1>2. PICK run \in [0 .. n -> Seq(W)] : /\ run[0] = <<>> /\ run[n] = FlattenSeq(a)
                                        /\ \A k \in 1 .. n : run[k] = run[k - 1] \o a[k]
  BY FlattenRun
<1>3. \A k \in 1 .. n : a[k] = <<>>
  OBVIOUS
<1> HIDE DEF n
<1> DEFINE P == {k \in 0 .. n : run[k] = <<>>}
<1>4. 0 \in P
  BY <1>1, <1>2
<1>5. ASSUME NEW k \in 0 .. n, k < n, k \in P
      PROVE  k + 1 \in P
  <2>1. k + 1 \in 0 .. n /\ k + 1 \in 1 .. n /\ (k + 1) - 1 = k
    BY <1>1, <1>5
  <2>2. run[k + 1] = <<>> \o <<>>
    BY <1>2, <1>3, <1>5, <2>1
  <2>3. <<>> \o <<>> = <<>>
    BY <1>1, ConcatEmptySeq
  <2> QED BY <2>1, <2>2, <2>3
<1>6. 0 .. n \subseteq P
  <2> HIDE DEF P
  <2> QED BY <1>1, <1>4, <1>5, UpTo
<1> QED BY <1>1, <1>2, <1>6

\* A list with one more at its end.
LEMMA ListGrows ==
    ASSUME NEW W, NEW k \in Seq(Seq(W)), NEW l \in Seq(Seq(W)), NEW x \in Seq(W),
           Len(l) = Len(k) + 1, \A i \in 1 .. Len(k) : l[i] = k[i], l[Len(k) + 1] = x
    PROVE  FlattenSeq(l) = FlattenSeq(k) \o x
<1>1. k \o <<x>> \in Seq(Seq(W)) /\ Len(k \o <<x>>) = Len(k) + 1 /\ Len(k) \in Nat
  OBVIOUS
<1>2. \A i \in 1 .. Len(k) + 1 : (k \o <<x>>)[i] = l[i]
  BY <1>1
<1> DEFINE g == k \o <<x>>
<1>3. g \in Seq(Seq(W)) /\ Len(g) = Len(l) /\ \A i \in 1 .. Len(g) : g[i] = l[i]
  BY <1>1, <1>2
<1>4. FlattenSeq(g) = FlattenSeq(k) \o x
  BY FlattenEnds
<1> HIDE DEF g
<1>5. g = l
  BY <1>3, SeqEqual
<1> QED BY <1>4, <1>5

\* A list that differs from another in its last element, which is longer by x.
LastLonger(k, l, m, x) ==
    /\ Len(k) = m + 1 /\ Len(l) = m + 1
    /\ \A i \in 1 .. m : l[i] = k[i]
    /\ l[m + 1] = k[m + 1] \o x

LEMMA LastGrows ==
    ASSUME NEW W, NEW m \in Nat, NEW k \in Seq(Seq(W)), NEW l \in Seq(Seq(W)), NEW x \in Seq(W),
           LastLonger(k, l, m, x)
    PROVE  FlattenSeq(l) = FlattenSeq(k) \o x
<1> DEFINE f == SubSeq(k, 1, m)
           y == k[m + 1]
           z == y \o x
<1>1. f \in Seq(Seq(W)) /\ Len(f) = m /\ \A i \in 1 .. m : f[i] = k[i]
  BY DEF LastLonger
<1>2. y \in Seq(W)
  <2>1. m + 1 \in 1 .. Len(k)
    BY DEF LastLonger
  <2> QED BY <2>1, ElementOfSeq
<1>3. z \in Seq(W)
  BY <1>2, ConcatProperties
<1>4. Len(k) = Len(f) + 1 /\ (\A i \in 1 .. Len(f) : k[i] = f[i]) /\ k[Len(f) + 1] = y
  BY <1>1 DEF LastLonger
<1>5. Len(l) = Len(f) + 1 /\ (\A i \in 1 .. Len(f) : l[i] = f[i]) /\ l[Len(f) + 1] = z
  BY <1>1 DEF LastLonger
<1> HIDE DEF f, y
<1>6. FlattenSeq(k) = FlattenSeq(f) \o y
  BY <1>1, <1>2, <1>4, ListGrows
<1> DEFINE g == FlattenSeq(f)
<1>7. g \in Seq(W)
  BY <1>1, FlattenRun
<1> HIDE DEF g
<1>8. (g \o y) \o x = g \o z
  BY <1>2, <1>7, ConcatAssociative, SMTT(30)
<1> HIDE DEF z
<1>9. FlattenSeq(l) = FlattenSeq(f) \o z
  BY <1>1, <1>3, <1>5, ListGrows
<1> QED BY <1>6, <1>8, <1>9 DEF g

\* A fold with a step for each element, and what is a solution of it.
FoldSteps(step, n, X) == \A i \in 1 .. n : step[i] \in [X -> X]

SolutionsOf(base, step, n, X) ==
    {g \in [SUBSET (1 .. n) -> X] :
        /\ g[{}] = base
        /\ \A s \in SUBSET (1 .. n) : s # {} =>
               /\ Max(s) \in 1 .. n /\ g[s \ {Max(s)}] \in X
               /\ g[s] = step[Max(s)][g[s \ {Max(s)}]]}

\* The fold has one.
LEMMA FoldSolution ==
    ASSUME NEW X, NEW base \in X, NEW n \in Nat, NEW step, FoldSteps(step, n, X)
    PROVE  SolutionsOf(base, step, n, X) # {}
<1>1. PICK g \in FoldOf(base, step, n, X) : TRUE
  <2>1. FoldOf(base, step, n, X) # {}
    BY FoldExists DEF FoldSteps
  <2> QED BY <2>1
<1>2. /\ g \in [SUBSET (1 .. n) -> X]
      /\ \A s \in SUBSET (1 .. n) : g[s] = IF s = {} THEN base ELSE step[Max(s)][g[s \ {Max(s)}]]
  BY <1>1 DEF FoldOf
<1>3. {} \in SUBSET (1 .. n) /\ \A s \in SUBSET (1 .. n) : s # {} => Max(s) \in 1 .. n /\ s \ {Max(s)} \in SUBSET (1 .. n)
  BY MaxIn
<1> QED BY <1>2, <1>3 DEF SolutionsOf

\* What solves a fold wherever its values are known.
Solves(iter, base, step, n, X) ==
    /\ iter[{}] = base
    /\ \A s \in SUBSET (1 .. n) : s # {} /\ iter[s \ {Max(s)}] \in X =>
           iter[s] = step[Max(s)][iter[s \ {Max(s)}]]

\* It agrees with the run on the first positions.
LEMMA FoldIsRun ==
    ASSUME NEW X, NEW base \in X, NEW n \in Nat, NEW step, FoldSteps(step, n, X),
           NEW iter, Solves(iter, base, step, n, X)
    PROVE  \E run \in RunOf(base, step, n, X) : run[n] = iter[1 .. n]
<1>1. PICK run \in RunOf(base, step, n, X) : TRUE
  <2>1. RunOf(base, step, n, X) # {}
    BY RunExists DEF FoldSteps
  <2> QED BY <2>1
<1>2. run \in [0 .. n -> X] /\ run[0] = base /\ \A i \in 1 .. n : run[i] = step[i][run[i - 1]]
  BY <1>1 DEF RunOf
<1> DEFINE P == {m \in 0 .. n : iter[1 .. m] = run[m]}
<1>3. 0 \in P
  <2>1. 1 .. 0 = {} /\ 0 \in 0 .. n
    BY MaxIn
  <2> QED BY <1>2, <2>1 DEF Solves
<1>4. ASSUME NEW m \in 0 .. n, m < n, m \in P
      PROVE  m + 1 \in P
  <2>1. m + 1 \in 1 .. n /\ (m + 1) - 1 = m /\ m + 1 \in 0 .. n
    BY <1>4
  <2>2. /\ Max(1 .. m + 1) = m + 1 /\ (1 .. m + 1) \ {m + 1} = 1 .. m
        /\ 1 .. m + 1 \in SUBSET (1 .. n) /\ 1 .. m + 1 # {}
    BY <2>1, MaxIn
  <2>3. iter[1 .. m] = run[m] /\ run[m] \in X
    BY <1>2, <1>4
  <2>4. iter[1 .. m + 1] = step[m + 1][iter[1 .. m]]
    BY <2>2, <2>3 DEF Solves
  <2>5. run[m + 1] = step[m + 1][run[m]]
    BY <1>2, <2>1
  <2> QED BY <2>1, <2>3, <2>4, <2>5
<1>5. 0 .. n \subseteq P
  <2> HIDE DEF P
  <2> QED BY <1>3, <1>4, UpTo
<1>6. iter[1 .. n] = run[n]
  BY <1>5
<1> QED BY <1>1, <1>6
=============================================================================
