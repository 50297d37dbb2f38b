--------------------------- MODULE GpuSyncProofs ---------------------------
(***************************************************************************)
(* Proofs about GpuSync, for any threads, objects, calls and bounds.       *)
(*                                                                         *)
(* First come facts about sets of naturals and about FlattenSeq, by        *)
(* induction over naturals.  The induction is stated for a set instead of  *)
(* a predicate, so that a proof instantiates it with the set of the        *)
(* numbers for which what it wants holds.                                  *)
(***************************************************************************)
EXTENDS GpuSyncInvariants, SequenceTheorems, FiniteSetTheorems, WellFoundedInduction, TLAPS

----------------------------------------------------------------------------
\* Sets of naturals and sequences of sequences

\* A set of naturals has a least element.
LEMMA LeastExists ==
    ASSUME NEW P \in SUBSET Nat, P # {}
    PROVE  \E n \in P : \A m \in P : n <= m
<1>. DEFINE R == {ss \in Nat \X Nat : ss[1] < ss[2]}
<1>1. IsWellFoundedOn(R, Nat) BY NatLessThanWellFounded DEF OpToRel
<1>. HIDE DEF R
<1>2. PICK x \in P : \A y \in P : ~(<<y, x>> \in R) BY <1>1, WFMin
<1>3. \A y \in P : ~(y < x) BY <1>2 DEF R
<1>. QED BY <1>3

\* Induction: a set of naturals with 0 that is closed under successor is Nat.
LEMMA Induction ==
    ASSUME NEW T \in SUBSET Nat, 0 \in T, \A n \in T : n + 1 \in T
    PROVE  T = Nat
<1>. DEFINE U == Nat \ T
<1>1. SUFFICES ASSUME U # {} PROVE FALSE OBVIOUS
<1>2. PICK x \in U : \A m \in U : x <= m BY <1>1, LeastExists
<1>3. x # 0 /\ x - 1 \in Nat /\ ~(x <= x - 1) BY <1>2
<1>4. x - 1 \in T BY <1>2, <1>3
<1>. QED BY <1>2, <1>3, <1>4

\* A bounded set of naturals has a greatest element.
LEMMA GreatestExists ==
    ASSUME NEW P \in SUBSET Nat, P # {}, NEW N \in Nat, \A n \in P : n <= N
    PROVE  \E n \in P : \A m \in P : m <= n
<1>. DEFINE Q == {N - n : n \in P}
<1>1. \A n \in P : n \in Nat /\ n <= N OBVIOUS
<1>a. \A n \in P : N - n \in Nat BY <1>1
<1>b. Q \in SUBSET Nat /\ Q # {} BY <1>a
<1>2. PICK q \in Q : \A m \in Q : q <= m BY <1>b, LeastExists
<1>3. PICK n \in P : q = N - n OBVIOUS
<1>4. \A m \in P : N - n <= N - m BY <1>2, <1>3
<1>. QED BY <1>1, <1>4

----------------------------------------------------------------------------
\* The partial results of FlattenSeq

\* There are such partial results.
LEMMA FlattensExists ==
    ASSUME NEW S, NEW s \in Seq(Seq(S)), s # <<>>
    PROVE  \E f : Flattens(f, s, S)
<1>. DEFINE Upto(n) == \E f \in [1..n -> Seq(S)] :
                         /\ f[1] = s[1]
                         /\ \A i \in 1..n : i + 1 \in 1..n => f[i + 1] = f[i] \o s[i + 1]
            T == {n \in Nat : n + 1 \in 1..Len(s) => Upto(n + 1)}
<1>1. 0 \in T
  <2>1. s[1] \in Seq(S) OBVIOUS
  <2>. DEFINE h == [i \in 1..1 |-> s[1]]
  <2>2. h \in [1..1 -> Seq(S)] /\ h[1] = s[1] BY <2>1
  <2>3. \A i \in 1..1 : ~(i + 1 \in 1..1) OBVIOUS
  <2>. HIDE DEF h
  <2>4. Upto(1) BY <2>2, <2>3
  <2>. HIDE DEF Upto
  <2>. QED BY <2>4
<1>2. ASSUME NEW n \in T PROVE n + 1 \in T
  <2>. DEFINE k == n + 1
  <2>. HIDE DEF Upto
  <2>1. SUFFICES ASSUME k + 1 \in 1..Len(s) PROVE Upto(k + 1) OBVIOUS
  <2>2. k \in 1..Len(s) /\ k \in Nat BY <2>1
  <2>3. Upto(k) BY <2>2
  <2>. USE DEF Upto
  <2>. HIDE DEF k
  <2>4. PICK f \in [1..k -> Seq(S)] :
           /\ f[1] = s[1]
           /\ \A i \in 1..k : i + 1 \in 1..k => f[i + 1] = f[i] \o s[i + 1]
        BY <2>3
  <2>. DEFINE g == [i \in 1..(k + 1) |-> IF i = k + 1 THEN f[k] \o s[k + 1] ELSE f[i]]
  <2>5. s[k + 1] \in Seq(S) /\ f[k] \in Seq(S) BY <2>1, <2>2, <2>4
  <2>6. f[k] \o s[k + 1] \in Seq(S) BY <2>5
  <2>7. g \in [1..(k + 1) -> Seq(S)] BY <2>2, <2>6, <2>4
  <2>8. g[1] = s[1] BY <2>2, <2>4
  <2>9. ASSUME NEW i \in 1..(k + 1), i + 1 \in 1..(k + 1) PROVE g[i + 1] = g[i] \o s[i + 1]
    <3>1. i \in 1..k /\ g[i] = f[i] BY <2>2, <2>9
    <3>2. CASE i = k
      <4>1. g[k + 1] = f[k] \o s[k + 1] BY <2>2
      <4>. QED BY <3>1, <3>2, <4>1
    <3>3. CASE i # k
      <4>1. i + 1 \in 1..k BY <2>2, <3>1, <3>3
      <4>2. g[i + 1] = f[i + 1] BY <4>1, <2>2
      <4>. QED BY <3>1, <4>1, <4>2, <2>4
    <3>. QED BY <3>2, <3>3
  <2>. HIDE DEF g
  <2>. QED BY <2>7, <2>8, <2>9
<1>. HIDE DEF Upto
<1>3. T = Nat BY <1>1, <1>2, Induction
<1>4. Len(s) - 1 \in Nat /\ (Len(s) - 1) + 1 = Len(s) /\ Len(s) \in 1..Len(s) OBVIOUS
<1>5. Upto(Len(s)) BY <1>3, <1>4
<1>. QED BY <1>5 DEF Flattens, Upto

\* FlattenSeq is the last of them.
LEMMA FlattensIs ==
    ASSUME NEW S, NEW s \in Seq(Seq(S)), s # <<>>, NEW f, Flattens(f, s, S)
    PROVE  FlattenSeq(s) = f[Len(s)]
<1>. DEFINE P(g) == g = [i \in 1..Len(s) |-> IF i = 1 THEN s[i] ELSE g[i - 1] \o s[i]]
<1>1. P(f)
  <2>1. f = [i \in 1..Len(s) |-> f[i]] BY DEF Flattens
  <2>2. ASSUME NEW i \in 1..Len(s) PROVE f[i] = IF i = 1 THEN s[i] ELSE f[i - 1] \o s[i]
    <3>1. CASE i = 1 BY <3>1 DEF Flattens
    <3>2. CASE i # 1
      <4>1. i - 1 \in 1..Len(s) /\ (i - 1) + 1 = i BY <3>2
      <4>. QED BY <3>2, <4>1 DEF Flattens
    <3>. QED BY <3>1, <3>2
  <2>. QED BY <2>1, <2>2
<1>2. PICK g : g = CHOOSE h : P(h) OBVIOUS
<1>3. P(g) BY <1>1, <1>2
<1>4. FlattenSeq(s) = g[Len(s)] BY <1>2 DEF FlattenSeq
<1>. DEFINE T == {n \in Nat : n + 1 \in 1..Len(s) => f[n + 1] = g[n + 1]}
<1>5. 0 \in T BY <1>1, <1>3
<1>6. ASSUME NEW n \in T PROVE n + 1 \in T
  <2>1. SUFFICES ASSUME n + 2 \in 1..Len(s) PROVE f[n + 2] = g[n + 2] OBVIOUS
  <2>2. n + 1 \in 1..Len(s) /\ (n + 2) - 1 = n + 1 /\ n + 2 # 1 BY <2>1
  <2>3. f[n + 1] = g[n + 1] BY <2>2
  <2>4. f[n + 2] = f[n + 1] \o s[n + 2] BY <1>1, <2>1, <2>2
  <2>5. g[n + 2] = g[n + 1] \o s[n + 2] BY <1>3, <2>1, <2>2
  <2>. QED BY <2>3, <2>4, <2>5
<1>. HIDE DEF P
<1>7. T = Nat BY <1>5, <1>6, Induction
<1>8. Len(s) - 1 \in Nat /\ (Len(s) - 1) + 1 = Len(s) /\ Len(s) \in 1..Len(s) OBVIOUS
<1>. QED BY <1>4, <1>7, <1>8

\* One sequence more is joined to the result.
LEMMA FlattenAppend ==
    ASSUME NEW S, NEW s \in Seq(Seq(S)), NEW x \in Seq(S)
    PROVE  /\ FlattenSeq(s) \in Seq(S)
           /\ FlattenSeq(Append(s, x)) = FlattenSeq(s) \o x
<1>1. CASE s = <<>>
  <2>1. FlattenSeq(s) = <<>> BY <1>1 DEF FlattenSeq
  <2>. DEFINE y == Append(s, x)   f == [i \in 1..1 |-> x]
  <2>2. y \in Seq(Seq(S)) /\ y # <<>> /\ Len(y) = 1 /\ y[1] = x BY <1>1
  <2>. HIDE DEF y
  <2>3. Flattens(f, y, S) BY <2>2 DEF Flattens
  <2>4. FlattenSeq(y) = f[1] BY <2>2, <2>3, FlattensIs
  <2>5. FlattenSeq(y) = x BY <2>4
  <2>. QED BY <2>1, <2>5 DEF y
<1>2. CASE s # <<>>
  <2>1. PICK f : Flattens(f, s, S) BY <1>2, FlattensExists
  <2>. DEFINE k == Len(s)
  <2>2. k \in Nat /\ k \in 1..k BY <1>2
  <2>3. FlattenSeq(s) = f[k] BY <1>2, <2>1, FlattensIs
  <2>4. f[k] \in Seq(S) BY <2>1, <2>2 DEF Flattens
  <2>. DEFINE y == Append(s, x)
              g == [i \in 1..(k + 1) |-> IF i = k + 1 THEN f[k] \o x ELSE f[i]]
  <2>5. /\ y \in Seq(Seq(S)) /\ y # <<>> /\ Len(y) = k + 1
        /\ \A i \in 1..k : y[i] = s[i]
        /\ y[k + 1] = x
        BY AppendProperties
  <2>6. f[k] \o x \in Seq(S) BY <2>4
  <2>7. f \in [1..k -> Seq(S)] /\ f[1] = s[1]
        /\ \A i \in 1..k : i + 1 \in 1..k => f[i + 1] = f[i] \o s[i + 1]
        BY <2>1 DEF Flattens
  <2>. HIDE DEF k, y
  <2>8. Flattens(g, y, S)
    <3>1. g \in [1..Len(y) -> Seq(S)] BY <2>2, <2>5, <2>6, <2>7
    <3>2. g[1] = y[1] BY <2>2, <2>5, <2>7
    <3>3. ASSUME NEW i \in 1..Len(y), i + 1 \in 1..Len(y) PROVE g[i + 1] = g[i] \o y[i + 1]
      <4>1. i \in 1..k /\ g[i] = f[i] BY <2>2, <2>5, <3>3
      <4>2. CASE i = k
        <5>1. g[k + 1] = f[k] \o x BY <2>2
        <5>. QED BY <2>5, <4>1, <4>2, <5>1
      <4>3. CASE i # k
        <5>1. i + 1 \in 1..k BY <2>2, <4>1, <4>3
        <5>2. g[i + 1] = f[i + 1] /\ y[i + 1] = s[i + 1] BY <2>2, <2>5, <5>1
        <5>. QED BY <2>7, <4>1, <5>1, <5>2
      <4>. QED BY <4>2, <4>3
    <3>. QED BY <3>1, <3>2, <3>3 DEF Flattens
  <2>9. FlattenSeq(y) = g[k + 1] BY <2>5, <2>8, FlattensIs
  <2>10. g[k + 1] = f[k] \o x BY <2>2
  <2>. QED BY <2>3, <2>4, <2>9, <2>10 DEF y
<1>. QED BY <1>1, <1>2

\* Flattening nothing
LEMMA FlattenEmpty == FlattenSeq(<<>>) = <<>>
BY DEF FlattenSeq

\* What the first n elements are
LEMMA TakeFacts ==
    ASSUME NEW S, NEW s \in Seq(S)
    PROVE  /\ Take(s, 0) = <<>>
           /\ Take(s, Len(s)) = s
           /\ \A n \in Nat : n <= Len(s) => Take(s, n) \in Seq(S) /\ Len(Take(s, n)) = n
           /\ \A n \in Nat : n <= Len(s) => \A i \in 1..n : Take(s, n)[i] = s[i]
BY DEF Take

\* The first n + 1 elements are the first n and the next.
LEMMA TakeStep ==
    ASSUME NEW S, NEW s \in Seq(S), NEW n \in Nat, n + 1 \in 1..Len(s)
    PROVE  Take(s, n + 1) = Append(Take(s, n), s[n + 1])
<1>. DEFINE x == s[n + 1]   z == Take(s, n)   y == Append(z, x)   w == Take(s, n + 1)
<1>0. x \in S /\ n <= Len(s) /\ n + 1 \in Nat /\ n + 1 <= Len(s) OBVIOUS
<1>1. z \in Seq(S) /\ Len(z) = n /\ \A i \in 1..n : z[i] = s[i] BY <1>0, TakeFacts
<1>2. w \in Seq(S) /\ Len(w) = n + 1 /\ \A i \in 1..(n + 1) : w[i] = s[i] BY <1>0, TakeFacts
<1>. HIDE DEF z, w
<1>3. y \in Seq(S) /\ Len(y) = n + 1 /\ y[n + 1] = x /\ \A i \in 1..n : y[i] = z[i]
      BY <1>0, <1>1, AppendProperties
<1>4. \A i \in 1..(n + 1) : y[i] = s[i] BY <1>1, <1>3
<1>. HIDE DEF y
<1>5. w = y BY <1>2, <1>3, <1>4, SeqEqual
<1>. QED BY <1>5 DEF y, w, z

\* Induction over sequences: a set that holds the empty sequence and, with a
\* sequence, each of its extensions holds all.
LEMMA SeqInduction ==
    ASSUME NEW S, NEW T, <<>> \in T,
           \A s \in Seq(S), e \in S : s \in T => Append(s, e) \in T
    PROVE  Seq(S) \subseteq T
<1>1. SUFFICES ASSUME NEW s \in Seq(S) PROVE s \in T OBVIOUS
<1>. DEFINE U == {n \in Nat : n <= Len(s) => Take(s, n) \in T}
<1>2. 0 \in U BY TakeFacts
<1>3. ASSUME NEW n \in U PROVE n + 1 \in U
  <2>1. SUFFICES ASSUME n + 1 <= Len(s) PROVE Take(s, n + 1) \in T OBVIOUS
  <2>2. n <= Len(s) /\ n + 1 \in 1..Len(s) /\ n \in Nat BY <2>1
  <2>3. Take(s, n) \in T BY <2>2
  <2>4. Take(s, n) \in Seq(S) /\ s[n + 1] \in S BY <2>2, TakeFacts
  <2>5. Append(Take(s, n), s[n + 1]) \in T BY <2>3, <2>4
  <2>. QED BY <2>2, <2>5, TakeStep
<1>4. U = Nat BY <1>2, <1>3, Induction
<1>5. Len(s) \in Nat OBVIOUS
<1>. QED BY <1>4, <1>5, TakeFacts

----------------------------------------------------------------------------
\* Where the elements of a sequence of sequences go

\* The flattened sequence is a sequence of the same elements.
LEMMA FlattenType ==
    ASSUME NEW S, NEW s \in Seq(Seq(S))
    PROVE  FlattenSeq(s) \in Seq(S) /\ Len(FlattenSeq(s)) \in Nat
<1>1. <<>> \in Seq(S) OBVIOUS
<1>. QED BY <1>1, FlattenAppend

\* The first n + 1 sequences flatten to the first n and the next.
LEMMA FlattenPrefix ==
    ASSUME NEW S, NEW s \in Seq(Seq(S)), NEW n \in Nat, n + 1 \in 1..Len(s)
    PROVE  /\ FlattenSeq(Take(s, n)) \in Seq(S)
           /\ s[n + 1] \in Seq(S)
           /\ FlattenSeq(Take(s, n + 1)) = FlattenSeq(Take(s, n)) \o s[n + 1]
<1>1. n <= Len(s) /\ s[n + 1] \in Seq(S) OBVIOUS
<1>2. Take(s, n) \in Seq(Seq(S)) BY <1>1, TakeFacts
<1>3. Take(s, n + 1) = Append(Take(s, n), s[n + 1]) BY TakeStep
<1>. QED BY <1>1, <1>2, <1>3, FlattenAppend

\* The first sequence starts at the beginning, each other one where the one
\* before it ends.
LEMMA StartNext ==
    ASSUME NEW S, NEW s \in Seq(Seq(S))
    PROVE  /\ Start(s, 1) = 0
           /\ Start(s, Len(s) + 1) = Len(FlattenSeq(s))
           /\ \A i \in 1..(Len(s) + 1) : Start(s, i) \in Nat
           /\ \A i \in 1..Len(s) : Start(s, i + 1) = Start(s, i) + Len(s[i])
<1>1. Start(s, 1) = 0
  <2>1. 1 - 1 = 0 /\ Len(<<>>) = 0 OBVIOUS
  <2>2. Take(s, 0) = <<>> BY TakeFacts
  <2>. QED BY <2>1, <2>2, FlattenEmpty DEF Start
<1>2. (Len(s) + 1) - 1 = Len(s) OBVIOUS
<1>4. Start(s, Len(s) + 1) = Len(FlattenSeq(s)) BY <1>2, TakeFacts DEF Start
<1>5. ASSUME NEW i \in 1..(Len(s) + 1) PROVE Start(s, i) \in Nat
  <2>1. i - 1 \in Nat /\ i - 1 <= Len(s) OBVIOUS
  <2>2. Take(s, i - 1) \in Seq(Seq(S)) BY <2>1, TakeFacts
  <2>. QED BY <2>2, FlattenType DEF Start
<1>6. ASSUME NEW i \in 1..Len(s) PROVE Start(s, i + 1) = Start(s, i) + Len(s[i])
  <2>. DEFINE n == i - 1   a == FlattenSeq(Take(s, n))   b == FlattenSeq(Take(s, n + 1))   x == s[n + 1]
  <2>1. n \in Nat /\ n + 1 = i /\ (i + 1) - 1 = n + 1 /\ n + 1 \in 1..Len(s) OBVIOUS
  <2>2. b = a \o x /\ a \in Seq(S) /\ x \in Seq(S) BY <2>1, FlattenPrefix
  <2>3. Start(s, i) = Len(a) /\ Start(s, i + 1) = Len(b) BY <2>1 DEF Start
  <2>4. x = s[i] BY <2>1
  <2>. HIDE DEF a, b, x
  <2>5. Len(b) = Len(a) + Len(x) BY <2>2
  <2>. QED BY <2>3, <2>4, <2>5
<1>. QED BY <1>1, <1>4, <1>5, <1>6

\* The start of a sequence is a natural.
LEMMA StartType ==
    ASSUME NEW S, NEW s \in Seq(Seq(S)), NEW i \in 1..Len(s)
    PROVE  Start(s, i) \in Nat
<1>1. i \in 1..(Len(s) + 1) OBVIOUS
<1>. QED BY <1>1, StartNext

\* What comes from an earlier sequence stands before what comes from a later one.
LEMMA StartOrder ==
    ASSUME NEW S, NEW s \in Seq(Seq(S)), NEW i \in 1..Len(s), NEW j \in 1..(Len(s) + 1), i < j
    PROVE  Start(s, i) + Len(s[i]) <= Start(s, j)
<1>. DEFINE T == {n \in Nat : i + n + 1 <= Len(s) + 1
                                => Start(s, i) + Len(s[i]) <= Start(s, i + n + 1)}
<1>0. Start(s, i) + Len(s[i]) \in Nat BY StartNext
<1>1. 0 \in T
  <2>1. i + 0 + 1 = i + 1 OBVIOUS
  <2>. QED BY <1>0, <2>1, StartNext
<1>2. ASSUME NEW n \in T PROVE n + 1 \in T
  <2>1. SUFFICES ASSUME i + (n + 1) + 1 <= Len(s) + 1
                 PROVE  Start(s, i) + Len(s[i]) <= Start(s, i + (n + 1) + 1)
        OBVIOUS
  <2>2. i + n + 1 <= Len(s) + 1 /\ i + n + 1 \in 1..Len(s) /\ i + (n + 1) + 1 = (i + n + 1) + 1
        BY <2>1
  <2>3. Start(s, i) + Len(s[i]) <= Start(s, i + n + 1) BY <2>2
  <2>. DEFINE k == i + n + 1
  <2>4. Start(s, k + 1) = Start(s, k) + Len(s[k]) /\ Start(s, k) \in Nat BY <2>2, StartNext, SMTT(40)
  <2>5. Len(s[k]) \in Nat BY <2>2
  <2>. HIDE DEF k
  <2>6. Start(s, i) + Len(s[i]) <= Start(s, k + 1) BY <1>0, <2>3, <2>4, <2>5, SMTT(40) DEF k
  <2>. QED BY <2>2, <2>6 DEF k
<1>3. T = Nat BY <1>1, <1>2, Induction
<1>4. j - i - 1 \in Nat /\ i + (j - i - 1) + 1 = j /\ j <= Len(s) + 1 OBVIOUS
<1>5. j - i - 1 \in T BY <1>3, <1>4
<1>. QED BY <1>4, <1>5

\* Element m of sequence i stands m places after the start of that sequence.
LEMMA FlattenAt ==
    ASSUME NEW S, NEW s \in Seq(Seq(S)), NEW i \in 1..Len(s), NEW m \in 1..Len(s[i])
    PROVE  /\ Start(s, i) + m \in 1..Len(FlattenSeq(s))
           /\ FlattenSeq(s)[Start(s, i) + m] = s[i][m]
<1>. DEFINE p == Start(s, i) + m   F(k) == FlattenSeq(Take(s, k))
            Holds(k) == p \in 1..Len(F(k)) /\ F(k)[p] = s[i][m]
            T == {n \in Nat : i + n <= Len(s) => Holds(i + n)}
<1>0. Start(s, i) \in Nat /\ s[i] \in Seq(S) /\ Len(s[i]) \in Nat BY StartNext
<1>a. p \in Nat /\ p >= 1 BY <1>0
<1>b. ASSUME NEW k \in Nat, k + 1 \in 1..Len(s)
      PROVE  F(k + 1) = F(k) \o s[k + 1] /\ F(k) \in Seq(S) /\ s[k + 1] \in Seq(S)
      BY <1>b, FlattenPrefix
<1>c. Start(s, i) = Len(F(i - 1)) BY DEF Start
<1>. HIDE DEF F
<1>1. 0 \in T
  <2>1. i - 1 \in Nat /\ (i - 1) + 1 = i /\ i + 0 = i OBVIOUS
  <2>2. F(i) = F(i - 1) \o s[i] /\ F(i - 1) \in Seq(S) BY <1>b, <2>1
  <2>. DEFINE a == F(i - 1)   b == F(i)   x == s[i]
  <2>3. b = a \o x /\ a \in Seq(S) /\ x \in Seq(S) /\ p = Len(a) + m /\ m \in 1..Len(x)
        BY <1>0, <1>c, <2>2
  <2>. HIDE DEF a, b, x, p
  <2>4. p \in 1..Len(b) /\ b[p] = x[m] BY <2>3
  <2>5. Holds(i) BY <2>4 DEF b, x
  <2>. HIDE DEF Holds
  <2>. QED BY <2>1, <2>5
<1>2. ASSUME NEW n \in T PROVE n + 1 \in T
  <2>. DEFINE k == i + n
  <2>1. SUFFICES ASSUME k + 1 <= Len(s) PROVE Holds(k + 1)
    <3>1. i + (n + 1) = k + 1 OBVIOUS
    <3>. HIDE DEF Holds
    <3>. QED BY <3>1
  <2>2. k \in Nat /\ k <= Len(s) /\ k + 1 \in 1..Len(s) BY <2>1
  <2>3. Holds(k) BY <2>2
  <2>. HIDE DEF k
  <2>. DEFINE a == F(k)   b == F(k + 1)   x == s[k + 1]
  <2>4. b = a \o x /\ a \in Seq(S) /\ x \in Seq(S) /\ p \in 1..Len(a) /\ a[p] = s[i][m]
        BY <1>b, <2>2, <2>3
  <2>. HIDE DEF a, b, x, p
  <2>5. p \in 1..Len(b) /\ b[p] = a[p] BY <2>4, <1>a
  <2>. QED BY <2>4, <2>5 DEF b
<1>. HIDE DEF Holds
<1>3. T = Nat BY <1>1, <1>2, Induction
<1>4. PICK q \in Nat : i + q = Len(s)
  <2>1. Len(s) - i \in Nat /\ i + (Len(s) - i) = Len(s) OBVIOUS
  <2>. QED BY <2>1
<1>d. i + q <= Len(s) BY <1>4
<1>5. Holds(Len(s)) BY <1>3, <1>4, <1>d
<1>6. F(Len(s)) = FlattenSeq(s) BY TakeFacts DEF F
<1>. QED BY <1>5, <1>6 DEF Holds

\* Every element of the result comes from somewhere.
LEMMA FlattenFrom ==
    ASSUME NEW S, NEW s \in Seq(Seq(S)), NEW n \in 1..Len(FlattenSeq(s))
    PROVE  \E i \in 1..Len(s) : \E m \in 1..Len(s[i]) : n = Start(s, i) + m
<1>. DEFINE T == {k \in Nat : k <= Len(s) =>
                     \A q \in 1..Start(s, k + 1) :
                        \E i \in 1..Len(s) : \E m \in 1..Len(s[i]) : q = Start(s, i) + m}
<1>1. 0 \in T
  <2>1. 0 + 1 = 1 /\ 1..Start(s, 1) = {} BY StartNext
  <2>. QED BY <2>1
<1>2. ASSUME NEW k \in T PROVE k + 1 \in T
  <2>1. SUFFICES ASSUME k + 1 <= Len(s), NEW q \in 1..Start(s, (k + 1) + 1)
                 PROVE  \E i \in 1..Len(s) : \E m \in 1..Len(s[i]) : q = Start(s, i) + m
        OBVIOUS
  <2>2. k + 1 \in 1..Len(s) /\ k <= Len(s) BY <2>1
  <2>3. Start(s, (k + 1) + 1) = Start(s, k + 1) + Len(s[k + 1]) /\ Start(s, k + 1) \in Nat
        /\ Len(s[k + 1]) \in Nat
        BY <2>2, StartNext
  <2>4. CASE q <= Start(s, k + 1)
    <3>1. q \in 1..Start(s, k + 1) BY <2>1, <2>3, <2>4
    <3>. QED BY <2>2, <3>1
  <2>5. CASE ~(q <= Start(s, k + 1))
    <3>1. q - Start(s, k + 1) \in 1..Len(s[k + 1])
          /\ q = Start(s, k + 1) + (q - Start(s, k + 1)) BY <2>1, <2>3, <2>5, SMTT(40)
    <3>. QED BY <2>2, <3>1
  <2>. QED BY <2>4, <2>5
<1>3. T = Nat BY <1>1, <1>2, Induction
<1>4. Len(s) \in Nat OBVIOUS
<1>5. Len(s) \in T BY <1>3, <1>4
<1>. QED BY <1>4, <1>5, StartNext

\* The order of the places is the order of the sequences they come from, and
\* within one sequence the order there.
LEMMA PlacesInOrder ==
    ASSUME NEW S, NEW s \in Seq(Seq(S)), NEW i \in 1..Len(s), NEW j \in 1..Len(s),
           NEW m \in 1..Len(s[i]), NEW r \in 1..Len(s[j]), Start(s, i) + m <= Start(s, j) + r
    PROVE  /\ i <= j
           /\ i = j => m <= r
<1>1. Start(s, i) \in Nat /\ Start(s, j) \in Nat BY StartNext, SMTT(40)
<1>2. i = j => m <= r BY <1>1
<1>3. ASSUME j < i PROVE FALSE
  <2>1. i \in 1..(Len(s) + 1) OBVIOUS
  <2>2. Start(s, j) + Len(s[j]) <= Start(s, i) BY <1>3, <2>1, StartOrder
  <2>3. Len(s[j]) \in Nat OBVIOUS
  <2>. QED BY <1>1, <2>2, <2>3, SMTT(40)
<1>. QED BY <1>2, <1>3

----------------------------------------------------------------------------
\* FlattenSeq and the operations on sequences

\* Flattening joined sequences joins the flattened ones.
LEMMA FlattenConcat ==
    ASSUME NEW S, NEW s \in Seq(Seq(S)), NEW t \in Seq(Seq(S))
    PROVE  FlattenSeq(s \o t) = FlattenSeq(s) \o FlattenSeq(t)
<1>. DEFINE T == {u \in Seq(Seq(S)) : FlattenSeq(s \o u) = FlattenSeq(s) \o FlattenSeq(u)}
<1>1. <<>> \in T
  <2>1. s \o <<>> = s /\ <<>> \in Seq(Seq(S)) OBVIOUS
  <2>. DEFINE a == FlattenSeq(s)
  <2>2. a \in Seq(S) BY FlattenType
  <2>. HIDE DEF a
  <2>3. a \o <<>> = a BY <2>2
  <2>. QED BY <2>1, <2>3, FlattenEmpty DEF a
<1>2. ASSUME NEW u \in Seq(Seq(S)), NEW e \in Seq(S), u \in T PROVE Append(u, e) \in T
  <2>1. s \o Append(u, e) = Append(s \o u, e) /\ s \o u \in Seq(Seq(S)) /\ Append(u, e) \in Seq(Seq(S))
        OBVIOUS
  <2>. DEFINE a == FlattenSeq(s)   b == FlattenSeq(u)
  <2>2. a \in Seq(S) /\ b \in Seq(S) BY FlattenType
  <2>3. FlattenSeq(s \o u) = a \o b BY <1>2
  <2>4. FlattenSeq(Append(s \o u, e)) = (a \o b) \o e BY <2>1, <2>3, FlattenAppend
  <2>5. FlattenSeq(Append(u, e)) = b \o e BY FlattenAppend
  <2>. HIDE DEF a, b
  <2>6. (a \o b) \o e = a \o (b \o e) BY <2>2, ConcatAssociative, SMTT(60)
  <2>. QED BY <2>1, <2>4, <2>5, <2>6 DEF a
<1>3. Seq(Seq(S)) \subseteq T BY <1>1, <1>2, SeqInduction
<1>. QED BY <1>3

\* Flattening a single sequence
LEMMA FlattenOne ==
    ASSUME NEW S, NEW x \in Seq(S)
    PROVE  FlattenSeq(<<x>>) = x
<1>1. <<>> \in Seq(Seq(S)) /\ Append(<<>>, x) = <<x>> OBVIOUS
<1>2. <<>> \o x = x OBVIOUS
<1>. QED BY <1>1, <1>2, FlattenAppend, FlattenEmpty

\* The first part keeps its places, the second one is moved by its length.
LEMMA ConcatAt ==
    ASSUME NEW S, NEW p \in Seq(S), NEW q \in Seq(S), NEW v, Joins(v, p, q)
    PROVE  /\ v \in Seq(S) /\ Len(v) = Len(p) + Len(q)
           /\ Len(p) \in Nat /\ Len(q) \in Nat
           /\ \A m \in 1..Len(p) : v[m] = p[m]
           /\ \A m \in 1..Len(q) : v[Len(p) + m] = q[m]
<1>. DEFINE w == p \o q
<1>1. /\ w \in Seq(S) /\ Len(w) = Len(p) + Len(q)
      /\ \A i \in 1..(Len(p) + Len(q)) : w[i] = IF i <= Len(p) THEN p[i] ELSE q[i - Len(p)]
      BY ConcatProperties
<1>2. Len(p) \in Nat /\ Len(q) \in Nat OBVIOUS
<1>a. v = w BY DEF Joins
<1>. HIDE DEF w
<1>3. ASSUME NEW m \in 1..Len(p) PROVE w[m] = p[m]
  <2>1. m <= Len(p) /\ m \in 1..(Len(p) + Len(q)) BY <1>2
  <2>. QED BY <1>1, <2>1
<1>4. ASSUME NEW m \in 1..Len(q) PROVE w[Len(p) + m] = q[m]
  <2>1. Len(p) + m \in 1..(Len(p) + Len(q)) /\ ~(Len(p) + m <= Len(p)) /\ (Len(p) + m) - Len(p) = m
        BY <1>2
  <2>. QED BY <1>1, <2>1
<1>. QED BY <1>1, <1>2, <1>3, <1>4, <1>a

\* A sequence of two parts around one element
LEMMA AroundOne ==
    ASSUME NEW S, NEW p \in Seq(S), NEW x \in S, NEW q \in Seq(S),
           NEW v, v = (p \o <<x>>) \o q
    PROVE  /\ v \in Seq(S)
           /\ Len(v) = Len(p) + 1 + Len(q)
           /\ Len(p) \in Nat /\ Len(q) \in Nat
           /\ \A m \in 1..Len(p) : v[m] = p[m]
           /\ v[Len(p) + 1] = x
           /\ \A m \in 1..Len(q) : v[Len(p) + 1 + m] = q[m]
<1>. DEFINE o == <<x>>   u == p \o o   w == u \o q
<1>1. o \in Seq(S) /\ Len(o) = 1 /\ o[1] = x OBVIOUS
<1>2. Len(p) \in Nat /\ Len(q) \in Nat OBVIOUS
<1>3. w = v OBVIOUS
<1>. HIDE DEF o
<1>4. /\ u \in Seq(S) /\ Len(u) = Len(p) + Len(o)
      /\ \A m \in 1..Len(p) : u[m] = p[m]
      /\ \A m \in 1..Len(o) : u[Len(p) + m] = o[m]
  <2>1. Joins(u, p, o) /\ o \in Seq(S) BY <1>1 DEF Joins
  <2>. HIDE DEF u
  <2>. QED BY <2>1, ConcatAt
<1>. HIDE DEF u
<1>5. Len(u) = Len(p) + 1 /\ u[Len(p) + 1] = x BY <1>1, <1>2, <1>4
<1>6. /\ w \in Seq(S) /\ Len(w) = Len(u) + Len(q)
      /\ \A m \in 1..Len(u) : w[m] = u[m]
      /\ \A m \in 1..Len(q) : w[Len(u) + m] = q[m]
  <2>1. Joins(w, u, q) /\ u \in Seq(S) BY <1>4 DEF Joins
  <2>. HIDE DEF w
  <2>. QED BY <2>1, ConcatAt
<1>. HIDE DEF w
<1>7. \A m \in 1..Len(p) : m \in 1..Len(u) BY <1>2, <1>5
<1>8. Len(p) + 1 \in 1..Len(u) BY <1>2, <1>5
<1>. QED BY <1>2, <1>3, <1>4, <1>5, <1>6, <1>7, <1>8

\* A sequence cut into pieces of one element
LEMMA FlattenSingles ==
    ASSUME NEW S, NEW x \in Seq(S)
    PROVE  FlattenSeq([n \in 1..Len(x) |-> <<x[n]>>]) = x
<1>. DEFINE C(u) == [n \in 1..Len(u) |-> <<u[n]>>]
            T == {u \in Seq(S) : FlattenSeq(C(u)) = u}
<1>1. <<>> \in T
  <2>1. C(<<>>) = <<>> /\ <<>> \in Seq(S) OBVIOUS
  <2>. QED BY <2>1, FlattenEmpty
<1>2. ASSUME NEW u \in Seq(S), NEW e \in S, u \in T PROVE Append(u, e) \in T
  <2>1. /\ C(u) \in Seq(Seq(S)) /\ <<e>> \in Seq(S) /\ Append(u, e) \in Seq(S)
        /\ Len(C(u)) = Len(u)
        OBVIOUS
  <2>2. C(Append(u, e)) = Append(C(u), <<e>>)
    <3>. DEFINE y == Append(u, e)   z == Append(C(u), <<e>>)
    <3>1. /\ y \in Seq(S) /\ Len(y) = Len(u) + 1 /\ y[Len(u) + 1] = e
          /\ \A i \in 1..Len(u) : y[i] = u[i] BY AppendProperties
    <3>2. /\ z \in Seq(Seq(S)) /\ Len(z) = Len(u) + 1 /\ z[Len(u) + 1] = <<e>>
          /\ \A i \in 1..Len(u) : z[i] = <<u[i]>>
          BY <2>1, AppendProperties
    <3>. HIDE DEF y, z
    <3>3. /\ C(y) \in Seq(Seq(S)) /\ Len(C(y)) = Len(u) + 1
          /\ \A i \in 1..(Len(u) + 1) : C(y)[i] = <<y[i]>> BY <3>1
    <3>. HIDE DEF C
    <3>4. ASSUME NEW i \in 1..(Len(u) + 1) PROVE C(y)[i] = z[i]
      <4>1. CASE i = Len(u) + 1 BY <3>1, <3>2, <3>3, <4>1
      <4>2. CASE i # Len(u) + 1
        <5>1. i \in 1..Len(u) BY <4>2
        <5>. QED BY <3>1, <3>2, <3>3, <5>1
      <4>. QED BY <4>1, <4>2
    <3>5. C(y) = z BY <3>2, <3>3, <3>4, SeqEqual
    <3>. QED BY <3>5 DEF y, z
  <2>. HIDE DEF C
  <2>3. FlattenSeq(C(Append(u, e))) = FlattenSeq(C(u)) \o <<e>> BY <2>1, <2>2, FlattenAppend
  <2>4. u \o <<e>> = Append(u, e) OBVIOUS
  <2>. QED BY <1>2, <2>1, <2>3, <2>4
<1>3. Seq(S) \subseteq T BY <1>1, <1>2, SeqInduction
<1>. QED BY <1>3

\* The values of a function on a sequence are a sequence.
LEMMA MapType ==
    ASSUME NEW S, NEW R, NEW D, Maps(D, S, R), NEW z \in Seq(S)
    PROVE  /\ Map(D, z) \in Seq(R) /\ Len(Map(D, z)) = Len(z)
           /\ \A n \in 1..Len(z) : Map(D, z)[n] = D[z[n]]
<1>1. \A n \in 1..Len(z) : D[z[n]] \in R BY DEF Maps
<1>. QED BY <1>1 DEF Map

\* Values of joined sequences are joined.
LEMMA MapConcat ==
    ASSUME NEW S, NEW R, NEW D, Maps(D, S, R), NEW x \in Seq(S), NEW y \in Seq(S)
    PROVE  Map(D, x \o y) = Map(D, x) \o Map(D, y)
<1>. DEFINE u == x \o y   a == Map(D, x)   b == Map(D, y)   c == Map(D, u)   v == a \o b
            p == Len(x)   q == Len(y)
<1>1. /\ u \in Seq(S) /\ Len(u) = p + q
      /\ \A i \in 1..(p + q) : u[i] = IF i <= p THEN x[i] ELSE y[i - p]
      BY ConcatProperties
<1>2. a \in Seq(R) /\ Len(a) = p /\ \A n \in 1..p : a[n] = D[x[n]] BY MapType
<1>3. b \in Seq(R) /\ Len(b) = q /\ \A n \in 1..q : b[n] = D[y[n]] BY MapType
<1>4. p \in Nat /\ q \in Nat OBVIOUS
<1>. HIDE DEF u, a, b, p, q
<1>5. c \in Seq(R) /\ Len(c) = p + q /\ \A n \in 1..(p + q) : c[n] = D[u[n]]
  <2>1. c \in Seq(R) /\ Len(c) = Len(u) /\ \A n \in 1..Len(u) : c[n] = D[u[n]] BY <1>1, MapType
  <2>. QED BY <1>1, <2>1
<1>. HIDE DEF c
<1>6. /\ v \in Seq(R) /\ Len(v) = p + q
      /\ \A i \in 1..(p + q) : v[i] = IF i <= p THEN a[i] ELSE b[i - p]
  <2>1. a \in Seq(R) /\ b \in Seq(R) BY <1>2, <1>3
  <2>2. /\ v \in Seq(R) /\ Len(v) = Len(a) + Len(b)
        /\ \A i \in 1..(Len(a) + Len(b)) : v[i] = IF i <= Len(a) THEN a[i] ELSE b[i - Len(a)]
        BY <2>1, ConcatProperties
  <2>. HIDE DEF v
  <2>. QED BY <1>2, <1>3, <2>2
<1>. HIDE DEF v
<1>7. ASSUME NEW i \in 1..(p + q) PROVE c[i] = v[i]
  <2>1. CASE i <= p
    <3>1. i \in 1..p BY <1>4, <2>1
    <3>2. c[i] = D[u[i]] /\ u[i] = x[i] BY <1>1, <1>5, <2>1
    <3>3. v[i] = a[i] /\ a[i] = D[x[i]] BY <1>2, <1>6, <2>1, <3>1
    <3>. QED BY <3>2, <3>3
  <2>2. CASE ~(i <= p)
    <3>1. i - p \in 1..q BY <1>4, <2>2
    <3>2. c[i] = D[u[i]] /\ u[i] = y[i - p] BY <1>1, <1>5, <2>2
    <3>3. v[i] = b[i - p] /\ b[i - p] = D[y[i - p]] BY <1>3, <1>6, <2>2, <3>1
    <3>. QED BY <3>2, <3>3
  <2>. QED BY <2>1, <2>2
<1>8. c = v BY <1>5, <1>6, <1>7, SeqEqual
<1>. QED BY <1>8 DEF a, b, c, u, v

\* Flattening twice
LEMMA FlattenMap ==
    ASSUME NEW S, NEW R, NEW D, Maps(D, S, Seq(R)), NEW s \in Seq(Seq(S))
    PROVE  FlattenSeq(Map(D, FlattenSeq(s)))
             = FlattenSeq([i \in 1..Len(s) |-> FlattenSeq(Map(D, s[i]))])
<1>. DEFINE P(u) == [i \in 1..Len(u) |-> FlattenSeq(Map(D, u[i]))]
            T == {u \in Seq(Seq(S)) : FlattenSeq(Map(D, FlattenSeq(u))) = FlattenSeq(P(u))}
<1>0. ASSUME NEW x \in Seq(S) PROVE Map(D, x) \in Seq(Seq(R)) /\ FlattenSeq(Map(D, x)) \in Seq(R)
  <2>1. Map(D, x) \in Seq(Seq(R)) BY MapType
  <2>. QED BY <2>1, FlattenType
<1>1. <<>> \in T
  <2>1. Map(D, <<>>) = <<>> /\ P(<<>>) = <<>> /\ <<>> \in Seq(Seq(S)) BY DEF Map
  <2>. HIDE DEF P
  <2>. QED BY <2>1, FlattenEmpty
<1>2. ASSUME NEW u \in Seq(Seq(S)), NEW e \in Seq(S), u \in T PROVE Append(u, e) \in T
  <2>. DEFINE d == FlattenSeq(Map(D, e))
  <2>1. d \in Seq(R) BY <1>0
  <2>2. P(u) \in Seq(Seq(R)) /\ Len(P(u)) = Len(u)
    <3>1. ASSUME NEW i \in 1..Len(u) PROVE FlattenSeq(Map(D, u[i])) \in Seq(R)
      <4>1. u[i] \in Seq(S) OBVIOUS
      <4>. QED BY <4>1, <1>0
    <3>. QED BY <3>1
  <2>3. P(Append(u, e)) = Append(P(u), d)
    <3>. DEFINE y == Append(u, e)   z == Append(P(u), d)
    <3>1. /\ y \in Seq(Seq(S)) /\ Len(y) = Len(u) + 1 /\ y[Len(u) + 1] = e
          /\ \A i \in 1..Len(u) : y[i] = u[i] BY AppendProperties
    <3>2. \A i \in 1..Len(u) : P(u)[i] = FlattenSeq(Map(D, u[i])) OBVIOUS
    <3>. HIDE DEF y, d
    <3>3. P(y) = [i \in 1..Len(y) |-> FlattenSeq(Map(D, y[i]))] OBVIOUS
    <3>4. \A i \in 1..Len(y) : P(y)[i] = FlattenSeq(Map(D, y[i])) OBVIOUS
    <3>5. ASSUME NEW i \in 1..Len(y) PROVE y[i] \in Seq(S) BY <3>1
    <3>6. ASSUME NEW i \in 1..Len(y) PROVE FlattenSeq(Map(D, y[i])) \in Seq(R) BY <1>0, <3>5
    <3>7. P(y) \in Seq(Seq(R)) /\ Len(P(y)) = Len(u) + 1 BY <3>1, <3>3, <3>6
    <3>. HIDE DEF P
    <3>a. P(u) \in Seq(Seq(R)) /\ d \in Seq(R) BY <2>1, <2>2 DEF d
    <3>b. /\ z \in Seq(Seq(R)) /\ Len(z) = Len(P(u)) + 1 /\ z[Len(P(u)) + 1] = d
          /\ \A i \in 1..Len(P(u)) : z[i] = P(u)[i]
          BY <3>a, AppendProperties
    <3>8. /\ z \in Seq(Seq(R)) /\ Len(z) = Len(u) + 1 /\ z[Len(u) + 1] = d
          /\ \A i \in 1..Len(u) : z[i] = P(u)[i]
          BY <2>2, <3>b
    <3>. HIDE DEF z
    <3>9. ASSUME NEW i \in 1..(Len(u) + 1) PROVE P(y)[i] = z[i]
      <4>1. CASE i = Len(u) + 1 BY <3>1, <3>4, <3>8, <4>1 DEF d
      <4>2. CASE i # Len(u) + 1
        <5>1. i \in 1..Len(u) BY <4>2
        <5>. QED BY <3>1, <3>2, <3>4, <3>8, <5>1
      <4>. QED BY <4>1, <4>2
    <3>10. P(y) = z BY <3>7, <3>8, <3>9, SeqEqual
    <3>. QED BY <3>10 DEF y, z
  <2>. HIDE DEF P
  <2>4. FlattenSeq(P(Append(u, e))) = FlattenSeq(P(u)) \o d BY <2>1, <2>2, <2>3, FlattenAppend
  <2>. DEFINE a == FlattenSeq(u)   b == Map(D, a)   c == Map(D, e)
  <2>5. FlattenSeq(Append(u, e)) = a \o e /\ a \in Seq(S) BY FlattenAppend
  <2>6. Map(D, a \o e) = b \o c /\ b \in Seq(Seq(R)) /\ c \in Seq(Seq(R))
    <3>1. a \in Seq(S) BY <2>5
    <3>. HIDE DEF a
    <3>2. b \in Seq(Seq(R)) /\ c \in Seq(Seq(R)) BY <3>1, <1>0
    <3>3. Map(D, a \o e) = b \o c BY <3>1, MapConcat
    <3>. QED BY <3>2, <3>3
  <2>7. FlattenSeq(Map(D, FlattenSeq(Append(u, e)))) = FlattenSeq(b) \o d
        BY <2>5, <2>6, FlattenConcat, SMTT(40)
  <2>8. FlattenSeq(b) = FlattenSeq(P(u)) BY <1>2
  <2>9. Append(u, e) \in Seq(Seq(S)) OBVIOUS
  <2>. QED BY <2>4, <2>7, <2>8, <2>9
<1>3. Seq(Seq(S)) \subseteq T BY <1>1, <1>2, SeqInduction
<1>. QED BY <1>3

----------------------------------------------------------------------------
\* The rank of a member of a finite set of naturals: there is one of each rank.
LEMMA RankExists ==
    ASSUME NEW P \in SUBSET Nat, IsFiniteSet(P), NEW k \in Nat, k < Cardinality(P)
    PROVE  \E n \in P : Cardinality({m \in P : m < n}) = k
<1>. DEFINE Below(n) == {m \in P : m < n}
            T == {r \in Nat : r < Cardinality(P) => \E n \in P : Cardinality(Below(n)) = r}
<1>0. Cardinality(P) \in Nat BY FS_CardinalityType
<1>1. 0 \in T
  <2>1. SUFFICES ASSUME 0 < Cardinality(P) PROVE \E n \in P : Cardinality(Below(n)) = 0 OBVIOUS
  <2>2. P # {} BY <2>1, FS_EmptySet
  <2>3. PICK n \in P : \A m \in P : n <= m BY <2>2, LeastExists
  <2>4. Below(n) = {}
    <3>1. \A m \in P : m \in Nat /\ n \in Nat /\ ~(m < n) BY <2>3
    <3>. QED BY <3>1
  <2>. QED BY <2>4, FS_EmptySet
<1>2. ASSUME NEW r \in T PROVE r + 1 \in T
  <2>1. SUFFICES ASSUME r + 1 < Cardinality(P) PROVE \E n \in P : Cardinality(Below(n)) = r + 1
        OBVIOUS
  <2>2. PICK n \in P : Cardinality(Below(n)) = r BY <1>0, <2>1
  <2>. DEFINE B == Below(n) \cup {n}
  <2>3. IsFiniteSet(Below(n)) /\ n \notin Below(n) BY FS_Subset
  <2>4. IsFiniteSet(B) /\ Cardinality(B) = r + 1 BY <2>2, <2>3, FS_AddElement
  <2>5. P \ B # {}
    <3>1. SUFFICES ASSUME P \subseteq B PROVE FALSE OBVIOUS
    <3>2. P = B BY <3>1
    <3>. QED BY <1>0, <2>1, <2>4, <3>2
  <2>6. PICK l \in P \ B : \A m \in P \ B : l <= m
    <3>1. P \ B \in SUBSET Nat OBVIOUS
    <3>. QED BY <2>5, <3>1, LeastExists
  <2>7. Below(l) = B
    <3>1. ASSUME NEW m \in Below(l) PROVE m \in B
      <4>1. m \in P /\ m < l /\ m \in Nat /\ l \in Nat OBVIOUS
      <4>. QED BY <2>6, <4>1
    <3>2. ASSUME NEW m \in B PROVE m \in Below(l)
      <4>1. m \in P /\ m <= n /\ m \in Nat /\ n \in Nat /\ l \in Nat OBVIOUS
      <4>2. ~(l < n) /\ l # n BY <2>6
      <4>. QED BY <4>1, <4>2
    <3>. QED BY <3>1, <3>2
  <2>. QED BY <2>4, <2>6, <2>7
<1>3. T = Nat BY <1>1, <1>2, Induction
<1>. QED BY <1>3

----------------------------------------------------------------------------
\* The elements of a sequence

\* The elements of joined sequences are those of both.
LEMMA ElsConcat ==
    ASSUME NEW S, NEW s \in Seq(S), NEW t \in Seq(S)
    PROVE  Els(s \o t) = Els(s) \cup Els(t)
<1>1. s \o t \in Seq(S) OBVIOUS
<1>2. Range(s) = Els(s) BY RangeEquality DEF Els
<1>3. Range(t) = Els(t) BY RangeEquality DEF Els
<1>. DEFINE u == s \o t
<1>4. u \in Seq(S) BY <1>1
<1>5. Range(u) = Range(s) \cup Range(t) BY RangeConcatenation
<1>. HIDE DEF u
<1>6. Range(u) = Els(u) BY <1>4, RangeEquality DEF Els
<1>. QED BY <1>2, <1>3, <1>5, <1>6 DEF u

----------------------------------------------------------------------------
\* The programs of the calls

\* Element k of InOrder is the member that has k - 1 smaller ones.
LEMMA OrderedPlaces ==
    ASSUME NEW P \in SUBSET Nat, IsFiniteSet(P), NEW k \in 1..Cardinality(P)
    PROVE  /\ InOrder(P)[k] \in P
           /\ Cardinality({m \in P : m < InOrder(P)[k]}) = k - 1
<1>1. Cardinality(P) \in Nat BY FS_CardinalityType
<1>2. k - 1 \in Nat /\ k - 1 < Cardinality(P) BY <1>1
<1>3. \E n \in P : Cardinality({m \in P : m < n}) = k - 1 BY <1>2, RankExists
<1>. QED BY <1>3 DEF InOrder

\* The command ops of a recorded buffer are a sequence of op kinds.
LEMMA OpsType ==
    ASSUME NEW b \in Bufs
    PROVE  /\ OpPlaces(b) \in SUBSET Nat /\ IsFiniteSet(OpPlaces(b))
           /\ Cardinality(OpPlaces(b)) \in Nat
           /\ OpsOf(b) \in Seq(OpKinds)
           /\ Len(OpsOf(b)) = Cardinality(OpPlaces(b))
<1>1. OpPlaces(b) \in SUBSET (1..Len(b)) /\ Len(b) \in Nat BY DEF OpPlaces, Bufs
<1>2. IsFiniteSet(1..Len(b)) BY <1>1, FS_Interval
<1>3. IsFiniteSet(OpPlaces(b)) BY <1>1, <1>2, FS_Subset
<1>4. OpPlaces(b) \in SUBSET Nat BY <1>1
<1>5. Cardinality(OpPlaces(b)) \in Nat BY <1>3, FS_CardinalityType
<1>6. ASSUME NEW k \in 1..Cardinality(OpPlaces(b))
      PROVE  b[InOrder(OpPlaces(b))[k]] \in OpKinds
  <2>1. InOrder(OpPlaces(b))[k] \in OpPlaces(b) BY <1>3, <1>4, OrderedPlaces
  <2>. QED BY <2>1 DEF OpPlaces
<1>. QED BY <1>3, <1>4, <1>5, <1>6 DEF OpsOf

\* So are the commands of its frame.
LEMMA FrameOpsType ==
    ASSUME NEW b \in Bufs
    PROVE  /\ FrameOps(b) = [k \in 1..Cardinality(InFrame(b)) |-> OpsOf(b)[InOrder(InFrame(b))[k]]]
           /\ InFrame(b) \in SUBSET (1..Len(OpsOf(b))) /\ IsFiniteSet(InFrame(b))
           /\ FrameOps(b) \in Seq(OpKinds)
<1>1. FrameOps(b) = [k \in 1..Cardinality(InFrame(b)) |-> OpsOf(b)[InOrder(InFrame(b))[k]]]
      BY DEF FrameOps, InFrame
<1>2. OpsOf(b) \in Seq(OpKinds) /\ Len(OpsOf(b)) \in Nat BY OpsType
<1>3. InFrame(b) \in SUBSET (1..Len(OpsOf(b))) BY <1>2 DEF InFrame
<1>4. IsFiniteSet(1..Len(OpsOf(b))) BY <1>2, FS_Interval
<1>5. IsFiniteSet(InFrame(b)) /\ InFrame(b) \in SUBSET Nat BY <1>3, <1>4, FS_Subset
<1>6. Cardinality(InFrame(b)) \in Nat BY <1>5, FS_CardinalityType
<1>7. ASSUME NEW k \in 1..Cardinality(InFrame(b)) PROVE OpsOf(b)[InOrder(InFrame(b))[k]] \in OpKinds
  <2>1. InOrder(InFrame(b))[k] \in InFrame(b) BY <1>5, OrderedPlaces
  <2>. QED BY <1>2, <1>3, <2>1
<1>. QED BY <1>1, <1>3, <1>5, <1>6, <1>7

\* What a well-formed call is made of
LEMMA CallFacts ==
    ASSUME NEW c \in Calls
    PROVE  /\ c.fence \in Fences \cup {None}
           /\ Len(c.submits) \in Nat \ {0} /\ DOMAIN c.submits = 1..Len(c.submits)
           /\ \A i \in 1..Len(c.submits) :
                 /\ c.submits[i].waits \in Pairs /\ c.submits[i].signals \in Pairs
                 /\ c.submits[i].bufs \in Seq(Bufs)
                 /\ Len(c.submits[i].bufs) \in Nat
                 /\ DOMAIN c.submits[i].bufs = 1..Len(c.submits[i].bufs)
                 /\ \A j \in 1..Len(c.submits[i].bufs) : c.submits[i].bufs[j] \in Bufs
<1>. DEFINE I == [waits : Pairs, signals : Pairs, bufs : Seq(Bufs)]
<1>a. c.submits \in Seq([waits : Pairs, signals : Pairs, bufs : Seq(Seq(OpKinds \cup RecordKinds))])
      BY CallAssumption, Zenon
<1>b. c.fence \in Fences \cup {None} /\ c.submits # <<>> BY CallAssumption, Zenon
<1>1. c.fence \in Fences \cup {None} /\ c.submits # <<>> /\ c.submits \in Seq(I)
      BY <1>a, <1>b, Zenon DEF Bufs
<1>c. \A q \in Seq(I) : /\ Len(q) \in Nat /\ DOMAIN q = 1..Len(q)
                         /\ q # <<>> => Len(q) \in Nat \ {0}
                         /\ \A i \in 1..Len(q) : q[i] \in I
  <2>. HIDE DEF I
  <2>. QED OBVIOUS
<1>2. Len(c.submits) \in Nat \ {0} /\ DOMAIN c.submits = 1..Len(c.submits)
      /\ \A i \in 1..Len(c.submits) : c.submits[i] \in I
  <2>. HIDE DEF I
  <2>. QED BY <1>1, <1>c
<1>3. ASSUME NEW i \in 1..Len(c.submits)
      PROVE  /\ c.submits[i].waits \in Pairs /\ c.submits[i].signals \in Pairs
             /\ c.submits[i].bufs \in Seq(Bufs)
  BY <1>2
<1>4. \A q \in Seq(Bufs) : Len(q) \in Nat /\ DOMAIN q = 1..Len(q) /\ \A j \in 1..Len(q) : q[j] \in Bufs
      OBVIOUS
<1>. QED BY <1>1, <1>2, <1>3, <1>4

----------------------------------------------------------------------------
\* What travels with a frame

\* The entries made of pairs of a semaphore and a value
LEMMA EntriesOfFacts ==
    ASSUME NEW pairs \in Pairs, NEW ty \in {"wait", "signal"}
    PROVE  /\ EntriesOf(ty, pairs) \in Seq(EntryType)
           /\ Els(EntriesOf(ty, pairs)) = {Entry(ty, pairs[m][1], pairs[m][2]) : m \in DOMAIN pairs}
           /\ \A m \in DOMAIN pairs : pairs[m][1] \in Sems /\ pairs[m][2] \in Nat
<1>1. Len(pairs) \in Nat /\ DOMAIN pairs = 1..Len(pairs) BY DEF Pairs
<1>2. ASSUME NEW m \in DOMAIN pairs PROVE pairs[m][1] \in Sems /\ pairs[m][2] \in Nat
  <2>1. pairs[m] \in Sems \X (0..MaxValue) BY <1>2 DEF Pairs
  <2>. QED BY <2>1, BoundAssumption
<1>3. ASSUME NEW m \in DOMAIN pairs PROVE Entry(ty, pairs[m][1], pairs[m][2]) \in EntryType
  BY <1>2 DEF Entry, EntryType, Objects, Sems
<1>4. EntriesOf(ty, pairs) \in Seq(EntryType) BY <1>1, <1>3 DEF EntriesOf
<1>5. Len(EntriesOf(ty, pairs)) = Len(pairs) BY <1>1 DEF EntriesOf
<1>6. Els(EntriesOf(ty, pairs)) = {Entry(ty, pairs[m][1], pairs[m][2]) : m \in DOMAIN pairs}
      BY <1>1, <1>5 DEF EntriesOf, Els
<1>. QED BY <1>2, <1>4, <1>6

\* The entries of a frame: waits with the first one, signals and the fence
\* with the last one.
LEMMA FrameEntriesFacts ==
    ASSUME NEW c \in Calls, NEW i \in 1..Len(c.submits), NEW j
    PROVE  /\ FrameEntries(c, i, j) \in Seq(EntryType)
           /\ Els(FrameEntries(c, i, j)) = Firsts(c, i, j) \cup Lasts(c, i, j) \cup FenceOf(c, i, j)
<1>. DEFINE s == c.submits[i]
            w == EntriesOf("wait", s.waits)
            g == EntriesOf("signal", s.signals)
            f == IF WithFence(c, i) THEN <<Entry("fence", c.fence, 0)>> ELSE <<>>
<1>1. s.waits \in Pairs /\ s.signals \in Pairs BY CallFacts
<1>2. /\ w \in Seq(EntryType)
      /\ Els(w) = {Entry("wait", s.waits[m][1], s.waits[m][2]) : m \in DOMAIN s.waits}
  BY <1>1, EntriesOfFacts
<1>3. /\ g \in Seq(EntryType)
      /\ Els(g) = {Entry("signal", s.signals[m][1], s.signals[m][2]) : m \in DOMAIN s.signals}
  BY <1>1, EntriesOfFacts
<1>4. f \in Seq(EntryType) /\ Els(f) = IF WithFence(c, i) THEN {Entry("fence", c.fence, 0)} ELSE {}
  <2>1. CASE WithFence(c, i)
    <3>1. c.fence \in Objects BY <2>1, CallFacts DEF WithFence, Objects
    <3>2. Entry("fence", c.fence, 0) \in EntryType BY <3>1 DEF Entry, EntryType
    <3>. QED BY <2>1, <3>2 DEF Els
  <2>2. CASE ~WithFence(c, i) BY <2>2 DEF Els
  <2>. QED BY <2>1, <2>2
<1>5. SyncEntries(c, i).waits = w /\ SyncEntries(c, i).completions = g \o f BY DEF SyncEntries
<1>6. <<>> \in Seq(EntryType) /\ Els(<<>>) = {} BY DEF Els
<1>. DEFINE a == IF IsFirstFrame(s, j) THEN w ELSE <<>>
            b == IF IsLastFrame(s, j) THEN g \o f ELSE <<>>
<1>7. FrameEntries(c, i, j) = a \o b BY <1>5 DEF FrameEntries
<1>. HIDE DEF w, g, f
<1>8. g \o f \in Seq(EntryType) /\ Els(g \o f) = Els(g) \cup Els(f) BY <1>3, <1>4, ElsConcat
<1>9. a \in Seq(EntryType) /\ b \in Seq(EntryType) BY <1>2, <1>6, <1>8
<1>10. Els(a) = Firsts(c, i, j) BY <1>2, <1>6 DEF Firsts
<1>11. Els(b) = Lasts(c, i, j) \cup FenceOf(c, i, j) BY <1>3, <1>4, <1>6, <1>8 DEF Lasts, FenceOf
<1>. HIDE DEF a, b
<1>12. a \o b \in Seq(EntryType) /\ Els(a \o b) = Els(a) \cup Els(b) BY <1>9, ElsConcat
<1>. QED BY <1>7, <1>10, <1>11, <1>12

----------------------------------------------------------------------------
\* The graphics records of a command buffer

\* The graphics records of a buffer stand from FirstGpu to LastGpu, at most one
\* place after its last command op.
LEMMA RecordBounds ==
    ASSUME NEW b \in Bufs, Graphics(b)
    PROVE  /\ RecordSeqs(b) \in SUBSET (1..(Len(OpsOf(b)) + 1))
           /\ Len(OpsOf(b)) \in Nat
           /\ FirstGpu(b) \in RecordSeqs(b) /\ \A u \in RecordSeqs(b) : FirstGpu(b) <= u
           /\ LastGpu(b) \in RecordSeqs(b) /\ \A u \in RecordSeqs(b) : LastGpu(b) >= u
<1>. DEFINE P == OpPlaces(b)   L == Len(OpsOf(b))
<1>1. P \in SUBSET Nat /\ IsFiniteSet(P) /\ L = Cardinality(P) /\ L \in Nat BY OpsType
<1>2. ASSUME NEW n \in DOMAIN b PROVE OpIndex(b, n) \in 1..(L + 1)
  <2>. DEFINE B == {m \in P : m < n}
  <2>1. B \subseteq P OBVIOUS
  <2>. HIDE DEF B, P
  <2>2. IsFiniteSet(B) /\ Cardinality(B) <= Cardinality(P) BY <1>1, <2>1, FS_Subset
  <2>3. Cardinality(B) \in Nat BY <2>2, FS_CardinalityType
  <2>4. 1 + Cardinality(B) \in 1..(L + 1) BY <1>1, <2>2, <2>3
  <2>. QED BY <2>4 DEF OpIndex, B, P
<1>. HIDE DEF L, P
<1>3. RecordSeqs(b) \in SUBSET (1..(L + 1)) BY <1>2 DEF RecordSeqs
<1>4. RecordSeqs(b) # {} BY DEF Graphics, RecordSeqs
<1>5. RecordSeqs(b) \in SUBSET Nat /\ \A u \in RecordSeqs(b) : u <= L + 1 BY <1>1, <1>3
<1>6. \E s \in RecordSeqs(b) : \A u \in RecordSeqs(b) : s <= u BY <1>4, <1>5, LeastExists
<1>7. \E s \in RecordSeqs(b) : \A u \in RecordSeqs(b) : s >= u
  <2>1. L + 1 \in Nat BY <1>1
  <2>2. \E s \in RecordSeqs(b) : \A u \in RecordSeqs(b) : u <= s BY <1>4, <1>5, <2>1, GreatestExists
  <2>3. \A s, u \in RecordSeqs(b) : u <= s => s >= u BY <1>5
  <2>. QED BY <2>2, <2>3
<1>8. FirstGpu(b) \in RecordSeqs(b) /\ \A u \in RecordSeqs(b) : FirstGpu(b) <= u
      BY <1>6 DEF FirstGpu
<1>9. LastGpu(b) \in RecordSeqs(b) /\ \A u \in RecordSeqs(b) : LastGpu(b) >= u
      BY <1>7 DEF LastGpu
<1>. QED BY <1>1, <1>3, <1>8, <1>9 DEF L

\* A command with a record of its own stands between the first and the last
\* record.
LEMMA RecordedInFrame ==
    ASSUME NEW b \in Bufs, NEW k \in 1..Len(OpsOf(b)), OpsOf(b)[k] \in RecordKinds
    PROVE  Graphics(b) /\ FirstGpu(b) <= k /\ k <= LastGpu(b)
<1>. DEFINE P == OpPlaces(b)   n == InOrder(P)[k]
<1>1. P \in SUBSET Nat /\ IsFiniteSet(P) /\ Cardinality(P) \in Nat /\ k \in 1..Cardinality(P)
      BY OpsType
<1>2. n \in P /\ Cardinality({m \in P : m < n}) = k - 1
  <2>. HIDE DEF P
  <2>. QED BY <1>1, OrderedPlaces
<1>3. OpsOf(b)[k] = b[n] BY <1>1 DEF OpsOf
<1>4. n \in DOMAIN b /\ b[n] \in RecordKinds BY <1>2, <1>3 DEF OpPlaces
<1>5. OpIndex(b, n) = 1 + (k - 1) BY <1>2 DEF OpIndex
<1>6. k \in Nat /\ 1 + (k - 1) = k BY <1>1
<1>7. k \in RecordSeqs(b) BY <1>4, <1>5, <1>6 DEF RecordSeqs
<1>8. Graphics(b) BY <1>4 DEF Graphics
<1>9. RecordSeqs(b) \in SUBSET Nat BY <1>8, RecordBounds
<1>10. LastGpu(b) >= k /\ FirstGpu(b) <= k /\ LastGpu(b) \in Nat BY <1>7, <1>8, <1>9, RecordBounds
<1>. QED BY <1>6, <1>8, <1>10

----------------------------------------------------------------------------
\* The steps of a buffer

\* The steps made of commands, one for each
LEMMA OpStepsFacts ==
    ASSUME NEW c, NEW ops \in Seq(OpKinds), NEW i \in Nat
    PROVE  /\ OpSteps(ops, i) \in Seq(AnyStep(c))
           /\ Len(OpSteps(ops, i)) = Len(ops)
           /\ \A n \in 1..Len(ops) :
                 OpSteps(ops, i)[n] = Step(IF ops[n] = "dispatch" THEN "dispatch" ELSE "host", i, ops[n])
<1>1. DOMAIN ops = 1..Len(ops) /\ Len(ops) \in Nat OBVIOUS
<1>2. ASSUME NEW n \in 1..Len(ops)
      PROVE  Step(IF ops[n] = "dispatch" THEN "dispatch" ELSE "host", i, ops[n]) \in AnyStep(c)
  <2>1. ops[n] \in OpKinds OBVIOUS
  <2>2. (IF ops[n] = "dispatch" THEN "dispatch" ELSE "host") \in StepOps BY DEF StepOps
  <2>. QED BY <2>1, <2>2 DEF Step, AnyStep
<1>. QED BY <1>1, <1>2 DEF OpSteps

\* A part of a sequence of commands is a sequence of commands.
LEMMA SubSeqFacts ==
    ASSUME NEW S, NEW s \in Seq(S), NEW m \in Nat, NEW n \in Nat, m >= 1, m <= n + 1, n <= Len(s)
    PROVE  /\ SubSeq(s, m, n) \in Seq(S) /\ Len(SubSeq(s, m, n)) = (n + 1) - m
           /\ \A k \in 1..((n + 1) - m) : SubSeq(s, m, n)[k] = s[m + k - 1]
<1>1. \A k \in m..n : s[k] \in S OBVIOUS
<1>. QED BY <1>1, SubSeqProperties

\* The commands before and after the frame of a buffer
LEMMA BeforeAfter ==
    ASSUME NEW b \in Bufs, Graphics(b)
    PROVE  /\ FirstGpu(b) \in Nat /\ LastGpu(b) \in Nat /\ Len(OpsOf(b)) \in Nat
           /\ 1 <= FirstGpu(b) /\ FirstGpu(b) <= LastGpu(b) /\ LastGpu(b) <= Len(OpsOf(b)) + 1
           /\ Before(b) \in Seq(OpKinds) /\ Len(Before(b)) = FirstGpu(b) - 1
           /\ \A k \in 1..Len(Before(b)) : Before(b)[k] = OpsOf(b)[k]
           /\ After(b) \in Seq(OpKinds)
           /\ LastGpu(b) = Len(OpsOf(b)) + 1 => After(b) = <<>>
           /\ LastGpu(b) <= Len(OpsOf(b)) => Len(After(b)) = Len(OpsOf(b)) - LastGpu(b)
           /\ \A k \in 1..Len(After(b)) : /\ LastGpu(b) + k \in 1..Len(OpsOf(b))
                                          /\ After(b)[k] = OpsOf(b)[LastGpu(b) + k]
<1>. DEFINE x == OpsOf(b)   f == FirstGpu(b)   l == LastGpu(b)   L == Len(x)
<1>1. x \in Seq(OpKinds) /\ L \in Nat BY OpsType
<1>2. f \in 1..(L + 1) /\ l \in 1..(L + 1) /\ f <= l
  <2>1. /\ RecordSeqs(b) \in SUBSET (1..(L + 1)) /\ f \in RecordSeqs(b) /\ l \in RecordSeqs(b)
        /\ \A u \in RecordSeqs(b) : f <= u
    BY RecordBounds
  <2>. QED BY <2>1
<1>. HIDE DEF x, f, l
<1>3. f \in Nat /\ l \in Nat /\ 1 <= f /\ l <= L + 1 BY <1>1, <1>2
<1>. DEFINE y == SubSeq(x, 1, f - 1)   z == SubSeq(x, l + 1, L)
<1>4. y \in Seq(OpKinds) /\ Len(y) = f - 1 /\ \A k \in 1..(f - 1) : y[k] = x[k]
  <2>1. f - 1 \in Nat /\ 1 <= (f - 1) + 1 /\ f - 1 <= L /\ ((f - 1) + 1) - 1 = f - 1 BY <1>1, <1>2
  <2>2. \A k \in 1..(f - 1) : 1 + k - 1 = k BY <2>1
  <2>. HIDE DEF L
  <2>3. /\ y \in Seq(OpKinds) /\ Len(y) = ((f - 1) + 1) - 1
        /\ \A k \in 1..(((f - 1) + 1) - 1) : y[k] = x[1 + k - 1]
        BY <1>1, <2>1, SubSeqFacts DEF L
  <2>. HIDE DEF y
  <2>. QED BY <2>1, <2>2, <2>3
<1>5. CASE l = L + 1
  <2>1. z = <<>> BY <1>1, <1>5, SubSeqEmpty
  <2>. QED BY <1>1, <1>2, <1>3, <1>4, <1>5, <2>1 DEF x, f, l, Before, After
<1>6. CASE l # L + 1
  <2>1. l + 1 \in Nat /\ 1 <= l + 1 /\ l + 1 <= L + 1 /\ (L + 1) - (l + 1) = L - l /\ l <= L
        BY <1>1, <1>2, <1>6
  <2>2. \A k \in 1..(L - l) : (l + 1) + k - 1 = l + k /\ l + k \in 1..L BY <1>1, <1>3, <2>1
  <2>3. /\ z \in Seq(OpKinds) /\ Len(z) = (L + 1) - (l + 1)
        /\ \A k \in 1..((L + 1) - (l + 1)) : z[k] = x[(l + 1) + k - 1]
        BY <1>1, <2>1, SubSeqFacts
  <2>. HIDE DEF z
  <2>4. z \in Seq(OpKinds) /\ Len(z) = L - l /\ \A k \in 1..(L - l) : l + k \in 1..L /\ z[k] = x[l + k]
        BY <2>1, <2>2, <2>3
  <2>. QED BY <1>1, <1>2, <1>3, <1>4, <1>6, <2>1, <2>4 DEF x, f, l, z, Before, After
<1>. QED BY <1>5, <1>6

\* The three forms of a buffer's steps
LEMMA BufferForms ==
    ASSUME NEW c \in Calls, NEW i \in 1..Len(c.submits), NEW j \in 1..Len(c.submits[i].bufs)
    PROVE  LET b == c.submits[i].bufs[j]
           IN  /\ b \in Bufs /\ i \in Nat /\ j \in Nat
               /\ BufferSteps(c, i, j) \in Seq(AnyStep(c))
               /\ ~Graphics(b) => BufferSteps(c, i, j) = OpSteps(OpsOf(b), i)
               /\ Graphics(b) /\ Refused(c, i, j) => BufferSteps(c, i, j) = <<Step("refuse", i, None)>>
               /\ Graphics(b) /\ ~Refused(c, i, j) =>
                     /\ BufferSteps(c, i, j) = (OpSteps(Before(b), i) \o <<FrameStep(c, i, j)>>)
                                               \o OpSteps(After(b), i)
                     /\ FrameStep(c, i, j) \in AnyStep(c)
                     /\ OpSteps(Before(b), i) \in Seq(AnyStep(c))
                     /\ OpSteps(After(b), i) \in Seq(AnyStep(c))
<1>. DEFINE b == c.submits[i].bufs[j]
<1>1. b \in Bufs /\ i \in Nat /\ j \in Nat BY CallFacts
<1>2. CASE ~Graphics(b)
  <2>1. BufferSteps(c, i, j) = OpSteps(OpsOf(b), i) BY <1>2 DEF BufferSteps
  <2>2. OpSteps(OpsOf(b), i) \in Seq(AnyStep(c)) BY <1>1, OpsType, OpStepsFacts
  <2>. QED BY <1>1, <1>2, <2>1, <2>2
<1>3. CASE Graphics(b) /\ Refused(c, i, j)
  <2>1. BufferSteps(c, i, j) = <<Step("refuse", i, None)>> BY <1>3 DEF BufferSteps
  <2>2. Step("refuse", i, None) \in AnyStep(c) BY <1>1, SMTT(40) DEF Step, AnyStep, StepOps
  <2>. QED BY <1>1, <1>3, <2>1, <2>2
<1>4. CASE Graphics(b) /\ ~Refused(c, i, j)
  <2>. DEFINE p == OpSteps(Before(b), i)   f == <<FrameStep(c, i, j)>>   q == OpSteps(After(b), i)
  <2>1. BufferSteps(c, i, j) = (p \o f) \o q BY <1>4, Zenon DEF BufferSteps, Before, After, FrameStep
  <2>2. p \in Seq(AnyStep(c)) /\ q \in Seq(AnyStep(c)) BY <1>1, <1>4, BeforeAfter, OpStepsFacts
  <2>3. FrameStep(c, i, j) \in AnyStep(c) /\ f \in Seq(AnyStep(c))
    <3>1. <<i, j>> \in Nat \X Nat BY <1>1
    <3>2. [ops |-> FrameOps(b), entries |-> FrameEntries(c, i, j)] \in Frames(c) BY <3>1 DEF Frames
    <3>3. FrameStep(c, i, j) \in AnyStep(c) BY <1>1, <3>2 DEF FrameStep, Step, AnyStep, StepOps
    <3>. QED BY <3>3
  <2>. HIDE DEF p, f, q
  <2>4. (p \o f) \o q \in Seq(AnyStep(c)) BY <2>2, <2>3
  <2>. QED BY <1>1, <1>4, <2>1, <2>2, <2>3, <2>4, SMTT(40) DEF p, f, q
<1>. QED BY <1>2, <1>3, <1>4

\* What a frame can hold is recorded as graphics.
LEMMA KindFacts == FrameKinds \subseteq RecordKinds
BY DEF FrameKinds, RecordKinds

\* Nothing follows a frame with a completion in its buffer.
LEMMA NothingAfter ==
    ASSUME NEW c \in Calls, NEW i \in 1..Len(c.submits), NEW j \in 1..Len(c.submits[i].bufs),
           Graphics(c.submits[i].bufs[j]), ~Refused(c, i, j),
           HasCompletion(FrameEntries(c, i, j))
    PROVE  /\ After(c.submits[i].bufs[j]) = <<>>
           /\ \A m \in (j + 1)..Len(c.submits[i].bufs) : ~HasWork(c.submits[i].bufs[m])
<1>. DEFINE b == c.submits[i].bufs[j]
<1>1. b \in Bufs BY CallFacts
<1>2. MixedPlan(b) /\ HostAfter(b) = {}
      /\ \A m \in (j + 1)..Len(c.submits[i].bufs) : ~HasWork(c.submits[i].bufs[m])
      BY DEF Refused
<1>. DEFINE A == After(b)
<1>3. A \in Seq(OpKinds) BY <1>1, BeforeAfter
<1>4. SUFFICES ASSUME A # <<>> PROVE FALSE BY <1>2
<1>5. 1 \in 1..Len(A) BY <1>3, <1>4
<1>. DEFINE k == LastGpu(b) + 1
<1>6. k \in 1..Len(OpsOf(b)) /\ k > LastGpu(b) /\ LastGpu(b) \in Nat BY <1>1, <1>5, BeforeAfter, SMTT(40)
<1>7. k \in DOMAIN OpsOf(b) BY <1>1, <1>6, OpsType
<1>8. CASE OpsOf(b)[k] \in FrameKinds
  <2>1. k <= LastGpu(b) BY <1>1, <1>6, <1>8, KindFacts, RecordedInFrame
  <2>. QED BY <1>6, <2>1
<1>9. CASE OpsOf(b)[k] \in HostKinds
  <2>1. k \in HostAfter(b) BY <1>6, <1>7, <1>9 DEF HostAfter
  <2>. QED BY <1>2, <2>1
<1>. QED BY <1>2, <1>7, <1>8, <1>9 DEF MixedPlan

\* A buffer without work has neither commands nor graphics records.
LEMMA WorkNeeded ==
    ASSUME NEW b \in Bufs, ~HasWork(b)
    PROVE  ~Graphics(b) /\ OpsOf(b) = <<>>
<1>1. b = <<>> BY DEF HasWork
<1>2. OpPlaces(b) = {} BY <1>1 DEF OpPlaces
<1>3. Cardinality(OpPlaces(b)) = 0 BY <1>2, FS_EmptySet
<1>4. OpsOf(b) = <<>> BY <1>3 DEF OpsOf
<1>. QED BY <1>1, <1>4 DEF Graphics

\* A step of a buffer is a host operation, a dispatch, a refusal or its frame,
\* and nothing follows a frame that carries a completion.
LEMMA BufferElement ==
    ASSUME NEW c \in Calls, NEW i \in 1..Len(c.submits), NEW j \in 1..Len(c.submits[i].bufs),
           NEW n \in 1..Len(BufferSteps(c, i, j))
    PROVE  /\ StepKind(c, i, j, BufferSteps(c, i, j)[n])
           /\ HasWork(c.submits[i].bufs[j])
           /\ BufferSteps(c, i, j)[n].op = "frame" /\ HasCompletion(FrameEntries(c, i, j))
                 => n = Len(BufferSteps(c, i, j))
<1>. DEFINE b == c.submits[i].bufs[j]   B == BufferSteps(c, i, j)
<1>1. b \in Bufs /\ i \in Nat BY BufferForms
<1>a. ASSUME NEW ops \in Seq(OpKinds), NEW m \in 1..Len(OpSteps(ops, i))
      PROVE  StepKind(c, i, j, OpSteps(ops, i)[m]) /\ OpSteps(ops, i)[m].op # "frame"
  <2>a. Len(OpSteps(ops, i)) = Len(ops) BY <1>1, OpStepsFacts
  <2>1. m \in 1..Len(ops) /\ ops[m] \in OpKinds BY <2>a
  <2>2. OpSteps(ops, i)[m] = Step(IF ops[m] = "dispatch" THEN "dispatch" ELSE "host", i, ops[m])
        BY <1>1, <2>1, OpStepsFacts
  <2>. QED BY <2>1, <2>2 DEF StepKind, Step
<1>2. CASE ~Graphics(b)
  <2>1. B = OpSteps(OpsOf(b), i) /\ OpsOf(b) \in Seq(OpKinds) BY <1>1, <1>2, BufferForms, OpsType
  <2>2. StepKind(c, i, j, B[n]) /\ B[n].op # "frame" BY <1>a, <2>1
  <2>3. HasWork(b)
    <3>1. SUFFICES ASSUME ~HasWork(b) PROVE FALSE OBVIOUS
    <3>2. OpsOf(b) = <<>> BY <1>1, <3>1, WorkNeeded
    <3>3. Len(B) = 0 BY <1>1, <2>1, <3>2, OpStepsFacts
    <3>. QED BY <3>3
  <2>. QED BY <2>2, <2>3
<1>3. CASE Graphics(b) /\ Refused(c, i, j)
  <2>1. B = <<Step("refuse", i, None)>> BY <1>3, BufferForms
  <2>2. B[n].op = "refuse" /\ B[n].sub = i BY <2>1 DEF Step
  <2>3. HasWork(b) BY <1>1, <1>3, WorkNeeded
  <2>. QED BY <2>2, <2>3 DEF StepKind
<1>4. CASE Graphics(b) /\ ~Refused(c, i, j)
  <2>. DEFINE p == OpSteps(Before(b), i)   f == <<FrameStep(c, i, j)>>   q == OpSteps(After(b), i)
              S == AnyStep(c)
  <2>1. B = (p \o f) \o q /\ p \in Seq(S) /\ FrameStep(c, i, j) \in S /\ q \in Seq(S)
        BY <1>4, BufferForms
  <2>2. Before(b) \in Seq(OpKinds) /\ After(b) \in Seq(OpKinds) BY <1>1, <1>4, BeforeAfter
  <2>. HIDE DEF p, f, q, S
  <2>4. /\ Len(B) = Len(p) + 1 + Len(q) /\ Len(p) \in Nat /\ Len(q) \in Nat
        /\ \A m \in 1..Len(p) : B[m] = p[m]
        /\ B[Len(p) + 1] = FrameStep(c, i, j)
        /\ \A m \in 1..Len(q) : B[Len(p) + 1 + m] = q[m]
    <3>. QED BY <2>1, AroundOne DEF f
  <2>5. CASE n \in 1..Len(p)
    <3>1. B[n] = p[n] BY <2>4, <2>5
    <3>2. StepKind(c, i, j, p[n]) /\ p[n].op # "frame" BY <1>a, <2>2, <2>5 DEF p
    <3>. QED BY <1>1, <1>4, <3>1, <3>2, WorkNeeded
  <2>6. CASE n = Len(p) + 1
    <3>1. B[n] = FrameStep(c, i, j) BY <2>4, <2>6
    <3>2. StepKind(c, i, j, B[n]) BY <1>4, <3>1 DEF StepKind, FrameStep, Step
    <3>3. ASSUME HasCompletion(FrameEntries(c, i, j)) PROVE n = Len(B)
      <4>1. After(b) = <<>> BY <1>4, <3>3, NothingAfter
      <4>2. Len(q) = 0 BY <1>1, <2>2, <4>1, OpStepsFacts DEF q
      <4>. QED BY <2>4, <2>6, <4>2
    <3>. QED BY <1>1, <1>4, <3>2, <3>3, WorkNeeded
  <2>7. CASE n > Len(p) + 1
    <3>. DEFINE m == n - (Len(p) + 1)
    <3>1. m \in 1..Len(q) /\ Len(p) + 1 + m = n BY <2>4, <2>7
    <3>2. B[n] = q[m] BY <2>4, <3>1
    <3>3. StepKind(c, i, j, q[m]) /\ q[m].op # "frame" BY <1>a, <2>2, <3>1 DEF q
    <3>. QED BY <1>1, <1>4, <3>2, <3>3, WorkNeeded
  <2>. QED BY <2>4, <2>5, <2>6, <2>7
<1>. QED BY <1>2, <1>3, <1>4

\* A buffer with graphics records has a frame or is refused.
LEMMA FrameInBuffer ==
    ASSUME NEW c \in Calls, NEW i \in 1..Len(c.submits), NEW j \in 1..Len(c.submits[i].bufs),
           Graphics(c.submits[i].bufs[j])
    PROVE  \E n \in 1..Len(BufferSteps(c, i, j)) :
              \/ BufferSteps(c, i, j)[n].op = "refuse"
              \/ BufferSteps(c, i, j)[n] = FrameStep(c, i, j)
<1>. DEFINE b == c.submits[i].bufs[j]   B == BufferSteps(c, i, j)
<1>1. CASE Refused(c, i, j)
  <2>1. B = <<Step("refuse", i, None)>> BY <1>1, BufferForms
  <2>2. Len(B) = 1 /\ B[1].op = "refuse" BY <2>1 DEF Step
  <2>. QED BY <2>2
<1>2. CASE ~Refused(c, i, j)
  <2>. DEFINE p == OpSteps(Before(b), i)   f == <<FrameStep(c, i, j)>>   q == OpSteps(After(b), i)
              S == AnyStep(c)
  <2>1. B = (p \o f) \o q /\ p \in Seq(S) /\ FrameStep(c, i, j) \in S /\ q \in Seq(S)
        BY <1>2, BufferForms
  <2>. HIDE DEF p, f, q, S
  <2>3. Len(p) + 1 \in 1..Len(B) /\ B[Len(p) + 1] = FrameStep(c, i, j)
    <3>2. /\ Len(B) = Len(p) + 1 + Len(q) /\ Len(p) \in Nat /\ Len(q) \in Nat
          /\ B[Len(p) + 1] = FrameStep(c, i, j)
      BY <2>1, AroundOne DEF f
    <3>. QED BY <3>2
  <2>. QED BY <2>3
<1>. QED BY <1>1, <1>2

----------------------------------------------------------------------------
\* The steps of a VkSubmitInfo and of a call

\* The steps of a VkSubmitInfo are those of its buffers between the validation
\* and the completion.
LEMMA SubmitForm ==
    ASSUME NEW c \in Calls, NEW i \in 1..Len(c.submits)
    PROVE  /\ Pieces(c, i) \in Seq(Seq(AnyStep(c)))
           /\ Len(Pieces(c, i)) = Len(c.submits[i].bufs)
           /\ \A j \in 1..Len(c.submits[i].bufs) : Pieces(c, i)[j] = BufferSteps(c, i, j)
           /\ Body(c, i) \in Seq(AnyStep(c)) /\ Len(Body(c, i)) \in Nat
           /\ SubmitSteps(c, i) \in Seq(AnyStep(c))
           /\ Len(SubmitSteps(c, i)) = Len(Body(c, i)) + 2
           /\ SubmitSteps(c, i)[1] = Step("validate", i, None)
           /\ SubmitSteps(c, i)[Len(Body(c, i)) + 2] = Step("complete", i, None)
           /\ \A k \in 1..Len(Body(c, i)) : SubmitSteps(c, i)[1 + k] = Body(c, i)[k]
<1>. DEFINE S == AnyStep(c)   L == Len(c.submits[i].bufs)
<1>1. L \in Nat /\ i \in Nat /\ DOMAIN c.submits[i].bufs = 1..L BY CallFacts
<1>2. \A j \in 1..L : BufferSteps(c, i, j) \in Seq(S) BY BufferForms
<1>3. Pieces(c, i) \in Seq(Seq(S)) /\ Len(Pieces(c, i)) = L
      /\ \A j \in 1..L : Pieces(c, i)[j] = BufferSteps(c, i, j)
  <2>. HIDE DEF S, L
  <2>. QED BY <1>1, <1>2 DEF Pieces, L
<1>4. Body(c, i) \in Seq(S) /\ Len(Body(c, i)) \in Nat BY <1>3, FlattenType DEF Body
<1>. DEFINE v == Step("validate", i, None)   e == Step("complete", i, None)   b == Body(c, i)
            z == SubmitSteps(c, i)   p == <<v>>   q == <<e>>
<1>5. v \in S /\ e \in S BY <1>1 DEF Step, AnyStep, StepOps
<1>6. z = (p \o b) \o q BY <1>1 DEF SubmitSteps, Body, Pieces
<1>. HIDE DEF v, e, b, z, S, L
<1>7. p \in Seq(S) /\ q \in Seq(S) /\ Len(p) = 1 /\ Len(q) = 1 /\ p[1] = v /\ q[1] = e BY <1>5
<1>8. p \in Seq(S) /\ b \in Seq(S) /\ q \in Seq(S) BY <1>4, <1>7 DEF b, S
<1>. HIDE DEF p, q
<1>. DEFINE u == p \o b   w == u \o q
<1>9. /\ u \in Seq(S) /\ Len(u) = Len(p) + Len(b)
      /\ \A m \in 1..Len(p) : u[m] = p[m]
      /\ \A m \in 1..Len(b) : u[Len(p) + m] = b[m]
  <2>1. Joins(u, p, b) BY DEF Joins
  <2>. HIDE DEF u
  <2>. QED BY <1>8, <2>1, ConcatAt
<1>. HIDE DEF u
<1>10. /\ w \in Seq(S) /\ Len(w) = Len(u) + Len(q)
       /\ \A m \in 1..Len(u) : w[m] = u[m]
       /\ \A m \in 1..Len(q) : w[Len(u) + m] = q[m]
  <2>1. Joins(w, u, q) /\ u \in Seq(S) /\ q \in Seq(S) BY <1>8, <1>9 DEF Joins
  <2>. HIDE DEF w
  <2>. QED BY <2>1, ConcatAt
<1>11. w = z BY <1>6 DEF u
<1>. HIDE DEF w
<1>12. Len(b) \in Nat BY <1>4 DEF b
<1>13. /\ Len(z) = Len(b) + 2 /\ z[1] = v /\ z[Len(b) + 2] = e
       /\ \A k \in 1..Len(b) : z[1 + k] = b[k]
  <2>1. Len(u) = Len(b) + 1 /\ Len(w) = Len(b) + 2 BY <1>7, <1>9, <1>10, <1>12
  <2>2. 1 \in 1..Len(p) /\ 1 \in 1..Len(u) /\ 1 \in 1..Len(q) BY <1>7, <1>12, <2>1
  <2>3. w[1] = v BY <1>7, <1>9, <1>10, <2>2
  <2>4. w[Len(u) + 1] = e BY <1>7, <1>10, <2>2
  <2>5. Len(u) + 1 = Len(b) + 2 BY <1>12, <2>1
  <2>6. ASSUME NEW k \in 1..Len(b) PROVE w[1 + k] = b[k]
    <3>1. 1 + k \in 1..Len(u) BY <1>12, <2>1
    <3>2. u[1 + k] = b[k] BY <1>7, <1>9
    <3>. QED BY <1>10, <3>1, <3>2
  <2>. QED BY <1>11, <2>1, <2>3, <2>4, <2>5, <2>6
<1>. QED BY <1>3, <1>4, <1>10, <1>11, <1>13 DEF S, L, b, v, e, z

\* A step of a VkSubmitInfo: where it stands and which buffer it is from
LEMMA SubmitElement ==
    ASSUME NEW c \in Calls, NEW i \in 1..Len(c.submits), NEW m \in 1..Len(SubmitSteps(c, i))
    PROVE  LET x == SubmitSteps(c, i)[m]
           IN  \/ m = 1 /\ x = Step("validate", i, None)
               \/ m = Len(SubmitSteps(c, i)) /\ x = Step("complete", i, None)
               \/ \E j \in 1..Len(c.submits[i].bufs) : \E r \in 1..Len(BufferSteps(c, i, j)) :
                     /\ m = 1 + (Start(Pieces(c, i), j) + r)
                     /\ x = BufferSteps(c, i, j)[r]
<1>. DEFINE b == Body(c, i)   z == SubmitSteps(c, i)
<1>1. /\ Len(b) \in Nat /\ Len(z) = Len(b) + 2 /\ z[1] = Step("validate", i, None)
      /\ z[Len(b) + 2] = Step("complete", i, None)
      /\ \A k \in 1..Len(b) : z[1 + k] = b[k]
  BY SubmitForm
<1>2. CASE m = 1 BY <1>1, <1>2
<1>3. CASE m = Len(z) BY <1>1, <1>3
<1>4. CASE m # 1 /\ m # Len(z)
  <2>. DEFINE k == m - 1
  <2>1. k \in 1..Len(b) /\ 1 + k = m BY <1>1, <1>4
  <2>2. z[m] = b[k] BY <1>1, <2>1
  <2>3. Pieces(c, i) \in Seq(Seq(AnyStep(c))) /\ k \in 1..Len(FlattenSeq(Pieces(c, i)))
        BY <2>1, SubmitForm DEF Body
  <2>. HIDE DEF k
  <2>a. PICK j \in 1..Len(Pieces(c, i)) :
           \E r \in 1..Len(Pieces(c, i)[j]) : k = Start(Pieces(c, i), j) + r
        BY <2>3, FlattenFrom
  <2>4. PICK r \in 1..Len(Pieces(c, i)[j]) : k = Start(Pieces(c, i), j) + r BY <2>a
  <2>5. FlattenSeq(Pieces(c, i))[Start(Pieces(c, i), j) + r] = Pieces(c, i)[j][r] BY <2>3, FlattenAt
  <2>6. j \in 1..Len(c.submits[i].bufs) /\ Pieces(c, i)[j] = BufferSteps(c, i, j) BY SubmitForm
  <2>. QED BY <2>1, <2>2, <2>4, <2>5, <2>6 DEF Body
<1>. QED BY <1>2, <1>3, <1>4

\* A program is the steps of its VkSubmitInfos, in their order, and the end.
LEMMA ProgramForm ==
    ASSUME NEW c \in Calls
    PROVE  /\ Subs(c) \in Seq(Seq(AnyStep(c)))
           /\ Len(Subs(c)) = Len(c.submits)
           /\ \A i \in 1..Len(c.submits) : Subs(c)[i] = SubmitSteps(c, i)
           /\ FlattenSeq(Subs(c)) \in Seq(AnyStep(c)) /\ Len(FlattenSeq(Subs(c))) \in Nat
           /\ Program(c) \in Seq(AnyStep(c))
           /\ Len(Program(c)) = Len(FlattenSeq(Subs(c))) + 1
           /\ \A n \in 1..Len(FlattenSeq(Subs(c))) : Program(c)[n] = FlattenSeq(Subs(c))[n]
           /\ Program(c)[Len(Program(c))] = Step("end", Len(c.submits), None)
<1>. DEFINE S == AnyStep(c)   L == Len(c.submits)
<1>1. L \in Nat \ {0} /\ DOMAIN c.submits = 1..L BY CallFacts
<1>2. \A i \in 1..L : SubmitSteps(c, i) \in Seq(S) BY SubmitForm
<1>3. Subs(c) \in Seq(Seq(S)) /\ Len(Subs(c)) = L /\ \A i \in 1..L : Subs(c)[i] = SubmitSteps(c, i)
  <2>. HIDE DEF S, L
  <2>. QED BY <1>1, <1>2 DEF Subs, L
<1>. DEFINE f == FlattenSeq(Subs(c))   e == Step("end", L, None)   o == <<e>>   w == f \o o
<1>4. f \in Seq(S) /\ Len(f) \in Nat BY <1>3, FlattenType
<1>5. e \in S BY <1>1 DEF Step, AnyStep, StepOps
<1>6. Program(c) = w BY <1>1 DEF Program, Subs
<1>. HIDE DEF S, L, f, e
<1>7. o \in Seq(S) /\ Len(o) = 1 /\ o[1] = e BY <1>5
<1>. HIDE DEF o
<1>8. /\ w \in Seq(S) /\ Len(w) = Len(f) + Len(o)
      /\ \A m \in 1..Len(f) : w[m] = f[m]
      /\ \A m \in 1..Len(o) : w[Len(f) + m] = o[m]
  <2>1. Joins(w, f, o) /\ f \in Seq(S) /\ o \in Seq(S) BY <1>4, <1>7 DEF Joins
  <2>. HIDE DEF w
  <2>. QED BY <2>1, ConcatAt
<1>. HIDE DEF w
<1>9. Len(w) = Len(f) + 1 /\ w[Len(f) + 1] = e BY <1>4, <1>7, <1>8
<1>. QED BY <1>3, <1>4, <1>6, <1>8, <1>9 DEF S, L, f, e

\* A step of a program: the last one, or a step of a VkSubmitInfo
LEMMA ProgramElement ==
    ASSUME NEW c \in Calls, NEW n \in 1..Len(Program(c))
    PROVE  \/ n = Len(Program(c)) /\ Program(c)[n] = Step("end", Len(c.submits), None)
           \/ \E i \in 1..Len(c.submits) : \E m \in 1..Len(SubmitSteps(c, i)) :
                 /\ n = Start(Subs(c), i) + m
                 /\ Program(c)[n] = SubmitSteps(c, i)[m]
<1>. DEFINE f == FlattenSeq(Subs(c))
<1>1. /\ Subs(c) \in Seq(Seq(AnyStep(c))) /\ Len(Subs(c)) = Len(c.submits)
      /\ \A i \in 1..Len(c.submits) : Subs(c)[i] = SubmitSteps(c, i)
      /\ Len(f) \in Nat /\ Len(Program(c)) = Len(f) + 1
      /\ \A m \in 1..Len(f) : Program(c)[m] = f[m]
  BY ProgramForm
<1>2. CASE n = Len(Program(c)) BY <1>2, ProgramForm
<1>3. CASE n # Len(Program(c))
  <2>1. n \in 1..Len(f) /\ Program(c)[n] = f[n] BY <1>1, <1>3
  <2>a. PICK i \in 1..Len(Subs(c)) : \E m \in 1..Len(Subs(c)[i]) : n = Start(Subs(c), i) + m
        BY <1>1, <2>1, FlattenFrom, SMTT(40)
  <2>2. PICK m \in 1..Len(Subs(c)[i]) : n = Start(Subs(c), i) + m BY <2>a
  <2>3. f[Start(Subs(c), i) + m] = Subs(c)[i][m] BY <1>1, FlattenAt
  <2>. QED BY <1>1, <2>1, <2>2, <2>3
<1>. QED BY <1>2, <1>3

\* What a step of a program is
LEMMA StepFacts ==
    ASSUME NEW c \in Calls, NEW n \in 1..Len(Program(c))
    PROVE  LET x == Program(c)[n]
           IN  /\ x \in AnyStep(c) /\ x.sub \in 1..Len(c.submits)
               /\ x.op = "end" <=> n = Len(Program(c))
               /\ x.op \in {"host", "dispatch"} => x.what \in OpKinds
               /\ x.op = "frame" => \E j \in 1..Len(c.submits[x.sub].bufs) :
                                       /\ x = FrameStep(c, x.sub, j)
                                       /\ Graphics(c.submits[x.sub].bufs[j])
                                       /\ ~Refused(c, x.sub, j)
<1>. DEFINE x == Program(c)[n]   P == Program(c)
<1>1. P \in Seq(AnyStep(c)) /\ Len(c.submits) \in 1..Len(c.submits) BY ProgramForm, CallFacts
<1>2. x \in AnyStep(c)
  <2>. HIDE DEF P
  <2>. QED BY <1>1 DEF P
<1>3. CASE n = Len(P) /\ x = Step("end", Len(c.submits), None)
  BY <1>1, <1>2, <1>3 DEF Step
<1>4. ASSUME NEW i \in 1..Len(c.submits), NEW m \in 1..Len(SubmitSteps(c, i)),
             n = Start(Subs(c), i) + m, x = SubmitSteps(c, i)[m]
      PROVE  /\ n # Len(P) /\ x.op # "end" /\ x.sub \in 1..Len(c.submits)
             /\ x.op \in {"host", "dispatch"} => x.what \in OpKinds
             /\ x.op = "frame" => \E j \in 1..Len(c.submits[x.sub].bufs) :
                                     /\ x = FrameStep(c, x.sub, j)
                                     /\ Graphics(c.submits[x.sub].bufs[j])
                                     /\ ~Refused(c, x.sub, j)
  <2>1. /\ Subs(c) \in Seq(Seq(AnyStep(c))) /\ i \in 1..Len(Subs(c)) /\ m \in 1..Len(Subs(c)[i])
        /\ Len(P) = Len(FlattenSeq(Subs(c))) + 1 /\ Len(FlattenSeq(Subs(c))) \in Nat
    BY ProgramForm
  <2>2. n \in 1..Len(FlattenSeq(Subs(c))) BY <1>4, <2>1, FlattenAt
  <2>3. n # Len(P) BY <2>1, <2>2
  <2>4. \/ x = Step("validate", i, None)
        \/ x = Step("complete", i, None)
        \/ \E j \in 1..Len(c.submits[i].bufs) : \E r \in 1..Len(BufferSteps(c, i, j)) :
              x = BufferSteps(c, i, j)[r]
    BY <1>4, SubmitElement
  <2>5. CASE x = Step("validate", i, None) \/ x = Step("complete", i, None)
    BY <2>3, <2>5 DEF Step
  <2>6. ASSUME NEW j \in 1..Len(c.submits[i].bufs), NEW r \in 1..Len(BufferSteps(c, i, j)),
               x = BufferSteps(c, i, j)[r]
        PROVE  /\ x.op # "end" /\ x.sub \in 1..Len(c.submits)
               /\ x.op \in {"host", "dispatch"} => x.what \in OpKinds
               /\ x.op = "frame" => \E k \in 1..Len(c.submits[x.sub].bufs) :
                                       /\ x = FrameStep(c, x.sub, k)
                                       /\ Graphics(c.submits[x.sub].bufs[k])
                                       /\ ~Refused(c, x.sub, k)
    <3>1. StepKind(c, i, j, x) BY <2>6, BufferElement
    <3>2. x.sub = i BY <3>1 DEF StepKind
    <3>3. CASE x.op \in {"host", "dispatch"} /\ x.what \in OpKinds BY <3>2, <3>3
    <3>4. CASE x.op = "refuse" BY <3>2, <3>4
    <3>5. CASE x = FrameStep(c, i, j) /\ Graphics(c.submits[i].bufs[j]) /\ ~Refused(c, i, j)
      <4>1. x.op = "frame" BY <3>5 DEF FrameStep, Step
      <4>. QED BY <3>2, <3>5, <4>1
    <3>. QED BY <3>1, <3>3, <3>4, <3>5 DEF StepKind
  <2>. QED BY <2>3, <2>4, <2>5, <2>6
<1>. QED BY <1>2, <1>3, <1>4, ProgramElement

\* The place and the VkSubmitInfo of a step before the last one
LEMMA SubmitOf ==
    ASSUME NEW c \in Calls, NEW n \in 1..Len(Program(c)), n # Len(Program(c))
    PROVE  LET x == Program(c)[n]
               i == x.sub
           IN  /\ i \in 1..Len(Subs(c)) /\ Subs(c)[i] = SubmitSteps(c, i)
               /\ \E m \in 1..Len(Subs(c)[i]) :
                     /\ n = Start(Subs(c), i) + m
                     /\ x = SubmitSteps(c, i)[m]
<1>. DEFINE x == Program(c)[n]
<1>1. PICK i \in 1..Len(c.submits) : \E m \in 1..Len(SubmitSteps(c, i)) :
              n = Start(Subs(c), i) + m /\ x = SubmitSteps(c, i)[m]
      BY ProgramElement
<1>2. PICK m \in 1..Len(SubmitSteps(c, i)) : n = Start(Subs(c), i) + m /\ x = SubmitSteps(c, i)[m]
      BY <1>1
<1>3. i \in 1..Len(Subs(c)) /\ Subs(c)[i] = SubmitSteps(c, i) BY ProgramForm
<1>4. x.sub = i
  <2>1. CASE x = Step("validate", i, None) BY <2>1 DEF Step
  <2>2. CASE x = Step("complete", i, None) BY <2>2 DEF Step
  <2>3. ASSUME NEW j \in 1..Len(c.submits[i].bufs), NEW r \in 1..Len(BufferSteps(c, i, j)),
               x = BufferSteps(c, i, j)[r]
        PROVE  x.sub = i
    <3>1. StepKind(c, i, j, x) BY <2>3, BufferElement
    <3>. QED BY <3>1 DEF StepKind
  <2>. QED BY <1>2, <2>1, <2>2, <2>3, SubmitElement
<1>. QED BY <1>2, <1>3, <1>4

\* The place and the buffer of a step that is work
LEMMA BufferOf ==
    ASSUME NEW c \in Calls, NEW n \in 1..Len(Program(c)), Program(c)[n].op \in WorkOps
    PROVE  LET x == Program(c)[n]
               i == x.sub
           IN  /\ i \in 1..Len(Subs(c)) /\ i \in 1..Len(c.submits) /\ n # Len(Program(c))
               /\ \E m \in 1..Len(Subs(c)[i]) :
                  /\ n = Start(Subs(c), i) + m
                  /\ \E j, r : InBuffer(c, i, m, x, j, r)
<1>. DEFINE x == Program(c)[n]   i == x.sub
<1>1. \A h : x # Step("end", h, None) /\ x # Step("validate", h, None) /\ x # Step("complete", h, None)
      BY DEF Step, WorkOps
<1>2. n # Len(Program(c)) BY <1>1, ProgramForm
<1>3. i \in 1..Len(Subs(c)) /\ Subs(c)[i] = SubmitSteps(c, i) /\ i \in 1..Len(c.submits)
      BY <1>2, SubmitOf, StepFacts
<1>4. PICK m \in 1..Len(Subs(c)[i]) : n = Start(Subs(c), i) + m /\ x = SubmitSteps(c, i)[m]
      BY <1>2, SubmitOf
<1>5. m \in 1..Len(SubmitSteps(c, i)) BY <1>3
<1>6. PICK j \in 1..Len(c.submits[i].bufs) : \E r \in 1..Len(BufferSteps(c, i, j)) :
              m = 1 + (Start(Pieces(c, i), j) + r) /\ x = BufferSteps(c, i, j)[r]
  <2>1. \/ x = Step("validate", i, None)
        \/ x = Step("complete", i, None)
        \/ \E j \in 1..Len(c.submits[i].bufs) : \E r \in 1..Len(BufferSteps(c, i, j)) :
              m = 1 + (Start(Pieces(c, i), j) + r) /\ SubmitSteps(c, i)[m] = BufferSteps(c, i, j)[r]
    <3>. HIDE DEF x, i
    <3>. QED BY <1>3, <1>4, <1>5, SubmitElement
  <2>. HIDE DEF x, i
  <2>. QED BY <1>1, <1>4, <2>1
<1>7. j \in 1..Len(Pieces(c, i)) /\ Pieces(c, i)[j] = BufferSteps(c, i, j) BY <1>3, <1>6, SubmitForm
<1>8. \E r : InBuffer(c, i, m, x, j, r) BY <1>6, <1>7 DEF InBuffer
<1>. QED BY <1>2, <1>3, <1>4, <1>8

\* The steps of an earlier VkSubmitInfo come first.
LEMMA SubsInOrder ==
    ASSUME NEW c \in Calls, NEW n \in 1..Len(Program(c)), NEW k \in 1..Len(Program(c)), n <= k
    PROVE  Program(c)[n].sub <= Program(c)[k].sub
<1>. DEFINE i == Program(c)[n].sub   j == Program(c)[k].sub   z == Subs(c)
<1>. SUFFICES i <= j OBVIOUS
<1>1. Len(c.submits) \in Nat /\ i \in 1..Len(c.submits) /\ j \in 1..Len(c.submits)
      BY CallFacts, StepFacts
<1>2. CASE k = Len(Program(c))
  <2>1. j = Len(c.submits)
    <3>1. Program(c)[Len(Program(c))] = Step("end", Len(c.submits), None) BY ProgramForm
    <3>2. Step("end", Len(c.submits), None).sub = Len(c.submits) BY DEF Step
    <3>. QED BY <1>2, <3>1, <3>2
  <2>. HIDE DEF i, j
  <2>. QED BY <1>1, <2>1
<1>3. CASE k # Len(Program(c))
  <2>1. n # Len(Program(c)) BY <1>3
  <2>2. z \in Seq(Seq(AnyStep(c))) BY ProgramForm
  <2>3. i \in 1..Len(z) /\ \E m \in 1..Len(z[i]) : n = Start(z, i) + m BY <2>1, SubmitOf
  <2>4. j \in 1..Len(z) /\ \E m \in 1..Len(z[j]) : k = Start(z, j) + m BY <1>3, SubmitOf
  <2>. HIDE DEF i, j, z
  <2>5. PICK m \in 1..Len(z[i]) : n = Start(z, i) + m BY <2>3
  <2>6. PICK q \in 1..Len(z[j]) : k = Start(z, j) + q BY <2>4
  <2>7. Start(z, i) + m <= Start(z, j) + q BY <2>5, <2>6
  <2>. QED BY <2>2, <2>3, <2>4, <2>7, PlacesInOrder
<1>. QED BY <1>2, <1>3

\* After a frame with a completion, no step of a buffer of the same VkSubmitInfo
\* is left.
LEMMA NoBufferLeft ==
    ASSUME NEW c \in Calls, NEW n \in 1..Len(Program(c)),
           Program(c)[n].op = "frame", HasCompletion(Program(c)[n].what.entries),
           NEW q, NEW y, NEW g, NEW d, InBuffer(c, Program(c)[n].sub, q, y, g, d),
           n < Start(Subs(c), Program(c)[n].sub) + q
    PROVE  FALSE
<1>. DEFINE x == Program(c)[n]   i == x.sub   P == Pieces(c, i)   k == Start(Subs(c), i) + q
<1>2. x.op \in WorkOps BY DEF WorkOps
<1>3. i \in 1..Len(c.submits) BY StepFacts
<1>4. P \in Seq(Seq(AnyStep(c))) BY <1>3, SubmitForm
<1>5. PICK m, j, r : n = Start(Subs(c), i) + m /\ InBuffer(c, i, m, x, j, r) BY <1>2, BufferOf
<1>6. k = Start(Subs(c), i) + q /\ n < k /\ InBuffer(c, i, q, y, g, d) OBVIOUS
<1>7. /\ j \in 1..Len(P) /\ P[j] = BufferSteps(c, i, j) /\ j \in 1..Len(c.submits[i].bufs)
      /\ r \in 1..Len(P[j]) /\ r \in 1..Len(BufferSteps(c, i, j))
      /\ m = 1 + (Start(P, j) + r) /\ x = BufferSteps(c, i, j)[r]
      BY <1>5 DEF InBuffer
<1>8. /\ g \in 1..Len(P) /\ P[g] = BufferSteps(c, i, g) /\ g \in 1..Len(c.submits[i].bufs)
      /\ d \in 1..Len(P[g]) /\ d \in 1..Len(BufferSteps(c, i, g))
      /\ q = 1 + (Start(P, g) + d) /\ y = BufferSteps(c, i, g)[d]
      BY <1>6 DEF InBuffer
<1>11. StepKind(c, i, j, x) BY <1>3, <1>7, BufferElement
<1>12. x = FrameStep(c, i, j) /\ Graphics(c.submits[i].bufs[j]) /\ ~Refused(c, i, j)
      BY <1>11 DEF StepKind
<1>13. HasCompletion(FrameEntries(c, i, j)) BY <1>12 DEF FrameStep, Step
<1>14. r = Len(P[j]) BY <1>3, <1>7, <1>13, BufferElement
<1>15. HasWork(c.submits[i].bufs[g]) BY <1>3, <1>8, BufferElement
<1>16. \A e \in (j + 1)..Len(c.submits[i].bufs) : ~HasWork(c.submits[i].bufs[e])
      BY <1>3, <1>7, <1>12, <1>13, NothingAfter
<1>17. g \notin (j + 1)..Len(c.submits[i].bufs) /\ g \in 1..Len(c.submits[i].bufs)
       /\ j \in 1..Len(c.submits[i].bufs)
      BY <1>7, <1>8, <1>15, <1>16
<1>18. Len(c.submits[i].bufs) \in Nat BY <1>3, CallFacts
<1>19. Start(Subs(c), i) \in Nat
  <2>1. /\ Subs(c) \in Seq(Seq(AnyStep(c))) /\ Len(Subs(c)) = Len(c.submits)
        /\ Len(c.submits) \in Nat
    BY CallFacts, ProgramForm
  <2>2. i \in 1..(Len(Subs(c)) + 1)
    <3>. HIDE DEF i
    <3>. QED BY <1>3, <2>1
  <2>. QED BY <2>1, <2>2, StartNext
<1>. HIDE DEF x, i, P, k
<1>20. Start(P, j) \in Nat /\ Start(P, g) \in Nat
  <2>1. j \in 1..Len(P) BY <1>7
  <2>2. g \in 1..Len(P) BY <1>8
  <2>3. Start(P, j) \in Nat BY <1>4, <2>1, StartType
  <2>4. Start(P, g) \in Nat BY <1>4, <2>2, StartType
  <2>. QED BY <2>3, <2>4
<1>21. Start(P, j) + r <= Start(P, g) + d
  <2>. DEFINE a == Start(Subs(c), i)   sj == Start(P, j)   sg == Start(P, g)
  <2>1. r \in Nat /\ m = 1 + (sj + r) BY <1>7
  <2>2. d \in Nat /\ q = 1 + (sg + d) BY <1>8
  <2>3. n = a + m /\ k = a + q /\ n < k /\ a \in Nat /\ sj \in Nat /\ sg \in Nat
        BY <1>5, <1>6, <1>19, <1>20
  <2>. HIDE DEF a, sj, sg
  <2>4. sj + r <= sg + d BY <2>1, <2>2, <2>3
  <2>. QED BY <2>4 DEF sj, sg
<1>22. j <= g /\ (j = g => r <= d) BY <1>4, <1>7, <1>8, <1>21, PlacesInOrder
<1>23. j = g
  <2>. DEFINE N == Len(c.submits[i].bufs)
  <2>1. N \in Nat /\ g \notin (j + 1)..N /\ g \in 1..N /\ j \in 1..N BY <1>17, <1>18
  <2>. HIDE DEF N
  <2>. QED BY <1>22, <2>1
<1>24. r = d
  <2>1. Len(P[j]) \in Nat BY <1>4
  <2>. QED BY <1>7, <1>8, <1>14, <1>22, <1>23, <2>1, SMTT(40)
<1>. QED BY <1>5, <1>6, <1>7, <1>8, <1>19, <1>20, <1>23, <1>24

\* So no work of the same VkSubmitInfo is left.
LEMMA NothingLeft ==
    ASSUME NEW c \in Calls, NEW n \in 1..Len(Program(c)), NEW k \in 1..Len(Program(c)), n < k,
           Program(c)[n].op = "frame", HasCompletion(Program(c)[n].what.entries),
           Program(c)[k].sub = Program(c)[n].sub
    PROVE  Program(c)[k].op \notin WorkOps
<1>1. SUFFICES ASSUME Program(c)[k].op \in WorkOps PROVE FALSE OBVIOUS
<1>2. PICK q, g, d : /\ k = Start(Subs(c), Program(c)[k].sub) + q
                     /\ InBuffer(c, Program(c)[k].sub, q, Program(c)[k], g, d)
      BY <1>1, BufferOf
<1>. QED BY <1>2, NoBufferLeft

----------------------------------------------------------------------------
\* The fence of a call

\* What travels with the frame of a step
LEMMA StepEntries ==
    ASSUME NEW c \in Calls, NEW n \in 1..Len(Program(c)), Program(c)[n].op = "frame"
    PROVE  LET x == Program(c)[n]
               s == c.submits[x.sub]
               E == Els(x.what.entries)
           IN  /\ x.what.ops \in Seq(OpKinds)
               /\ x.what.entries \in Seq(EntryType)
               /\ \A e \in E : e \in EntryType /\ e.obj \in UsedBy(c)
               /\ \A e \in E : e.type = "fence" => e.obj = c.fence /\ c.fence \in Fences
               /\ \A e \in E : e.type = "wait" =>
                     \E m \in DOMAIN s.waits : e = Entry("wait", s.waits[m][1], s.waits[m][2])
               /\ \A e \in E : e.type = "signal" =>
                     \E m \in DOMAIN s.signals : e = Entry("signal", s.signals[m][1], s.signals[m][2])
               /\ \A e \in E : e.type # "fence" => e.obj \in Sems
               /\ HasFence(x.what.entries) =>
                     /\ c.fence # None /\ (c.api = "legacy" \/ x.sub = Len(c.submits))
                     /\ HasCompletion(x.what.entries)
                     /\ GraphicsBufs(s) # {}
<1>. DEFINE x == Program(c)[n]   i == x.sub   s == c.submits[i]   E == Els(x.what.entries)
<1>1. i \in 1..Len(c.submits) BY StepFacts
<1>2. PICK j \in 1..Len(s.bufs) : x = FrameStep(c, i, j) /\ Graphics(s.bufs[j]) BY StepFacts
<1>3. x.what.ops = FrameOps(s.bufs[j]) /\ x.what.entries = FrameEntries(c, i, j)
      BY <1>2 DEF FrameStep, Step
<1>4. s.bufs[j] \in Bufs /\ s.waits \in Pairs /\ s.signals \in Pairs /\ DOMAIN c.submits = 1..Len(c.submits)
      /\ c.fence \in Fences \cup {None}
      BY <1>1, <1>2, CallFacts
<1>5. x.what.ops \in Seq(OpKinds) BY <1>3, <1>4, FrameOpsType
<1>6. x.what.entries \in Seq(EntryType) /\ E = Firsts(c, i, j) \cup Lasts(c, i, j) \cup FenceOf(c, i, j)
      BY <1>1, <1>3, FrameEntriesFacts
<1>7. s \in ToSet(c.submits) BY <1>1, <1>4 DEF ToSet
<1>8. \A e \in E : e \in EntryType BY <1>6, SMTT(40) DEF Els
<1>9. ASSUME NEW e \in Firsts(c, i, j)
      PROVE  /\ e.type = "wait" /\ e.obj \in Sems /\ e.obj \in UsedBy(c)
             /\ \E m \in DOMAIN s.waits : e = Entry("wait", s.waits[m][1], s.waits[m][2])
  <2>1. PICK m \in DOMAIN s.waits : e = Entry("wait", s.waits[m][1], s.waits[m][2]) BY DEF Firsts
  <2>2. e.type = "wait" /\ e.obj = s.waits[m][1] BY <2>1 DEF Entry
  <2>3. s.waits[m][1] \in Sems /\ s.waits[m][1] \in Waited(s) BY <1>4, EntriesOfFacts DEF Waited
  <2>4. e.obj \in UsedBy(c)
    <3>1. Waited(s) \cup Signals(s) \subseteq UsedBy(c) BY <1>7, SMTT(40) DEF UsedBy
    <3>. QED BY <2>2, <2>3, <3>1
  <2>. QED BY <2>1, <2>2, <2>3, <2>4, Zenon
<1>10. ASSUME NEW e \in Lasts(c, i, j)
      PROVE  /\ e.type = "signal" /\ e.obj \in Sems /\ e.obj \in UsedBy(c)
             /\ \E m \in DOMAIN s.signals : e = Entry("signal", s.signals[m][1], s.signals[m][2])
  <2>1. PICK m \in DOMAIN s.signals : e = Entry("signal", s.signals[m][1], s.signals[m][2]) BY DEF Lasts
  <2>2. e.type = "signal" /\ e.obj = s.signals[m][1] BY <2>1 DEF Entry
  <2>3. s.signals[m][1] \in Sems /\ s.signals[m][1] \in Signals(s) BY <1>4, EntriesOfFacts DEF Signals
  <2>4. e.obj \in UsedBy(c)
    <3>1. Waited(s) \cup Signals(s) \subseteq UsedBy(c) BY <1>7 DEF UsedBy
    <3>. QED BY <2>2, <2>3, <3>1
  <2>. QED BY <2>1, <2>2, <2>3, <2>4, Zenon
<1>11. ASSUME NEW e \in FenceOf(c, i, j)
      PROVE  /\ e.type = "fence" /\ e.obj = c.fence /\ e.obj \in UsedBy(c) /\ c.fence \in Fences
             /\ WithFence(c, i) /\ IsLastFrame(s, j)
  <2>1. e = Entry("fence", c.fence, 0) /\ WithFence(c, i) /\ IsLastFrame(s, j) BY DEF FenceOf
  <2>2. e.type = "fence" /\ e.obj = c.fence BY <2>1 DEF Entry
  <2>. QED BY <1>4, <2>1, <2>2 DEF WithFence, UsedBy
<1>12. ASSUME HasFence(x.what.entries)
       PROVE  /\ c.fence # None /\ (c.api = "legacy" \/ i = Len(c.submits))
              /\ HasCompletion(x.what.entries) /\ GraphicsBufs(s) # {}
  <2>1. PICK e \in E : e.type = "fence" BY <1>12 DEF HasFence
  <2>2. e \in FenceOf(c, i, j) BY <1>6, <1>9, <1>10, <2>1
  <2>3. WithFence(c, i) /\ IsLastFrame(s, j) BY <1>11, <2>2
  <2>4. HasCompletion(x.what.entries)
    <3>1. PICK m \in 1..Len(x.what.entries) : e = x.what.entries[m] BY <2>1 DEF Els
    <3>2. m \in DOMAIN x.what.entries BY <1>6
    <3>. QED BY <2>1, <3>1, <3>2 DEF HasCompletion
  <2>. QED BY <2>3, <2>4 DEF WithFence, IsLastFrame
<1>. HIDE DEF E
<1>13. \A e \in E : e.obj \in UsedBy(c) BY <1>6, <1>9, <1>10, <1>11
<1>14. \A e \in E : e.type = "fence" => e.obj = c.fence /\ c.fence \in Fences
      BY <1>6, <1>9, <1>10, <1>11
<1>15. \A e \in E : e.type # "fence" => e.obj \in Sems BY <1>6, <1>9, <1>10, <1>11
<1>16. \A e \in E : e.type = "wait" =>
          \E m \in DOMAIN s.waits : e = Entry("wait", s.waits[m][1], s.waits[m][2])
      BY <1>6, <1>9, <1>10, <1>11
<1>17. \A e \in E : e.type = "signal" =>
          \E m \in DOMAIN s.signals : e = Entry("signal", s.signals[m][1], s.signals[m][2])
      BY <1>6, <1>9, <1>10, <1>11
<1>. QED BY <1>5, <1>6, <1>8, <1>12, <1>13, <1>14, <1>15, <1>16, <1>17 DEF E

\* A fence that goes to the executor has a step that takes it there, unless a
\* buffer is refused.
LEMMA CarriedStep ==
    ASSUME NEW c \in Calls, Carried(c), c.fence # None
    PROVE  \E n \in 1..Len(Program(c)) :
              \/ Program(c)[n].op = "refuse"
              \/ Program(c)[n].op = "frame" /\ HasFence(Program(c)[n].what.entries)
<1>. DEFINE i == Len(c.submits)   s == c.submits[i]   P == Pieces(c, i)   b == Body(c, i)
<1>1. i \in 1..Len(c.submits) /\ DOMAIN s.bufs = 1..Len(s.bufs) BY CallFacts
<1>2. PICK j \in 1..Len(s.bufs) : HasCompletion(FrameEntries(c, i, j)) BY <1>1 DEF Carried
<1>. DEFINE es == FrameEntries(c, i, j)
<1>3. es \in Seq(EntryType) /\ Els(es) = Firsts(c, i, j) \cup Lasts(c, i, j) \cup FenceOf(c, i, j)
      BY <1>1, FrameEntriesFacts
<1>4. IsLastFrame(s, j)
  <2>1. PICK m \in DOMAIN es : es[m].type \in {"signal", "fence"} BY <1>2 DEF HasCompletion
  <2>2. es[m] \in Els(es) BY <1>3, <2>1 DEF Els
  <2>3. \A e \in Firsts(c, i, j) : e.type = "wait" BY DEF Firsts, Entry
  <2>4. es[m] \in Lasts(c, i, j) \cup FenceOf(c, i, j) BY <1>3, <2>1, <2>2, <2>3
  <2>. QED BY <2>4 DEF Lasts, FenceOf
<1>5. HasFence(es)
  <2>1. WithFence(c, i) BY DEF WithFence
  <2>2. Entry("fence", c.fence, 0) \in Els(es) BY <1>3, <1>4, <2>1 DEF FenceOf
  <2>3. Entry("fence", c.fence, 0).type = "fence" BY DEF Entry
  <2>. QED BY <2>2, <2>3 DEF HasFence
<1>6. Graphics(s.bufs[j]) BY <1>4 DEF IsLastFrame, GraphicsBufs
<1>7. PICK r \in 1..Len(BufferSteps(c, i, j)) :
             \/ BufferSteps(c, i, j)[r].op = "refuse"
             \/ BufferSteps(c, i, j)[r] = FrameStep(c, i, j)
      BY <1>1, <1>6, FrameInBuffer
<1>. DEFINE k == Start(P, j) + r   m == 1 + k   n == Start(Subs(c), i) + m
<1>8. /\ P \in Seq(Seq(AnyStep(c))) /\ j \in 1..Len(P) /\ P[j] = BufferSteps(c, i, j)
      /\ Len(b) \in Nat /\ Len(SubmitSteps(c, i)) = Len(b) + 2
      /\ \A q \in 1..Len(b) : SubmitSteps(c, i)[1 + q] = b[q]
  BY <1>1, SubmitForm
<1>9. k \in 1..Len(b) /\ b[k] = BufferSteps(c, i, j)[r] BY <1>7, <1>8, FlattenAt DEF Body
<1>10. m \in 1..Len(SubmitSteps(c, i)) /\ SubmitSteps(c, i)[m] = BufferSteps(c, i, j)[r]
      BY <1>8, <1>9, SMTT(40)
<1>. HIDE DEF m, b
<1>11. /\ Subs(c) \in Seq(Seq(AnyStep(c))) /\ i \in 1..Len(Subs(c)) /\ Subs(c)[i] = SubmitSteps(c, i)
       /\ Len(FlattenSeq(Subs(c))) \in Nat
       /\ Len(Program(c)) = Len(FlattenSeq(Subs(c))) + 1
       /\ \A q \in 1..Len(FlattenSeq(Subs(c))) : Program(c)[q] = FlattenSeq(Subs(c))[q]
  BY <1>1, ProgramForm
<1>12. n \in 1..Len(FlattenSeq(Subs(c))) /\ FlattenSeq(Subs(c))[n] = SubmitSteps(c, i)[m]
  <2>. DEFINE z == Subs(c)
  <2>1. z \in Seq(Seq(AnyStep(c))) /\ i \in 1..Len(z) /\ m \in 1..Len(z[i]) /\ z[i] = SubmitSteps(c, i)
        BY <1>10, <1>11
  <2>. HIDE DEF z
  <2>2. n = Start(z, i) + m BY DEF z
  <2>. HIDE DEF n
  <2>3. n \in 1..Len(FlattenSeq(z)) /\ FlattenSeq(z)[n] = z[i][m] BY <2>1, <2>2, FlattenAt
  <2>. QED BY <2>1, <2>3 DEF z
<1>13. n \in 1..Len(Program(c)) /\ Program(c)[n] = BufferSteps(c, i, j)[r] BY <1>10, <1>11, <1>12
<1>14. FrameStep(c, i, j).op = "frame" /\ FrameStep(c, i, j).what.entries = es
      BY DEF FrameStep, Step
<1>. QED BY <1>5, <1>7, <1>13, <1>14

----------------------------------------------------------------------------
\* The control: a running call is at a step of its program, the queue is used
\* by one call at a time, what a call uses is alive, and ids are not shared.

\* A call in a state with the right types
LEMMA RunFacts ==
    ASSUME TypeOK, Running, NEW t \in Threads, run[t].kind = "submit"
    PROVE  /\ run[t] \in Submitting /\ run[t].call \in Calls
           /\ run[t].prog = Program(run[t].call) /\ run[t].pc \in 1..Len(Program(run[t].call))
           /\ Doing(t) = Program(run[t].call)[run[t].pc]
           /\ Info(t) = run[t].call.submits[Doing(t).sub]
           /\ run[t].did \in Seq(OpKinds)
<1>1. run[t] \in {Idle} \cup Waits({"wait", "poll"}, Threads) \cup Submitting BY DEF TypeOK
<1>2. Idle.kind # "submit" BY DEF Idle
<1>3. \A w \in Waits({"wait", "poll"}, Threads) : w.kind # "submit" BY DEF Waits
<1>4. run[t] \in Submitting BY <1>1, <1>2, <1>3
<1>5. run[t].call \in Calls /\ run[t].did \in Seq(OpKinds) BY <1>4 DEF Submitting
<1>6. run[t].prog = Program(run[t].call) /\ run[t].pc \in 1..Len(Program(run[t].call)) BY DEF Running
<1>. QED BY <1>4, <1>5, <1>6 DEF Doing, Info

\* A call that goes on is at the next step.
LEMMA OnwardFacts ==
    ASSUME TypeOK, Running, NEW t \in Threads, run[t].kind = "submit", Doing(t).op # "end",
           NEW did \in Seq(OpKinds), run' = [run EXCEPT ![t].pc = @ + 1, ![t].did = did]
    PROVE  /\ run' \in [Threads -> {Idle} \cup Waits({"wait", "poll"}, Threads) \cup Submitting]
           /\ \A u \in Threads \ {t} : run'[u] = run[u]
           /\ run'[t] \in Submitting
           /\ run'[t].kind = "submit" /\ run'[t].call = run[t].call /\ run'[t].prog = run[t].prog
           /\ run'[t].pc = run[t].pc + 1 /\ run'[t].pc \in 1..Len(run'[t].prog)
           /\ run'[t].did = did
<1>. DEFINE c == run[t].call
<1>1. run[t] \in Submitting /\ run[t].prog = Program(c) /\ run[t].pc \in 1..Len(Program(c)) /\ c \in Calls
      /\ Doing(t) = Program(c)[run[t].pc]
      BY RunFacts
<1>2. run[t].pc # Len(Program(c)) BY <1>1, StepFacts
<1>3. Len(Program(c)) \in Nat
  <2>1. Program(c) \in Seq(AnyStep(c)) BY <1>1, ProgramForm
  <2>. HIDE DEF c
  <2>. QED BY <2>1
<1>4. run[t].pc + 1 \in 1..Len(Program(c)) /\ run[t].pc + 1 \in Nat
  <2>. HIDE DEF c
  <2>. QED BY <1>1, <1>2, <1>3
<1>5. run \in [Threads -> {Idle} \cup Waits({"wait", "poll"}, Threads) \cup Submitting] BY DEF TypeOK
<1>6. [run[t] EXCEPT !.pc = @ + 1, !.did = did] \in Submitting BY <1>1, <1>4 DEF Submitting
<1>7. /\ run'[t] = [run[t] EXCEPT !.pc = @ + 1, !.did = did]
      /\ \A u \in Threads \ {t} : run'[u] = run[u]
      /\ DOMAIN run' = Threads
      BY <1>5
<1>8. run' \in [Threads -> {Idle} \cup Waits({"wait", "poll"}, Threads) \cup Submitting]
      BY <1>5, <1>6, <1>7
<1>. QED BY <1>1, <1>4, <1>6, <1>7, <1>8 DEF Submitting

\* A call that leaves makes its thread idle and touches no other.
LEMMA LeaveFacts ==
    ASSUME TypeOK, NEW t \in Threads, Leave(t)
    PROVE  /\ run' \in [Threads -> {Idle} \cup Waits({"wait", "poll"}, Threads) \cup Submitting]
           /\ \A u \in Threads \ {t} : run'[u] = run[u]
           /\ run'[t].kind = "idle"
BY DEF TypeOK, Leave, Idle

\* Registries
LEMMA PutFacts ==
    ASSUME NEW f, NEW R, Registry(f, R), NEW k \in Nat, NEW v \in R
    PROVE  /\ Registry(Put(f, k, v), R)
           /\ DOMAIN Put(f, k, v) = DOMAIN f \cup {k}
           /\ \A x \in DOMAIN f \cup {k} : Put(f, k, v)[x] = IF x = k THEN v ELSE f[x]
BY DEF Registry, Put

\* A registry without an entry is a registry.
LEMMA CutFacts ==
    ASSUME NEW f, NEW R, Registry(f, R), NEW k
    PROVE  /\ Registry(Cut(f, k), R)
           /\ DOMAIN Cut(f, k) = DOMAIN f \ {k}
           /\ \A x \in DOMAIN f \ {k} : Cut(f, k)[x] = f[x]
BY DEF Registry, Cut

\* The types, one by one
LEMMA Types ==
    ASSUME Core
    PROVE  /\ TypeOK /\ Running /\ OneAtATime /\ UsedLive /\ IdsApart
           /\ obj \in [Objects -> Cells]
           /\ generation \in Nat
           /\ Registry(fenceReg, BOOLEAN) /\ Registry(semReg, Payloads) /\ Registry(eventReg, BOOLEAN)
           /\ device \in Seq(Seq(Held))
           /\ truth \in [Sems \cup Events -> Nat]
           /\ tainted \subseteq Objects
           /\ promised \in [Fences -> {"no", "local", "carried"}]
           /\ \A o \in Objects : Id(o) \in Nat /\ Id(o) <= generation
BY DEF Core, TypeOK, IdsApart, Id, Cells

\* The entries of a frame as they are sent, each with the id of its object
LEMMA WithIdsFacts ==
    ASSUME TypeOK, NEW es \in Seq(EntryType)
    PROVE  /\ WithIds(es) \in Seq(Held) /\ Len(WithIds(es)) = Len(es) /\ Len(es) \in Nat
           /\ \A n \in 1..Len(es) : WithIds(es)[n] = Tagged(es[n]) /\ es[n] \in Els(es)
           /\ \A ty : OfType(WithIds(es), ty) = {Tagged(e) : e \in {x \in Els(es) : x.type = ty}}
           /\ \A ty : IdsOf(OfType(WithIds(es), ty)) = {Id(e.obj) : e \in {x \in Els(es) : x.type = ty}}
           /\ ObjsOf(WithIds(es)) = {e.obj : e \in Els(es)}
           /\ \A e \in Els(es) : e \in EntryType /\ Tagged(e) \in Held
<1>1. Len(es) \in Nat /\ DOMAIN es = 1..Len(es) /\ \A n \in 1..Len(es) : es[n] \in EntryType OBVIOUS
<1>2. \A e \in EntryType : Tagged(e) \in Held BY DEF Tagged, EntryType, Held, TypeOK, Cells, Id
<1>3. WithIds(es) = [n \in 1..Len(es) |-> Tagged(es[n])] BY <1>1 DEF WithIds, Tagged
<1>4. \A n \in 1..Len(es) : Tagged(es[n]) \in Held BY <1>1, <1>2
<1>5. \A e : Tagged(e).type = e.type /\ Tagged(e).id = Id(e.obj) /\ Tagged(e).obj = e.obj BY DEF Tagged
<1>. HIDE DEF Tagged
<1>6. WithIds(es) \in Seq(Held) /\ Len(WithIds(es)) = Len(es) /\ DOMAIN WithIds(es) = 1..Len(es)
      /\ \A n \in 1..Len(es) : WithIds(es)[n] = Tagged(es[n])
      BY <1>1, <1>3, <1>4
<1>7. Els(es) = {es[n] : n \in 1..Len(es)} BY DEF Els
<1>. DEFINE w == WithIds(es)   E == Els(es)   L == Len(es)
<1>. HIDE DEF w, E, L
<1>8. DOMAIN w = 1..L /\ (\A n \in 1..L : w[n] = Tagged(es[n])) /\ E = {es[n] : n \in 1..L}
      BY <1>6, <1>7 DEF w, E, L
<1>9. ASSUME NEW ty PROVE OfType(w, ty) = {Tagged(e) : e \in {x \in E : x.type = ty}}
  <2>1. ASSUME NEW e \in {x \in E : x.type = ty} PROVE Tagged(e) \in OfType(w, ty)
    <3>1. PICK n \in 1..L : e = es[n] BY <1>8
    <3>2. w[n] = Tagged(e) /\ n \in DOMAIN w /\ w[n].type = ty BY <1>5, <1>8, <3>1
    <3>. QED BY <3>2 DEF OfType
  <2>2. ASSUME NEW y \in OfType(w, ty) PROVE \E e \in {x \in E : x.type = ty} : y = Tagged(e)
    <3>1. PICK n \in DOMAIN w : y = w[n] /\ w[n].type = ty BY DEF OfType
    <3>2. n \in 1..L /\ y = Tagged(es[n]) /\ es[n] \in E BY <1>8, <3>1
    <3>. QED BY <1>5, <3>1, <3>2
  <2>. QED BY <2>1, <2>2
<1>10. ASSUME NEW ty PROVE IdsOf(OfType(w, ty)) = {Id(e.obj) : e \in {x \in E : x.type = ty}}
  BY <1>5, <1>9 DEF IdsOf
<1>11. ObjsOf(w) = {e.obj : e \in E} BY <1>5, <1>8 DEF ObjsOf
<1>12. \A e \in E : e \in EntryType /\ Tagged(e) \in Held BY <1>1, <1>2, <1>7 DEF E
<1>13. \A n \in 1..L : es[n] \in E BY <1>8
<1>. QED BY <1>1, <1>6, <1>9, <1>10, <1>11, <1>12, <1>13 DEF w, E, L

----------------------------------------------------------------------------
\* The steps keep the types and the control

\* A step that keeps the ids and the running calls keeps the core invariant.
LEMMA CoreKept ==
    ASSUME Core, TypeOK', IdsKept, CallsKept
    PROVE  Core'
<1>1. Running' BY DEF Core, Running, CallsKept
<1>2. OneAtATime' BY DEF Core, OneAtATime, CallsKept
<1>3. UsedLive'
  <2>1. \A o \in Objects : Live(o) => Live(o)' BY DEF Live, IdsKept
  <2>2. SUFFICES ASSUME NEW t \in Threads, run'[t].kind = "submit", NEW o \in UsedBy(run'[t].call) \ {None}
                 PROVE  o \in Objects /\ Live(o)'
        BY DEF UsedLive
  <2>3. run[t].kind = "submit" /\ run'[t].call = run[t].call BY <2>2 DEF CallsKept
  <2>. QED BY <2>1, <2>2, <2>3 DEF Core, UsedLive
<1>4. IdsApart' BY DEF Core, IdsApart, IdsKept, Live, Id
<1>. QED BY <1>1, <1>2, <1>3, <1>4 DEF Core

\* The step of a submission that goes on
LEMMA OnwardKeeps ==
    ASSUME Core, NEW t \in Threads, run[t].kind = "submit", Doing(t).op # "end",
           NEW ops \in Seq(OpKinds), Onward(t, ops)
    PROVE  /\ run' \in [Threads -> {Idle} \cup Waits({"wait", "poll"}, Threads) \cup Submitting]
           /\ \A u \in Threads \ {t} : run'[u] = run[u]
           /\ run'[t].kind = "submit" /\ run'[t].call = run[t].call /\ run'[t].prog = run[t].prog
           /\ run'[t].pc = run[t].pc + 1 /\ run'[t].pc \in 1..Len(run'[t].prog)
           /\ run'[t].did = run[t].did \o ops
           /\ CallsKept
<1>1. TypeOK /\ Running BY DEF Core
<1>2. run[t].did \in Seq(OpKinds) /\ run[t] \in Submitting BY <1>1, RunFacts
<1>. DEFINE did == run[t].did \o ops
<1>3. did \in Seq(OpKinds) BY <1>2
<1>4. run' = [run EXCEPT ![t].pc = @ + 1, ![t].did = did]
  <2>1. run \in [Threads -> {Idle} \cup Waits({"wait", "poll"}, Threads) \cup Submitting]
        BY <1>1 DEF TypeOK
  <2>2. run' = [run EXCEPT ![t] = [run[t] EXCEPT !.pc = @ + 1, !.did = @ \o ops]]
        BY <2>1 DEF Onward
  <2>3. [run[t] EXCEPT !.pc = @ + 1, !.did = @ \o ops] = [run[t] EXCEPT !.pc = @ + 1, !.did = did]
        BY <1>2 DEF Submitting
  <2>. QED BY <2>1, <2>2, <2>3
<1>. HIDE DEF did
<1>5. /\ run' \in [Threads -> {Idle} \cup Waits({"wait", "poll"}, Threads) \cup Submitting]
      /\ \A u \in Threads \ {t} : run'[u] = run[u]
      /\ run'[t].kind = "submit" /\ run'[t].call = run[t].call /\ run'[t].prog = run[t].prog
      /\ run'[t].pc = run[t].pc + 1 /\ run'[t].pc \in 1..Len(run'[t].prog)
      /\ run'[t].did = did
  BY <1>1, <1>3, <1>4, OnwardFacts
<1>6. CallsKept BY <1>1, <1>5 DEF CallsKept, Running
<1>. QED BY <1>5, <1>6 DEF did

\* The step of a submission that ends its call
LEMMA LeaveKeeps ==
    ASSUME Core, NEW t \in Threads, Leave(t)
    PROVE  /\ run' \in [Threads -> {Idle} \cup Waits({"wait", "poll"}, Threads) \cup Submitting]
           /\ \A u \in Threads \ {t} : run'[u] = run[u]
           /\ run'[t].kind = "idle"
           /\ CallsKept
<1>1. /\ run' \in [Threads -> {Idle} \cup Waits({"wait", "poll"}, Threads) \cup Submitting]
      /\ \A u \in Threads \ {t} : run'[u] = run[u]
      /\ run'[t].kind = "idle"
  BY LeaveFacts DEF Core
<1>. QED BY <1>1 DEF CallsKept, Core, Running

\* A step that leaves the calls alone
LEMMA SameRun ==
    ASSUME Core, run' = run
    PROVE  CallsKept
BY DEF CallsKept, Core, Running

----------------------------------------------------------------------------

\* A new object takes a new id.
LEMMA CreatedCore ==
    ASSUME Core, NEW o \in Objects, ~Live(o), TypeOK', generation' = generation + 1, UNCHANGED run,
           \A x \in Objects : obj'[x].id = obj[x].id \/ (x = o /\ obj'[x].id = generation + 1)
    PROVE  Core'
<1>1. generation \in Nat /\ \A x \in Objects : Id(x) \in Nat /\ Id(x) <= generation BY Types
<1>2. IdsApart' BY <1>1 DEF Core, IdsApart, Id, Live
<1>3. UsedLive'
  <2>1. \A x \in Objects : Live(x) => Live(x)' BY <1>1 DEF Live
  <2>. QED BY <2>1 DEF Core, UsedLive
<1>. QED BY <1>2, <1>3 DEF Core, Running, OneAtATime

\* The copy of a new object
LEMMA CellType ==
    ASSUME NEW i \in Nat, NEW b \in BOOLEAN, NEW v \in Nat
    PROVE  /\ [id |-> i, signaled |-> b, value |-> v] \in Cells
           /\ [id |-> i, signaled |-> b, value |-> v].id = i
BY DEF Cells

\* vkCreateFence keeps the core invariant: a new id is shared with no other
\* object.
LEMMA CreateFenceCore ==
    ASSUME Core, NEW t \in Threads, NEW f \in Fences, NEW b \in BOOLEAN, CreateFence(t, f, b)
    PROVE  Core'
<1>. DEFINE id == generation + 1   known == id \in DOMAIN fenceReg
            cell == [id |-> id, signaled |-> b, value |-> 0]
<1>1. f \in Objects /\ id \in Nat /\ generation \in Nat BY Types DEF Objects
<1>2. generation' = id /\ UNCHANGED <<semReg, eventReg, busy, run, truth, device, restarts, crashes>>
      BY DEF CreateFence, Quiet
<1>3. \/ UNCHANGED <<obj, fenceReg, tainted, promised>>
      \/ /\ fenceReg' = IF known THEN fenceReg ELSE Put(fenceReg, id, b)
         /\ obj' = [obj EXCEPT ![f] = cell]
         /\ tainted' = IF known THEN tainted \cup {f} ELSE tainted \ {f}
         /\ promised' = [promised EXCEPT ![f] = "no"]
  BY DEF CreateFence
<1>4. ~Live(f) BY DEF CreateFence, NextToCreate
<1>5. cell \in Cells /\ cell.id = id BY <1>1, CellType
<1>. HIDE DEF cell
<1>6. /\ obj' \in [Objects -> Cells]
      /\ \A x \in Objects : obj'[x].id = obj[x].id \/ (x = f /\ obj'[x].id = id)
  BY <1>1, <1>3, <1>5, Types
<1>7. Registry(fenceReg', BOOLEAN)
  <2>1. Registry(Put(fenceReg, id, b), BOOLEAN) BY <1>1, Types, PutFacts
  <2>. QED BY <1>3, <2>1, Types
<1>8. tainted' \subseteq Objects /\ promised' \in [Fences -> {"no", "local", "carried"}]
      BY <1>1, <1>3, Types
<1>9. TypeOK' BY <1>1, <1>2, <1>6, <1>7, <1>8 DEF Core, TypeOK
<1>. QED BY <1>1, <1>2, <1>4, <1>6, <1>9, CreatedCore

\* vkCreateSemaphore keeps it.
LEMMA CreateSemCore ==
    ASSUME Core, NEW t \in Threads, NEW s \in Sems, CreateSem(t, s, 0)
    PROVE  Core'
<1>. DEFINE id == generation + 1   known == id \in DOMAIN semReg   isT == s \in Timelines
            new == NewSem(isT, 0)
            cell == [id |-> id, signaled |-> FALSE, value |-> IF isT THEN semReg'[id].last ELSE 0]
<1>1. s \in Objects /\ id \in Nat /\ generation \in Nat BY Types DEF Objects, Sems
<1>2. generation' = id /\ UNCHANGED <<fenceReg, eventReg, busy, run, promised, device, restarts, crashes>>
      BY DEF CreateSem, Quiet
<1>3. \/ UNCHANGED <<obj, semReg, tainted, truth>>
      \/ /\ semReg' = IF known THEN semReg ELSE Put(semReg, id, new)
         /\ obj' = [obj EXCEPT ![s] = cell]
         /\ tainted' = IF known THEN tainted \cup {s} ELSE tainted \ {s}
         /\ truth' = [truth EXCEPT ![s] = 0]
  BY DEF CreateSem
<1>4. ~Live(s) BY DEF CreateSem, NextToCreate
<1>5. new \in Payloads BY DEF NewSem, Payloads
<1>. HIDE DEF new
<1>6. Registry(Put(semReg, id, new), Payloads) /\ DOMAIN Put(semReg, id, new) = DOMAIN semReg \cup {id}
  <2>1. Registry(semReg, Payloads) BY Types
  <2>. HIDE DEF id
  <2>. QED BY <1>1, <1>5, <2>1, PutFacts
<1>7. Registry(semReg', Payloads) BY <1>3, <1>6, Types
<1>8. obj' = obj \/ (obj' = [obj EXCEPT ![s] = cell] /\ cell \in Cells /\ cell.id = id)
  <2>1. CASE UNCHANGED <<obj, semReg, tainted, truth>> BY <2>1
  <2>2. CASE /\ semReg' = IF known THEN semReg ELSE Put(semReg, id, new)
             /\ obj' = [obj EXCEPT ![s] = cell]
    <3>1. id \in DOMAIN semReg' BY <1>6, <2>2
    <3>2. semReg'[id] \in Payloads BY <1>7, <3>1 DEF Registry
    <3>3. (IF isT THEN semReg'[id].last ELSE 0) \in Nat BY <3>2 DEF Payloads
    <3>4. cell \in Cells /\ cell.id = id BY <1>1, <3>3, CellType
    <3>. QED BY <2>2, <3>4
  <2>. QED BY <1>3, <2>1, <2>2
<1>. HIDE DEF cell
<1>9. /\ obj' \in [Objects -> Cells]
      /\ \A x \in Objects : obj'[x].id = obj[x].id \/ (x = s /\ obj'[x].id = id)
  BY <1>1, <1>8, Types
<1>10. tainted' \subseteq Objects /\ truth' \in [Sems \cup Events -> Nat]
      BY <1>1, <1>3, Types
<1>11. TypeOK' BY <1>1, <1>2, <1>7, <1>9, <1>10 DEF Core, TypeOK
<1>. QED BY <1>1, <1>2, <1>4, <1>9, <1>11, CreatedCore

\* vkCreateEvent keeps it.
LEMMA CreateEventCore ==
    ASSUME Core, NEW t \in Threads, NEW e \in Events, CreateEvent(t, e)
    PROVE  Core'
<1>. DEFINE id == generation + 1   known == id \in DOMAIN eventReg   p == Put(eventReg, id, FALSE)
            cell == [id |-> id, signaled |-> eventReg'[id], value |-> 0]
<1>1. e \in Objects /\ id \in Nat /\ generation \in Nat BY Types DEF Objects
<1>2. generation' = id /\ UNCHANGED <<fenceReg, semReg, busy, run, promised, device, restarts, crashes>>
      BY DEF CreateEvent, Quiet
<1>3. \/ UNCHANGED <<obj, eventReg, tainted, truth>>
      \/ /\ eventReg' = IF known THEN eventReg ELSE p
         /\ obj' = [obj EXCEPT ![e] = cell]
         /\ tainted' = IF known THEN tainted \cup {e} ELSE tainted \ {e}
         /\ truth' = [truth EXCEPT ![e] = 0]
  BY DEF CreateEvent
<1>4. ~Live(e) BY DEF CreateEvent, NextToCreate
<1>5. Registry(p, BOOLEAN) /\ DOMAIN p = DOMAIN eventReg \cup {id}
  <2>1. Registry(eventReg, BOOLEAN) /\ FALSE \in BOOLEAN BY Types
  <2>. HIDE DEF id
  <2>. QED BY <1>1, <2>1, PutFacts
<1>. HIDE DEF p
<1>6. Registry(eventReg', BOOLEAN) BY <1>3, <1>5, Types
<1>7. obj' = obj \/ (obj' = [obj EXCEPT ![e] = cell] /\ cell \in Cells /\ cell.id = id)
  <2>1. CASE UNCHANGED <<obj, eventReg, tainted, truth>> BY <2>1
  <2>2. CASE /\ eventReg' = IF known THEN eventReg ELSE p
             /\ obj' = [obj EXCEPT ![e] = cell]
    <3>1. id \in DOMAIN eventReg' BY <1>5, <2>2
    <3>2. eventReg'[id] \in BOOLEAN BY <1>6, <3>1 DEF Registry
    <3>3. cell \in Cells /\ cell.id = id BY <1>1, <3>2, CellType
    <3>. QED BY <2>2, <3>3
  <2>. QED BY <1>3, <2>1, <2>2
<1>. HIDE DEF cell
<1>8. /\ obj' \in [Objects -> Cells]
      /\ \A x \in Objects : obj'[x].id = obj[x].id \/ (x = e /\ obj'[x].id = id)
  BY <1>1, <1>7, Types
<1>9. tainted' \subseteq Objects /\ truth' \in [Sems \cup Events -> Nat]
      BY <1>1, <1>3, Types
<1>10. TypeOK' BY <1>1, <1>2, <1>6, <1>8, <1>9 DEF Core, TypeOK
<1>. QED BY <1>1, <1>2, <1>4, <1>8, <1>10, CreatedCore

\* An object that is forgotten leaves the ids of the others.
LEMMA ForgottenType ==
    ASSUME TypeOK, NEW o
    PROVE  Forgotten(o) \in Seq(Seq(Held))
<1>1. device \in Seq(Seq(Held)) BY DEF TypeOK
<1>2. DOMAIN device = 1..Len(device) /\ Len(device) \in Nat BY <1>1
<1>3. ASSUME NEW n \in 1..Len(device)
      PROVE  [m \in DOMAIN device[n] |-> IF Names(device[n][m], o) THEN [device[n][m] EXCEPT !.id = 0]
                                                                   ELSE device[n][m]] \in Seq(Held)
  <2>1. device[n] \in Seq(Held) BY <1>1
  <2>2. DOMAIN device[n] = 1..Len(device[n]) /\ Len(device[n]) \in Nat
        /\ \A m \in 1..Len(device[n]) : device[n][m] \in Held
        BY <2>1
  <2>3. \A e \in Held : [e EXCEPT !.id = 0] \in Held BY DEF Held
  <2>. QED BY <2>2, <2>3
<1>. QED BY <1>2, <1>3 DEF Forgotten

\* Destroying keeps it: no running call uses the object.
LEMMA DestroyCore ==
    ASSUME Core, NEW t \in Threads, NEW o \in Objects, Destroy(t, o)
    PROVE  Core'
<1>1. Registry(fenceReg', BOOLEAN) /\ Registry(semReg', Payloads) /\ Registry(eventReg', BOOLEAN)
      BY Types, CutFacts DEF Destroy
<1>2. obj' = [obj EXCEPT ![o] = Dead] BY DEF Destroy
<1>3. Dead \in Cells /\ Dead.id = 0 BY DEF Dead, Cells
<1>4. /\ obj' \in [Objects -> Cells]
      /\ \A x \in Objects : obj'[x].id = IF x = o THEN 0 ELSE obj[x].id
  BY <1>2, <1>3, Types
<1>5. device' \in Seq(Seq(Held)) BY Types, ForgottenType DEF Destroy
<1>6. UNCHANGED <<generation, busy, run, restarts, crashes, truth, promised>> /\ tainted' = tainted \ {o}
      BY DEF Destroy
<1>7. tainted' \subseteq Objects BY <1>6, Types
<1>8. TypeOK' BY <1>1, <1>4, <1>5, <1>6, <1>7 DEF Core, TypeOK
<1>9. IdsApart' BY <1>4, <1>6, Types DEF IdsApart, Live, Id
<1>10. UsedLive'
  <2>1. \A u \in Threads : run[u].kind = "submit" => o \notin UsedBy(run[u].call) BY DEF Destroy, InUse
  <2>2. \A x \in Objects : Live(x) /\ x # o => Live(x)' BY <1>4 DEF Live, Id
  <2>. QED BY <1>6, <2>1, <2>2 DEF Core, UsedLive
<1>. QED BY <1>6, <1>8, <1>9, <1>10 DEF Core, Running, OneAtATime

----------------------------------------------------------------------------
\* The local copies change in one field at a time and never in their id.
LEMMA CopyChanges ==
    ASSUME Core, DOMAIN obj' = Objects, obj' = [o \in Objects |-> obj'[o]],
           \A o \in Objects :
              \/ obj'[o] = obj[o]
              \/ \E b \in BOOLEAN : obj'[o] = [obj[o] EXCEPT !.signaled = b]
              \/ \E v \in Nat : obj'[o] = [obj[o] EXCEPT !.value = v]
    PROVE  /\ obj' \in [Objects -> Cells]
           /\ \A o \in Objects : obj'[o].id = obj[o].id
<1>1. obj \in [Objects -> Cells] BY Types
<1>2. ASSUME NEW o \in Objects PROVE obj'[o] \in Cells /\ obj'[o].id = obj[o].id
  <2>1. obj[o] \in Cells BY <1>1
  <2>2. CASE obj'[o] = obj[o] BY <2>1, <2>2
  <2>3. CASE \E b \in BOOLEAN : obj'[o] = [obj[o] EXCEPT !.signaled = b] BY <2>1, <2>3 DEF Cells
  <2>4. CASE \E v \in Nat : obj'[o] = [obj[o] EXCEPT !.value = v] BY <2>1, <2>4 DEF Cells
  <2>. QED BY <2>2, <2>3, <2>4
<1>. QED BY <1>2

\* Writing the signaled flag of a copy
LEMMA SignaledChange ==
    ASSUME Core, NEW x \in Objects, NEW b \in BOOLEAN, obj' = [obj EXCEPT ![x].signaled = b]
    PROVE  /\ obj' \in [Objects -> Cells]
           /\ \A o \in Objects : obj'[o].id = obj[o].id
           /\ \A o \in Objects : obj'[o].value = obj[o].value
           /\ \A o \in Objects : obj'[o].signaled = IF o = x THEN b ELSE obj[o].signaled
<1>1. obj \in [Objects -> Cells] BY Types
<1>2. \A o \in Objects : obj'[o] = IF o = x THEN [obj[o] EXCEPT !.signaled = b] ELSE obj[o] BY <1>1
<1>3. \A c \in Cells : /\ [c EXCEPT !.signaled = b] \in Cells /\ [c EXCEPT !.signaled = b].id = c.id
                       /\ [c EXCEPT !.signaled = b].value = c.value
                       /\ [c EXCEPT !.signaled = b].signaled = b
      BY DEF Cells
<1>4. DOMAIN obj' = Objects /\ obj' = [o \in Objects |-> obj'[o]] BY <1>1
<1>. QED BY <1>1, <1>2, <1>3, <1>4

\* Writing the value of a copy
LEMMA ValueChange ==
    ASSUME Core, NEW x \in Objects, NEW v \in Nat, obj' = [obj EXCEPT ![x].value = v]
    PROVE  /\ obj' \in [Objects -> Cells]
           /\ \A o \in Objects : obj'[o].id = obj[o].id
           /\ \A o \in Objects : obj'[o].signaled = obj[o].signaled
           /\ \A o \in Objects : obj'[o].value = IF o = x THEN v ELSE obj[o].value
<1>1. obj \in [Objects -> Cells] BY Types
<1>2. \A o \in Objects : obj'[o] = IF o = x THEN [obj[o] EXCEPT !.value = v] ELSE obj[o] BY <1>1
<1>3. \A c \in Cells : /\ [c EXCEPT !.value = v] \in Cells /\ [c EXCEPT !.value = v].id = c.id
                       /\ [c EXCEPT !.value = v].signaled = c.signaled
                       /\ [c EXCEPT !.value = v].value = v
      BY DEF Cells
<1>4. DOMAIN obj' = Objects /\ obj' = [o \in Objects |-> obj'[o]] BY <1>1
<1>. QED BY <1>1, <1>2, <1>3, <1>4

\* What the executor answers
LEMMA PayloadTypes ==
    ASSUME Core
    PROVE  /\ \A f : FencePayload(f) \in BOOLEAN
           /\ \A s : SemCount(s) \in Nat
           /\ \A id \in DOMAIN semReg : semReg[id] \in Payloads /\ semReg[id].count \in Nat
                                        /\ semReg[id].last \in Nat /\ semReg[id].timeline \in BOOLEAN
           /\ \A id \in DOMAIN eventReg : eventReg[id] \in BOOLEAN
           /\ \A id \in DOMAIN fenceReg : fenceReg[id] \in BOOLEAN
<1>1. \A id \in DOMAIN semReg : semReg[id] \in Payloads BY Types DEF Registry
<1>2. \A id \in DOMAIN eventReg : eventReg[id] \in BOOLEAN BY Types DEF Registry
<1>3. \A id \in DOMAIN fenceReg : fenceReg[id] \in BOOLEAN BY Types DEF Registry
<1>4. \A w \in Payloads : w.count \in Nat /\ w.last \in Nat /\ w.timeline \in BOOLEAN BY DEF Payloads
<1>5. \A s : SemCount(s) \in Nat BY <1>1, <1>4 DEF SemCount
<1>6. \A f : FencePayload(f) \in BOOLEAN BY DEF FencePayload
<1>. QED BY <1>1, <1>2, <1>3, <1>4, <1>5, <1>6

\* vkResetFences keeps the core invariant.
LEMMA ResetFenceCore ==
    ASSUME Core, NEW t \in Threads, NEW f \in Fences, ResetFence(t, f)
    PROVE  Core' /\ IdsKept
<1>1. f \in Objects /\ Id(f) \in Nat /\ FALSE \in BOOLEAN BY Types DEF Objects
<1>2. /\ obj' = [obj EXCEPT ![f].signaled = FALSE] /\ fenceReg' = Put(fenceReg, Id(f), FALSE)
      /\ promised' = [promised EXCEPT ![f] = "no"]
      /\ UNCHANGED <<generation, semReg, eventReg, busy, run, truth, tainted, device, restarts, crashes>>
  BY DEF ResetFence, Quiet
<1>3. obj' \in [Objects -> Cells] /\ \A o \in Objects : obj'[o].id = obj[o].id
      BY <1>1, <1>2, SignaledChange
<1>4. Registry(fenceReg', BOOLEAN)
  <2>1. Registry(fenceReg, BOOLEAN) BY Types
  <2>. QED BY <1>1, <1>2, <2>1, PutFacts
<1>5. promised' \in [Fences -> {"no", "local", "carried"}] BY <1>2, Types
<1>6. TypeOK' BY <1>2, <1>3, <1>4, <1>5 DEF Core, TypeOK
<1>7. IdsKept /\ CallsKept BY <1>2, <1>3, SameRun DEF IdsKept
<1>. QED BY <1>6, <1>7, CoreKept

\* vkGetFenceStatus keeps it.
LEMMA FenceStatusCore ==
    ASSUME Core, NEW t \in Threads, NEW f \in Fences, FenceStatus(t, f)
    PROVE  Core' /\ IdsKept
<1>1. f \in Objects /\ FencePayload(f) \in BOOLEAN BY PayloadTypes DEF Objects
<1>2. /\ obj' = [obj EXCEPT ![f].signaled = FencePayload(f)]
      /\ UNCHANGED <<generation, fenceReg, semReg, eventReg, busy, run, truth, tainted, promised,
                     device, restarts, crashes>>
  BY DEF FenceStatus, Quiet
<1>3. obj' \in [Objects -> Cells] /\ \A o \in Objects : obj'[o].id = obj[o].id
      BY <1>1, <1>2, SignaledChange
<1>4. TypeOK' BY <1>2, <1>3 DEF Core, TypeOK
<1>5. IdsKept /\ CallsKept BY <1>2, <1>3, SameRun DEF IdsKept
<1>. QED BY <1>4, <1>5, CoreKept

\* vkGetSemaphoreCounterValue keeps it.
LEMMA SemCounterCore ==
    ASSUME Core, NEW t \in Threads, NEW s \in Timelines, SemCounter(t, s)
    PROVE  Core' /\ IdsKept
<1>1. s \in Objects /\ SemCount(s) \in Nat BY PayloadTypes DEF Objects
<1>2. /\ obj' = [obj EXCEPT ![s].value = SemCount(s)]
      /\ Id(s) \in DOMAIN semReg
      /\ semReg' = [semReg EXCEPT ![Id(s)].last = SemCount(s)]
      /\ UNCHANGED <<generation, fenceReg, eventReg, busy, run, truth, tainted, promised,
                     device, restarts, crashes>>
  BY DEF SemCounter, Quiet
<1>3. obj' \in [Objects -> Cells] /\ \A o \in Objects : obj'[o].id = obj[o].id
      BY <1>1, <1>2, ValueChange
<1>4. Registry(semReg', Payloads)
  <2>1. Registry(semReg, Payloads) BY Types
  <2>2. \A p \in Payloads : [p EXCEPT !.last = SemCount(s)] \in Payloads BY <1>1 DEF Payloads
  <2>. QED BY <1>2, <2>1, <2>2 DEF Registry
<1>5. TypeOK' BY <1>2, <1>3, <1>4 DEF Core, TypeOK
<1>6. IdsKept /\ CallsKept BY <1>2, <1>3, SameRun DEF IdsKept
<1>. QED BY <1>5, <1>6, CoreKept

\* vkSignalSemaphore keeps it.
LEMMA SignalSemCore ==
    ASSUME Core, NEW t \in Threads, NEW s \in Timelines, NEW v \in 1..MaxValue, SignalSem(t, s, v)
    PROVE  Core' /\ IdsKept
<1>1. s \in Objects /\ s \in Sems /\ v \in Nat BY BoundAssumption DEF Objects, Sems
<1>2. /\ obj' = [obj EXCEPT ![s].value = v]
      /\ Id(s) \in DOMAIN semReg
      /\ semReg' = [semReg EXCEPT ![Id(s)].count = v, ![Id(s)].last = v]
      /\ truth' = [truth EXCEPT ![s] = IF v > @ THEN v ELSE @]
      /\ UNCHANGED <<generation, fenceReg, eventReg, busy, run, tainted, promised,
                     device, restarts, crashes>>
  BY DEF SignalSem, Quiet
<1>3. obj' \in [Objects -> Cells] /\ \A o \in Objects : obj'[o].id = obj[o].id
      BY <1>1, <1>2, ValueChange
<1>4. Registry(semReg', Payloads)
  <2>1. Registry(semReg, Payloads) BY Types
  <2>2. \A p \in Payloads : [p EXCEPT !.last = v] \in Payloads /\ [p EXCEPT !.count = v] \in Payloads
        BY <1>1 DEF Payloads
  <2>. QED BY <1>2, <2>1, <2>2 DEF Registry
<1>5. truth' \in [Sems \cup Events -> Nat] BY <1>1, <1>2, Types
<1>6. TypeOK' BY <1>2, <1>3, <1>4, <1>5 DEF Core, TypeOK
<1>7. IdsKept /\ CallsKept BY <1>2, <1>3, SameRun DEF IdsKept
<1>. QED BY <1>6, <1>7, CoreKept

\* vkSetEvent and vkResetEvent keep it.
LEMMA WriteEventCore ==
    ASSUME Core, NEW t \in Threads, NEW e \in Events, NEW on \in BOOLEAN, WriteEvent(t, e, on)
    PROVE  Core' /\ IdsKept
<1>1. e \in Objects /\ Id(e) \in Nat BY Types DEF Objects
<1>2. /\ obj' = [obj EXCEPT ![e].signaled = on] /\ eventReg' = Put(eventReg, Id(e), on)
      /\ truth' = [truth EXCEPT ![e] = IF on THEN 1 ELSE 0]
      /\ UNCHANGED <<generation, fenceReg, semReg, busy, run, tainted, promised, device, restarts, crashes>>
  BY DEF WriteEvent, Quiet
<1>3. obj' \in [Objects -> Cells] /\ \A o \in Objects : obj'[o].id = obj[o].id
      BY <1>1, <1>2, SignaledChange
<1>4. Registry(eventReg', BOOLEAN)
  <2>1. Registry(eventReg, BOOLEAN) BY Types
  <2>. QED BY <1>1, <1>2, <2>1, PutFacts
<1>5. truth' \in [Sems \cup Events -> Nat] BY <1>2, Types
<1>6. TypeOK' BY <1>2, <1>3, <1>4, <1>5 DEF Core, TypeOK
<1>7. IdsKept /\ CallsKept BY <1>2, <1>3, SameRun DEF IdsKept
<1>. QED BY <1>6, <1>7, CoreKept

\* vkGetEventStatus keeps it.
LEMMA EventStatusCore ==
    ASSUME Core, NEW t \in Threads, NEW e \in Events, EventStatus(t, e)
    PROVE  Core' /\ IdsKept
<1>1. e \in Objects BY DEF Objects
<1>2. /\ Id(e) \in DOMAIN eventReg
      /\ obj' = [obj EXCEPT ![e].signaled = eventReg[Id(e)]]
      /\ UNCHANGED <<generation, fenceReg, semReg, eventReg, busy, run, truth, tainted, promised,
                     device, restarts, crashes>>
  BY DEF EventStatus, Quiet
<1>3. eventReg[Id(e)] \in BOOLEAN BY <1>2, PayloadTypes
<1>4. obj' \in [Objects -> Cells] /\ \A o \in Objects : obj'[o].id = obj[o].id
      BY <1>1, <1>2, <1>3, SignaledChange
<1>5. TypeOK' BY <1>2, <1>4 DEF Core, TypeOK
<1>6. IdsKept /\ CallsKept BY <1>2, <1>4, SameRun DEF IdsKept
<1>. QED BY <1>5, <1>6, CoreKept

----------------------------------------------------------------------------

\* A thread that begins to wait or stops waiting leaves the running calls.
LEMMA WaiterMoves ==
    ASSUME Core, NEW t \in Threads, NEW r \in {Idle} \cup Waits({"wait", "poll"}, Threads),
           run' = [run EXCEPT ![t] = r]
    PROVE  run' \in [Threads -> RunTypes] /\ CallsKept
<1>1. run \in [Threads -> RunTypes] BY DEF Core, TypeOK, RunTypes
<1>2. r.kind # "submit" BY DEF Idle, Waits
<1>3. \A u \in Threads : run'[u] = IF u = t THEN r ELSE run[u] BY <1>1
<1>4. run' \in [Threads -> RunTypes]
  <2>1. r \in RunTypes BY DEF RunTypes
  <2>. QED BY <1>1, <2>1
<1>5. CallsKept BY <1>2, <1>3 DEF CallsKept, Core, Running
<1>. QED BY <1>4, <1>5

\* The record of a wait
LEMMA WaitType ==
    ASSUME Core, NEW kind, NEW t \in Threads, NEW S \in SUBSET Objects, NEW mode \in {"all", "any"},
           NEW v \in Nat
    PROVE  WaitRecord(kind, t, S, mode, v) \in Waits({kind}, Threads)
<1>1. Ids(S) \in SUBSET Nat BY Types DEF Ids
<1>. QED BY <1>1 DEF WaitRecord, Waits

\* What a fence wait and a semaphore wait do to the local copies
LEMMA AfterFenceWaitFacts ==
    ASSUME Core, NEW S, obj' = obj \/ obj' = AfterFenceWait(S)
    PROVE  obj' \in [Objects -> Cells] /\ \A o \in Objects : obj'[o].id = obj[o].id
<1>1. CASE obj' = obj BY <1>1, Types
<1>2. CASE obj' = AfterFenceWait(S)
  <2>1. DOMAIN obj' = Objects /\ obj' = [o \in Objects |-> obj'[o]] BY <1>2 DEF AfterFenceWait
  <2>2. \A o \in Objects : obj'[o] = obj[o] \/ obj'[o] = [obj[o] EXCEPT !.signaled = TRUE]
        BY <1>2 DEF AfterFenceWait
  <2>. QED BY <2>1, <2>2, CopyChanges
<1>. QED BY <1>1, <1>2

\* What a semaphore wait leaves of the local copies
LEMMA AfterSemWaitFacts ==
    ASSUME Core, NEW S, NEW v \in Nat, obj' = obj \/ obj' = AfterSemWait(S, v)
    PROVE  obj' \in [Objects -> Cells] /\ \A o \in Objects : obj'[o].id = obj[o].id
<1>1. CASE obj' = obj BY <1>1, Types
<1>2. CASE obj' = AfterSemWait(S, v)
  <2>1. DOMAIN obj' = Objects /\ obj' = [o \in Objects |-> obj'[o]] BY <1>2 DEF AfterSemWait
  <2>2. \A o \in Objects : obj'[o] = obj[o] \/ obj'[o] = [obj[o] EXCEPT !.value = v]
        BY <1>2 DEF AfterSemWait
  <2>. QED BY <2>1, <2>2, CopyChanges
<1>. QED BY <1>1, <1>2

\* What a semaphore wait leaves of the executor's registry
LEMMA AfterSemWaitRegFacts ==
    ASSUME Core, NEW ids
    PROVE  /\ Registry(AfterSemWaitReg(ids), Payloads) /\ DOMAIN AfterSemWaitReg(ids) = DOMAIN semReg
           /\ \A id \in DOMAIN semReg : /\ AfterSemWaitReg(ids)[id].timeline = semReg[id].timeline
                                        /\ AfterSemWaitReg(ids)[id].count = semReg[id].count
<1>1. ASSUME NEW id \in DOMAIN semReg
      PROVE  /\ AfterSemWaitReg(ids)[id] \in Payloads
             /\ AfterSemWaitReg(ids)[id].timeline = semReg[id].timeline
             /\ AfterSemWaitReg(ids)[id].count = semReg[id].count
  <2>1. semReg[id] \in Payloads BY PayloadTypes
  <2>2. AfterSemWaitReg(ids)[id] = IF id \in ids THEN [semReg[id] EXCEPT !.last = semReg[id].count]
                                                 ELSE semReg[id]
        BY DEF AfterSemWaitReg
  <2>. QED BY <2>1, <2>2 DEF Payloads
<1>2. DOMAIN semReg \subseteq Nat BY Types DEF Registry
<1>3. DOMAIN AfterSemWaitReg(ids) = DOMAIN semReg
      /\ AfterSemWaitReg(ids) = [id \in DOMAIN semReg |-> AfterSemWaitReg(ids)[id]]
      BY DEF AfterSemWaitReg
<1>. QED BY <1>1, <1>2, <1>3 DEF Registry

\* vkWaitForFences keeps the core invariant.
LEMMA WaitFencesCore ==
    ASSUME Core, NEW t \in Threads, NEW S \in SUBSET Fences, NEW mode \in {"all", "any"},
           WaitFences(t, S, mode)
    PROVE  Core' /\ IdsKept
<1>1. /\ \/ obj' = AfterFenceWait(S) /\ UNCHANGED <<busy, run>>
         \/ /\ busy' = WaitRecord("fences", t, S, mode, 0)
            /\ run' = [run EXCEPT ![t] = WaitRecord("wait", t, S, mode, 0)]
            /\ UNCHANGED obj
         \/ run' = [run EXCEPT ![t] = WaitRecord("poll", t, S, mode, 0)] /\ UNCHANGED <<obj, busy>>
      /\ UNCHANGED <<generation, fenceReg, semReg, eventReg, truth, tainted, promised,
                     device, restarts, crashes>>
  BY DEF WaitFences, Quiet
<1>2. obj' \in [Objects -> Cells] /\ \A o \in Objects : obj'[o].id = obj[o].id
      BY <1>1, AfterFenceWaitFacts
<1>3. S \in SUBSET Objects BY DEF Objects
<1>4. /\ WaitRecord("fences", t, S, mode, 0) \in Waits({"fences"}, Threads)
      /\ WaitRecord("wait", t, S, mode, 0) \in Waits({"wait"}, Threads)
      /\ WaitRecord("poll", t, S, mode, 0) \in Waits({"poll"}, Threads)
  BY <1>3, WaitType
<1>5. busy' \in {Free} \cup Waits({"fences", "sems"}, Threads \cup {None})
  <2>1. Waits({"fences"}, Threads) \subseteq Waits({"fences", "sems"}, Threads \cup {None}) BY DEF Waits
  <2>. QED BY <1>1, <1>4, <2>1 DEF Core, TypeOK
<1>6. run' \in [Threads -> RunTypes] /\ CallsKept
  <2>1. Waits({"wait"}, Threads) \cup Waits({"poll"}, Threads) \subseteq Waits({"wait", "poll"}, Threads)
        BY DEF Waits
  <2>2. run' = run => run' \in [Threads -> RunTypes] BY DEF Core, TypeOK, RunTypes
  <2>. QED BY <1>1, <1>4, <2>1, <2>2, WaiterMoves, SameRun
<1>7. TypeOK' BY <1>1, <1>2, <1>5, <1>6 DEF Core, TypeOK, RunTypes
<1>8. IdsKept BY <1>1, <1>2 DEF IdsKept
<1>. QED BY <1>6, <1>7, <1>8, CoreKept

\* So does the polling of the local copies that replaces it.
LEMMA PollFencesCore ==
    ASSUME Core, NEW t \in Threads, PollFences(t)
    PROVE  Core' /\ IdsKept
<1>1. run' = [run EXCEPT ![t] = Idle]
      /\ UNCHANGED <<obj, generation, fenceReg, semReg, eventReg, busy, truth, tainted, promised,
                     device, restarts, crashes>>
  BY DEF PollFences, Quiet
<1>2. run' \in [Threads -> RunTypes] /\ CallsKept BY <1>1, WaiterMoves
<1>3. TypeOK' BY <1>1, <1>2 DEF Core, TypeOK, RunTypes
<1>4. IdsKept BY <1>1 DEF IdsKept
<1>. QED BY <1>2, <1>3, <1>4, CoreKept

\* vkWaitSemaphores keeps it.
LEMMA WaitSemsCore ==
    ASSUME Core, NEW t \in Threads, NEW S \in SUBSET Timelines, NEW mode \in {"all", "any"},
           NEW v \in 1..MaxValue, WaitSems(t, S, mode, v)
    PROVE  Core' /\ IdsKept
<1>0. v \in Nat /\ S \in SUBSET Objects BY BoundAssumption DEF Objects
<1>1. /\ \/ /\ obj' = AfterSemWait(S, v) /\ semReg' = AfterSemWaitReg(Ids(S))
            /\ tainted' = tainted \cup Overstated(S, v)
            /\ UNCHANGED <<busy, run>>
         \/ /\ busy' = WaitRecord("sems", t, S, mode, v)
            /\ run' = [run EXCEPT ![t] = WaitRecord("wait", t, S, mode, 0)]
            /\ UNCHANGED <<obj, semReg, tainted>>
      /\ UNCHANGED <<generation, fenceReg, eventReg, truth, promised, device, restarts, crashes>>
  BY DEF WaitSems, Quiet
<1>2. obj' \in [Objects -> Cells] /\ \A o \in Objects : obj'[o].id = obj[o].id
      BY <1>0, <1>1, AfterSemWaitFacts
<1>3. Registry(semReg', Payloads) BY <1>1, AfterSemWaitRegFacts, Types
<1>4. /\ WaitRecord("sems", t, S, mode, v) \in Waits({"sems"}, Threads)
      /\ WaitRecord("wait", t, S, mode, 0) \in Waits({"wait"}, Threads)
  BY <1>0, WaitType
<1>5. busy' \in {Free} \cup Waits({"fences", "sems"}, Threads \cup {None})
  <2>1. Waits({"sems"}, Threads) \subseteq Waits({"fences", "sems"}, Threads \cup {None}) BY DEF Waits
  <2>. QED BY <1>1, <1>4, <2>1 DEF Core, TypeOK
<1>6. run' \in [Threads -> RunTypes] /\ CallsKept
  <2>1. Waits({"wait"}, Threads) \subseteq Waits({"wait", "poll"}, Threads) BY DEF Waits
  <2>2. run' = run => run' \in [Threads -> RunTypes] BY DEF Core, TypeOK, RunTypes
  <2>. QED BY <1>1, <1>4, <2>1, <2>2, WaiterMoves, SameRun
<1>7. tainted' \subseteq Objects BY <1>0, <1>1, Types DEF Overstated
<1>8. TypeOK' BY <1>1, <1>2, <1>3, <1>5, <1>6, <1>7 DEF Core, TypeOK, RunTypes
<1>9. IdsKept BY <1>1, <1>2 DEF IdsKept
<1>. QED BY <1>6, <1>8, <1>9, CoreKept

\* The end of the wait that held the executor keeps it.
LEMMA WaitEndsCore ==
    ASSUME Core, WaitEnds
    PROVE  Core' /\ IdsKept
<1>1. busy \in Waits({"fences", "sems"}, Threads \cup {None}) BY DEF Core, TypeOK, WaitEnds
<1>2. busy.thread \in Threads \cup {None} /\ busy.objs \subseteq Objects /\ busy.value \in Nat
      BY <1>1 DEF Waits
<1>3. /\ busy' = Free
      /\ run' = IF busy.thread = None THEN run ELSE [run EXCEPT ![busy.thread] = Idle]
      /\ UNCHANGED <<generation, fenceReg, eventReg, truth, promised, device, restarts, crashes>>
  BY DEF WaitEnds, Quiet
<1>4. \/ (obj' = obj \/ obj' = AfterFenceWait(busy.objs)) /\ UNCHANGED <<semReg, tainted>>
      \/ /\ obj' = obj \/ obj' = AfterSemWait(busy.objs, busy.value)
         /\ semReg' = AfterSemWaitReg(busy.ids)
         /\ tainted' = tainted \/ tainted' = tainted \cup Overstated(busy.objs, busy.value)
  BY DEF WaitEnds
<1>5. obj' \in [Objects -> Cells] /\ \A o \in Objects : obj'[o].id = obj[o].id
      BY <1>2, <1>4, AfterFenceWaitFacts, AfterSemWaitFacts
<1>6. Registry(semReg', Payloads) BY <1>4, AfterSemWaitRegFacts, Types
<1>7. tainted' \subseteq Objects BY <1>2, <1>4, Types DEF Overstated
<1>8. run' \in [Threads -> RunTypes] /\ CallsKept
  <2>1. run' = run => run' \in [Threads -> RunTypes] BY DEF Core, TypeOK, RunTypes
  <2>. QED BY <1>2, <1>3, <2>1, WaiterMoves, SameRun
<1>9. TypeOK' BY <1>3, <1>5, <1>6, <1>7, <1>8 DEF Core, TypeOK, RunTypes
<1>10. IdsKept BY <1>3, <1>5 DEF IdsKept
<1>. QED BY <1>8, <1>9, <1>10, CoreKept

----------------------------------------------------------------------------
\* What a frame makes of the registries
LEMMA HeldFacts ==
    ASSUME NEW es \in Seq(Held), NEW ty
    PROVE  /\ OfType(es, ty) \subseteq Held /\ \A e \in OfType(es, ty) : e.type = ty
           /\ IdsOf(OfType(es, ty)) \subseteq Nat
<1>1. \A n \in DOMAIN es : es[n] \in Held OBVIOUS
<1>2. \A e \in Held : e.id \in Nat BY DEF Held
<1>3. OfType(es, ty) \subseteq Held /\ \A e \in OfType(es, ty) : e.type = ty BY <1>1 DEF OfType
<1>. QED BY <1>2, <1>3 DEF IdsOf

\* Signaling adds no fence to the registry.
LEMMA SignaledFencesFacts ==
    ASSUME NEW fr, Registry(fr, BOOLEAN), NEW es
    PROVE  /\ Registry(SignaledFences(fr, es), BOOLEAN) /\ DOMAIN SignaledFences(fr, es) = DOMAIN fr
           /\ \A id \in DOMAIN fr : SignaledFences(fr, es)[id] = (fr[id] \/ id \in IdsOf(OfType(es, "fence")))
BY DEF Registry, SignaledFences

\* Signaling adds no semaphore to the registry and changes the kind of none.
LEMMA SignaledSemsFacts ==
    ASSUME NEW sr, Registry(sr, Payloads), NEW es \in Seq(Held)
    PROVE  /\ Registry(SignaledSems(sr, es), Payloads) /\ DOMAIN SignaledSems(sr, es) = DOMAIN sr
           /\ \A id \in DOMAIN sr : SignaledSems(sr, es)[id].timeline = sr[id].timeline
<1>1. ASSUME NEW id \in IdsOf(OfType(es, "signal")) PROVE SignalValue(es, id) \in Nat
  <2>. DEFINE e == CHOOSE x \in OfType(es, "signal") : x.id = id
  <2>1. \E x \in OfType(es, "signal") : x.id = id BY DEF IdsOf
  <2>2. e \in OfType(es, "signal") BY <2>1
  <2>3. e \in Held BY <2>2, HeldFacts
  <2>4. e.value \in Nat BY <2>3 DEF Held
  <2>. QED BY <2>4 DEF SignalValue
<1>2. ASSUME NEW id \in DOMAIN sr
      PROVE  SignaledSems(sr, es)[id] \in Payloads /\ SignaledSems(sr, es)[id].timeline = sr[id].timeline
  <2>1. sr[id] \in Payloads BY DEF Registry
  <2>. DEFINE p == sr[id]   q == SignaledSems(sr, es)[id]   v == SignalValue(es, id)
              w == IF p.timeline /\ p.last < v THEN v ELSE p.last
  <2>2. \/ id \in IdsOf(OfType(es, "signal")) /\ q = [p EXCEPT !.count = v, !.last = w]
        \/ q = [p EXCEPT !.count = 0]
        \/ q = p
    <3>1. p.timeline \in BOOLEAN BY <2>1 DEF Payloads
    <3>. QED BY <2>1, <3>1 DEF SignaledSems, Payloads
  <2>3. id \in IdsOf(OfType(es, "signal")) => v \in Nat BY <1>1
  <2>. HIDE DEF p, q, v
  <2>4. p \in Payloads BY <2>1 DEF p
  <2>5. v \in Nat => w \in Nat BY <2>4 DEF Payloads
  <2>. HIDE DEF w
  <2>6. q \in Payloads /\ q.timeline = p.timeline
    <3>1. CASE q = p BY <2>4, <3>1
    <3>2. CASE q = [p EXCEPT !.count = 0] BY <2>4, <3>2 DEF Payloads
    <3>3. ASSUME v \in Nat, w \in Nat, q = [p EXCEPT !.count = v, !.last = w]
          PROVE  q \in Payloads /\ q.timeline = p.timeline
      BY <2>4, <3>3 DEF Payloads
    <3>. QED BY <2>2, <2>3, <2>5, <3>1, <3>2, <3>3
  <2>. QED BY <2>6 DEF p, q
<1>3. DOMAIN SignaledSems(sr, es) = DOMAIN sr
      /\ SignaledSems(sr, es) = [id \in DOMAIN sr |-> SignaledSems(sr, es)[id]]
      BY DEF SignaledSems
<1>. QED BY <1>2, <1>3 DEF Registry

\* What resolving the entries of a frame leaves of the registries
LEMMA ResolvedFacts ==
    ASSUME Core, NEW es \in Seq(Held)
    PROVE  /\ Registry(ResolvedFences(es), BOOLEAN)
           /\ DOMAIN ResolvedFences(es) = DOMAIN fenceReg \cup IdsOf(OfType(es, "fence"))
           /\ \A id \in DOMAIN ResolvedFences(es) :
                 ResolvedFences(es)[id] = IF id \in IdsOf(OfType(es, "fence")) THEN FALSE ELSE fenceReg[id]
           /\ Registry(ResolvedSems(es), Payloads)
           /\ DOMAIN ResolvedSems(es) = DOMAIN semReg \cup Made(es)
           /\ Made(es) \subseteq IdsOf(OfType(es, "signal"))
<1>. DEFINE F == IdsOf(OfType(es, "fence"))
<1>1. F \subseteq Nat /\ IdsOf(OfType(es, "signal")) \subseteq Nat BY HeldFacts
<1>2. Registry(fenceReg, BOOLEAN) /\ Registry(semReg, Payloads) BY Types
<1>3. Registry(ResolvedFences(es), BOOLEAN) /\ DOMAIN ResolvedFences(es) = DOMAIN fenceReg \cup F
      /\ \A id \in DOMAIN ResolvedFences(es) : ResolvedFences(es)[id] = IF id \in F THEN FALSE ELSE fenceReg[id]
  <2>. HIDE DEF F
  <2>1. ResolvedFences(es) = [id \in DOMAIN fenceReg \cup F |-> IF id \in F THEN FALSE ELSE fenceReg[id]]
        BY DEF ResolvedFences, F
  <2>. QED BY <1>1, <1>2, <2>1 DEF Registry
<1>4. Made(es) \subseteq IdsOf(OfType(es, "signal"))
  <2>1. ASSUME NEW m \in 0..Len(es) PROVE MissingBy(es, m) \subseteq IdsOf(OfType(es, "signal"))
    <3>1. OfType(SubSeq(es, 1, m), "signal") \subseteq OfType(es, "signal")
      <4>1. Len(es) \in Nat /\ DOMAIN es = 1..Len(es) OBVIOUS
      <4>2. DOMAIN SubSeq(es, 1, m) = 1..m /\ \A n \in 1..m : SubSeq(es, 1, m)[n] = es[n] /\ n \in DOMAIN es
            BY <4>1
      <4>. QED BY <4>2 DEF OfType
    <3>. QED BY <3>1 DEF MissingBy, IdsOf
  <2>. QED BY <2>1 DEF Made
<1>5. DOMAIN ResolvedSems(es) = DOMAIN semReg \cup Made(es) BY DEF ResolvedSems
<1>6. ASSUME NEW id \in DOMAIN semReg \cup Made(es) PROVE ResolvedSems(es)[id] \in Payloads
  <2>1. CASE id \in DOMAIN semReg BY <1>2, <2>1 DEF ResolvedSems, Registry
  <2>2. CASE id \notin DOMAIN semReg
    <3>1. \A b \in BOOLEAN : NewSem(b, 0) \in Payloads BY DEF NewSem, Payloads
    <3>2. ResolvedSems(es)[id] = NewSem(\E n \in DOMAIN es : es[n].id = id /\ es[n].obj \in Timelines, 0)
          BY <2>2 DEF ResolvedSems
    <3>. QED BY <3>1, <3>2
  <2>. QED BY <2>1, <2>2
<1>7. ResolvedSems(es) = [id \in DOMAIN semReg \cup Made(es) |-> ResolvedSems(es)[id]] BY DEF ResolvedSems
<1>8. Registry(ResolvedSems(es), Payloads) BY <1>1, <1>2, <1>4, <1>5, <1>6, <1>7 DEF Registry
<1>. QED BY <1>3, <1>4, <1>5, <1>8

\* A submission that ran late keeps the core invariant.
LEMMA DeviceRunsCore ==
    ASSUME Core, DeviceRuns
    PROVE  Core' /\ IdsKept
<1>1. /\ device # <<>> /\ fenceReg' = SignaledFences(fenceReg, Head(device))
      /\ semReg' = SignaledSems(semReg, Head(device)) /\ device' = Tail(device)
      /\ UNCHANGED <<obj, generation, eventReg, busy, run, restarts, crashes, truth, tainted, promised>>
  BY DEF DeviceRuns
<1>2. device \in Seq(Seq(Held)) BY Types
<1>3. Head(device) \in Seq(Held) /\ device' \in Seq(Seq(Held)) BY <1>1, <1>2
<1>4. Registry(fenceReg', BOOLEAN) /\ Registry(semReg', Payloads)
      BY <1>1, <1>3, Types, SignaledFencesFacts, SignaledSemsFacts
<1>5. TypeOK' BY <1>1, <1>3, <1>4 DEF Core, TypeOK
<1>6. IdsKept /\ CallsKept BY <1>1, SameRun DEF IdsKept
<1>. QED BY <1>5, <1>6, CoreKept

\* A registry that has forgotten everything
LEMMA EmptyRegistry == \A R : Registry(<<>>, R)
BY DEF Registry

\* A restart of the executor keeps it.
LEMMA RestartCore ==
    ASSUME Core, Restart
    PROVE  Core' /\ IdsKept
<1>1. /\ restarts' = restarts + 1 /\ fenceReg' = <<>> /\ semReg' = <<>> /\ eventReg' = <<>>
      /\ device' = <<>> /\ busy' = Free /\ promised' = [f \in Fences |-> "no"]
      /\ run' = [t \in Threads |->
                 IF run[t].kind # "wait" THEN run[t]
                 ELSE IF busy.kind = "fences" THEN [run[t] EXCEPT !.kind = "poll"] ELSE Idle]
      /\ UNCHANGED <<obj, generation, crashes, truth, tainted>>
  BY DEF Restart
<1>2. run \in [Threads -> RunTypes] BY DEF Core, TypeOK, RunTypes
<1>3. ASSUME NEW t \in Threads
      PROVE  run'[t] = run[t] \/ run'[t] \in {Idle} \cup Waits({"wait", "poll"}, Threads)
  <2>1. CASE run[t].kind # "wait" BY <1>1, <2>1
  <2>2. CASE run[t].kind = "wait"
    <3>1. run[t] \in RunTypes BY <1>2
    <3>2. run[t] \in Waits({"wait", "poll"}, Threads) BY <2>2, <3>1 DEF RunTypes, Idle, Submitting
    <3>3. [run[t] EXCEPT !.kind = "poll"] \in Waits({"wait", "poll"}, Threads) BY <3>2 DEF Waits
    <3>. QED BY <1>1, <2>2, <3>3
  <2>. QED BY <2>1, <2>2
<1>4. run' \in [Threads -> RunTypes]
  <2>1. run' = [t \in Threads |-> run'[t]] BY <1>1
  <2>2. \A t \in Threads : run'[t] \in RunTypes BY <1>2, <1>3 DEF RunTypes
  <2>. QED BY <2>1, <2>2
<1>5. CallsKept
  <2>1. \A r \in {Idle} \cup Waits({"wait", "poll"}, Threads) : r.kind # "submit" BY DEF Idle, Waits
  <2>2. \A t \in Threads : run'[t].kind = "submit" => run'[t] = run[t] BY <1>3, <2>1
  <2>. QED BY <2>2 DEF CallsKept, Core, Running
<1>6. <<>> \in Seq(Seq(Held)) OBVIOUS
<1>7. TypeOK' BY <1>1, <1>4, <1>6, EmptyRegistry DEF Core, TypeOK, RunTypes
<1>8. IdsKept BY <1>1 DEF IdsKept
<1>. QED BY <1>5, <1>7, <1>8, CoreKept

\* The death of the application keeps it.
LEMMA CrashCore ==
    ASSUME Core, Crash
    PROVE  Core'
<1>1. /\ crashes' = crashes + 1 /\ obj' = [o \in Objects |-> Dead] /\ generation' = 0
      /\ run' = [t \in Threads |-> Idle]
      /\ busy' = IF busy = Free THEN Free ELSE [busy EXCEPT !.thread = None]
      /\ truth' = [o \in DOMAIN truth |-> 0]
      /\ tainted' = {} /\ promised' = [f \in Fences |-> "no"]
      /\ UNCHANGED <<fenceReg, semReg, eventReg, device, restarts>>
  BY DEF Crash
<1>2. busy' \in {Free} \cup Waits({"fences", "sems"}, Threads \cup {None})
  <2>1. busy \in {Free} \cup Waits({"fences", "sems"}, Threads \cup {None}) BY DEF Core, TypeOK
  <2>2. CASE busy = Free BY <1>1, <2>2
  <2>3. CASE busy # Free
    <3>1. busy \in Waits({"fences", "sems"}, Threads \cup {None}) BY <2>1, <2>3
    <3>2. [busy EXCEPT !.thread = None] \in Waits({"fences", "sems"}, Threads \cup {None})
          BY <3>1 DEF Waits
    <3>. QED BY <1>1, <2>3, <3>2
  <2>. QED BY <2>2, <2>3
<1>3. obj' \in [Objects -> Cells] BY <1>1 DEF Dead, Cells
<1>4. truth' \in [Sems \cup Events -> Nat] BY <1>1, Types
<1>5. TypeOK' BY <1>1, <1>2, <1>3, <1>4 DEF Core, TypeOK
<1>6. \A t \in Threads : run'[t].kind # "submit" BY <1>1 DEF Idle
<1>7. IdsApart' BY <1>1 DEF IdsApart, Live, Id, Dead
<1>. QED BY <1>5, <1>6, <1>7 DEF Core, Running, OneAtATime, UsedLive

----------------------------------------------------------------------------
\* The steps of a submission

\* The objects of a call
LEMMA UsedObjects ==
    ASSUME NEW c \in Calls
    PROVE  /\ UsedBy(c) \ {None} \subseteq Objects
           /\ \A i \in 1..Len(c.submits) : /\ Waited(c.submits[i]) \subseteq UsedBy(c) \cap Sems
                                           /\ Signals(c.submits[i]) \subseteq UsedBy(c) \cap Sems
           /\ \A s \in ToSet(c.submits) : \E i \in 1..Len(c.submits) : s = c.submits[i]
<1>1. c.fence \in Fences \cup {None} /\ DOMAIN c.submits = 1..Len(c.submits) BY CallFacts
<1>2. ASSUME NEW i \in 1..Len(c.submits)
      PROVE  Waited(c.submits[i]) \subseteq Sems /\ Signals(c.submits[i]) \subseteq Sems
  <2>1. c.submits[i].waits \in Pairs /\ c.submits[i].signals \in Pairs BY CallFacts
  <2>. QED BY <2>1, EntriesOfFacts DEF Waited, Signals
<1>3. \A s \in ToSet(c.submits) : \E i \in 1..Len(c.submits) : s = c.submits[i] BY <1>1 DEF ToSet
<1>4. \A i \in 1..Len(c.submits) : c.submits[i] \in ToSet(c.submits) BY <1>1 DEF ToSet
<1>5. UsedBy(c) \ {None} \subseteq Objects
  <2>1. UNION {Waited(s) \cup Signals(s) : s \in ToSet(c.submits)} \subseteq Sems BY <1>2, <1>3
  <2>. QED BY <1>1, <2>1 DEF UsedBy, Objects, Sems
<1>6. \A s \in ToSet(c.submits) : Waited(s) \cup Signals(s) \subseteq UsedBy(c) BY SMTT(40) DEF UsedBy
<1>. QED BY <1>2, <1>3, <1>4, <1>5, <1>6

\* The VkSubmitInfo of a running call
LEMMA InfoFacts ==
    ASSUME Core, NEW t \in Threads, run[t].kind = "submit"
    PROVE  /\ run[t].call \in Calls
           /\ Doing(t).sub \in 1..Len(run[t].call.submits)
           /\ Info(t).waits \in Pairs /\ Info(t).signals \in Pairs
           /\ Info(t).bufs \in Seq(Bufs)
           /\ Waited(Info(t)) \subseteq Sems /\ Signals(Info(t)) \subseteq Sems
           /\ \A n \in DOMAIN Info(t).signals : /\ Info(t).signals[n][1] \in Sems
                                                /\ Info(t).signals[n][2] \in Nat
           /\ run[t].did \in Seq(OpKinds)
<1>. DEFINE c == run[t].call
<1>1. /\ c \in Calls /\ run[t].pc \in 1..Len(Program(c)) /\ Doing(t) = Program(c)[run[t].pc]
      /\ Info(t) = c.submits[Doing(t).sub] /\ run[t].did \in Seq(OpKinds)
      BY RunFacts DEF Core
<1>2. Doing(t).sub \in 1..Len(c.submits) BY <1>1, StepFacts, SMTT(40)
<1>3. Info(t).waits \in Pairs /\ Info(t).signals \in Pairs /\ Info(t).bufs \in Seq(Bufs)
      BY <1>1, <1>2, CallFacts
<1>4. \A n \in DOMAIN Info(t).signals : Info(t).signals[n][1] \in Sems /\ Info(t).signals[n][2] \in Nat
      BY <1>3, EntriesOfFacts
<1>5. Waited(Info(t)) \subseteq Sems /\ Signals(Info(t)) \subseteq Sems BY <1>1, <1>2, UsedObjects
<1>. QED BY <1>1, <1>2, <1>3, <1>4, <1>5, Zenon

\* A call that fails
LEMMA FailKeeps ==
    ASSUME Core, NEW t \in Threads, run[t].kind = "submit", Fail(t)
    PROVE  /\ run' \in [Threads -> RunTypes] /\ CallsKept /\ run'[t].kind = "idle"
           /\ \A u \in Threads \ {t} : run'[u] = run[u]
           /\ tainted \subseteq tainted' /\ tainted' \subseteq Objects
<1>1. Leave(t) BY DEF Fail
<1>2. tainted' = tainted \/ tainted' = tainted \cup (Binaries \cap Waited(Info(t))) BY DEF Fail
<1>3. tainted' \subseteq Objects BY <1>2, Types DEF Objects
<1>. QED BY <1>1, <1>2, <1>3, LeaveKeeps DEF RunTypes

\* The beginning of a submission keeps it: the call starts at the first step of
\* its program, and a valid use gives it live objects and the queue alone.
LEMMA SubmitBeginCore ==
    ASSUME Core, NEW t \in Threads, NEW c \in Calls, SubmitBegin(t, c)
    PROVE  Core' /\ IdsKept
<1>. DEFINE r == [kind |-> "submit", call |-> c, prog |-> Program(c), pc |-> 1, did |-> <<>>]
<1>1. /\ run' = [run EXCEPT ![t] = r]
      /\ obj' = [o \in Objects |-> IF o = c.fence THEN [obj[o] EXCEPT !.signaled = FALSE] ELSE obj[o]]
      /\ promised' = [f \in Fences |-> IF f = c.fence THEN "no" ELSE promised[f]]
      /\ UNCHANGED <<generation, fenceReg, semReg, eventReg, busy, truth, tainted, device, restarts, crashes>>
  BY DEF SubmitBegin, Quiet
<1>2. ValidUse(c) BY DEF SubmitBegin
<1>3. run \in [Threads -> RunTypes] BY DEF Core, TypeOK, RunTypes
<1>4. r \in Submitting
  <2>1. <<>> \in Seq(OpKinds) OBVIOUS
  <2>. QED BY <2>1 DEF Submitting
<1>5. run' \in [Threads -> RunTypes] BY <1>1, <1>3, <1>4 DEF RunTypes
<1>6. \A u \in Threads : run'[u].kind = "submit" => u = t /\ run'[u] = r
  <2>1. \A u \in Threads : run[u].kind # "submit" BY <1>2 DEF ValidUse
  <2>. QED BY <1>1, <1>3, <2>1
<1>7. obj' \in [Objects -> Cells] /\ \A o \in Objects : obj'[o].id = obj[o].id
  <2>1. DOMAIN obj' = Objects /\ obj' = [o \in Objects |-> obj'[o]] BY <1>1
  <2>2. \A o \in Objects : obj'[o] = obj[o] \/ obj'[o] = [obj[o] EXCEPT !.signaled = FALSE] BY <1>1
  <2>. QED BY <2>1, <2>2, CopyChanges
<1>8. promised' \in [Fences -> {"no", "local", "carried"}]
  <2>1. promised \in [Fences -> {"no", "local", "carried"}] BY Types
  <2>. QED BY <1>1, <2>1
<1>9. TypeOK' BY <1>1, <1>5, <1>7, <1>8 DEF Core, TypeOK, RunTypes
<1>10. Running'
  <2>1. 1 \in 1..Len(Program(c))
    <3>1. Len(FlattenSeq(Subs(c))) \in Nat /\ Len(Program(c)) = Len(FlattenSeq(Subs(c))) + 1 BY ProgramForm
    <3>. QED BY <3>1
  <2>. QED BY <1>6, <2>1 DEF Running
<1>11. OneAtATime' BY <1>6 DEF OneAtATime
<1>12. UsedLive'
  <2>1. \A o \in UsedBy(c) \ {None} : o \in Objects /\ Live(o) BY <1>2, UsedObjects DEF ValidUse
  <2>2. \A o \in Objects : Live(o) => Live(o)' BY <1>7 DEF Live
  <2>. QED BY <1>6, <2>1, <2>2 DEF UsedLive
<1>13. IdsApart' BY <1>1, <1>7 DEF Core, IdsApart, Live, Id
<1>14. IdsKept BY <1>1, <1>7 DEF IdsKept
<1>. QED BY <1>9, <1>10, <1>11, <1>12, <1>13, <1>14 DEF Core

\* The check of the waits keeps the core invariant.
LEMMA ValidateCore ==
    ASSUME Core, NEW t \in Threads, Validate(t)
    PROVE  Core' /\ IdsKept
<1>1. UNCHANGED <<obj, generation, fenceReg, semReg, eventReg, busy, truth, tainted, promised,
                  device, restarts, crashes>>
      BY DEF Validate, Quiet
<1>2. run[t].kind = "submit" /\ Doing(t).op # "end" BY DEF Validate, In
<1>3. run' \in [Threads -> RunTypes] /\ CallsKept
  <2>1. CASE Leave(t) BY <2>1, LeaveKeeps DEF RunTypes
  <2>2. CASE run' = [run EXCEPT ![t].pc = @ + 1, ![t].did = <<>>]
    <3>1. TypeOK /\ Running BY Types
    <3>2. <<>> \in Seq(OpKinds) OBVIOUS
    <3>3. /\ run' \in [Threads -> RunTypes] /\ \A u \in Threads \ {t} : run'[u] = run[u]
          /\ run'[t].call = run[t].call /\ run'[t].prog = run[t].prog /\ run'[t].pc \in 1..Len(run'[t].prog)
      BY <1>2, <2>2, <3>1, <3>2, OnwardFacts DEF RunTypes
    <3>. QED BY <1>2, <3>1, <3>3 DEF CallsKept, Running
  <2>. QED BY <2>1, <2>2 DEF Validate
<1>4. TypeOK' BY <1>1, <1>3 DEF Core, TypeOK, RunTypes
<1>5. IdsKept BY <1>1 DEF IdsKept
<1>. QED BY <1>3, <1>4, <1>5, CoreKept

\* A refusal keeps it.
LEMMA RefuseCore ==
    ASSUME Core, NEW t \in Threads, Refuse(t)
    PROVE  Core' /\ IdsKept
<1>1. UNCHANGED <<obj, generation, fenceReg, semReg, eventReg, busy, truth, promised,
                  device, restarts, crashes>>
      BY DEF Refuse, Quiet
<1>2. run[t].kind = "submit" /\ Fail(t) BY DEF Refuse, In
<1>3. run' \in [Threads -> RunTypes] /\ CallsKept /\ tainted' \subseteq Objects BY <1>2, FailKeeps
<1>4. TypeOK' BY <1>1, <1>3 DEF Core, TypeOK, RunTypes
<1>5. IdsKept BY <1>1 DEF IdsKept
<1>. QED BY <1>3, <1>4, <1>5, CoreKept

\* A dispatch keeps it.
LEMMA DispatchCore ==
    ASSUME Core, NEW t \in Threads, Dispatch(t)
    PROVE  Core' /\ IdsKept
<1>1. UNCHANGED <<obj, generation, fenceReg, semReg, eventReg, busy, truth, promised,
                  device, restarts, crashes>>
      BY DEF Dispatch, Quiet
<1>2. run[t].kind = "submit" /\ Doing(t).op # "end" BY DEF Dispatch, In
<1>3. run' \in [Threads -> RunTypes] /\ CallsKept /\ tainted' \subseteq Objects
  <2>1. CASE Fail(t) BY <1>2, <2>1, FailKeeps
  <2>2. CASE Onward(t, <<"dispatch">>) /\ UNCHANGED tainted
    <3>1. <<"dispatch">> \in Seq(OpKinds) BY DEF OpKinds
    <3>. QED BY <1>2, <2>2, <3>1, OnwardKeeps, Types DEF RunTypes
  <2>. QED BY <2>1, <2>2 DEF Dispatch
<1>4. TypeOK' BY <1>1, <1>3 DEF Core, TypeOK, RunTypes
<1>5. IdsKept BY <1>1 DEF IdsKept
<1>. QED BY <1>3, <1>4, <1>5, CoreKept

\* A host operation keeps it.
LEMMA HostOpCore ==
    ASSUME Core, NEW t \in Threads, HostOp(t)
    PROVE  Core' /\ IdsKept
<1>. DEFINE what == Doing(t).what   e == TheEvent
<1>1. UNCHANGED <<generation, fenceReg, semReg, eventReg, busy, promised, device, restarts, crashes>>
      BY DEF HostOp, Quiet
<1>2. run[t].kind = "submit" /\ Doing(t).op = "host" BY DEF HostOp, In
<1>3. what \in OpKinds
  <2>1. run[t].call \in Calls /\ run[t].pc \in 1..Len(Program(run[t].call))
        /\ Doing(t) = Program(run[t].call)[run[t].pc]
        BY <1>2, RunFacts DEF Core
  <2>. QED BY <1>2, <2>1, StepFacts
<1>4. e \in Events /\ e \in Objects BY NameAssumption DEF TheEvent, Objects
<1>5. \/ Fail(t) /\ UNCHANGED <<obj, truth>>
      \/ /\ Onward(t, <<what>>)
         /\ obj' = obj \/ obj' = [obj EXCEPT ![e].signaled = (what = "set")]
         /\ truth' = truth \/ truth' = [truth EXCEPT ![e] = IF what = "set" THEN 1 ELSE 0]
         /\ tainted' = tainted \/ tainted' = tainted \cup {e}
  BY DEF HostOp
<1>6. run' \in [Threads -> RunTypes] /\ CallsKept
  <2>1. CASE Fail(t) BY <1>2, <2>1, FailKeeps
  <2>2. CASE Onward(t, <<what>>)
    <3>1. <<what>> \in Seq(OpKinds) BY <1>3
    <3>2. Doing(t).op # "end" BY <1>2
    <3>. HIDE DEF what
    <3>. QED BY <1>2, <2>2, <3>1, <3>2, OnwardKeeps DEF RunTypes
  <2>. QED BY <1>5, <2>1, <2>2
<1>7. obj' \in [Objects -> Cells] /\ \A o \in Objects : obj'[o].id = obj[o].id
  <2>1. CASE obj' = obj BY <2>1, Types
  <2>2. CASE obj' = [obj EXCEPT ![e].signaled = (what = "set")]
    <3>1. (what = "set") \in BOOLEAN OBVIOUS
    <3>. HIDE DEF what, e
    <3>. QED BY <1>4, <2>2, <3>1, SignaledChange
  <2>. QED BY <1>5, <2>1, <2>2
<1>8. tainted' \subseteq Objects
  <2>1. CASE Fail(t) BY <1>2, <2>1, FailKeeps
  <2>2. CASE tainted' = tainted \/ tainted' = tainted \cup {e} BY <1>4, <2>2, Types
  <2>. QED BY <1>5, <2>1, <2>2
<1>9. truth' \in [Sems \cup Events -> Nat] BY <1>5, Types
<1>10. TypeOK' BY <1>1, <1>6, <1>7, <1>8, <1>9 DEF Core, TypeOK, RunTypes
<1>11. IdsKept BY <1>1, <1>7 DEF IdsKept
<1>. QED BY <1>6, <1>10, <1>11, CoreKept

\* What a frame works with
LEMMA FrameForm ==
    ASSUME Core, NEW t \in Threads, Frame(t)
    PROVE  LET x == Doing(t)
           IN  /\ run[t].kind = "submit" /\ x.op = "frame" /\ busy = Free
               /\ run[t].call \in Calls /\ run[t].pc \in 1..Len(Program(run[t].call))
               /\ x = Program(run[t].call)[run[t].pc]
               /\ Info(t) = run[t].call.submits[x.sub]
               /\ x.what.ops \in Seq(OpKinds) /\ x.what.entries \in Seq(EntryType)
               /\ WithIds(x.what.entries) \in Seq(Held)
<1>1. run[t].kind = "submit" /\ Doing(t).op = "frame" /\ busy = Free BY DEF Frame, In, Serving
<1>2. /\ run[t].call \in Calls /\ run[t].pc \in 1..Len(Program(run[t].call))
      /\ Doing(t) = Program(run[t].call)[run[t].pc] /\ Info(t) = run[t].call.submits[Doing(t).sub]
      BY <1>1, RunFacts DEF Core
<1>3. Doing(t).what.ops \in Seq(OpKinds) /\ Doing(t).what.entries \in Seq(EntryType)
      BY <1>1, <1>2, StepEntries
<1>4. WithIds(Doing(t).what.entries) \in Seq(Held) BY <1>3, WithIdsFacts DEF Core
<1>. QED BY <1>1, <1>2, <1>3, <1>4

\* What a submission raises is a value.
LEMMA RaisedType ==
    ASSUME Core, NEW t \in Threads, run[t].kind = "submit"
    PROVE  Raised(Info(t)) \in [Sems \cup Events -> Nat]
<1>. DEFINE s == Info(t)
<1>1. \A n \in DOMAIN s.signals : s.signals[n][2] \in Nat BY InfoFacts
<1>2. truth \in [Sems \cup Events -> Nat] BY Types
<1>. HIDE DEF s
<1>3. ASSUME NEW o \in Sems \cup Events PROVE Raised(s)[o] \in Nat
  <2>1. truth[o] \in Nat /\ DOMAIN truth = Sems \cup Events BY <1>2
  <2>2. CASE \E n \in DOMAIN s.signals : s.signals[n][1] = o
    <3>. DEFINE n == CHOOSE m \in DOMAIN s.signals : s.signals[m][1] = o
    <3>1. n \in DOMAIN s.signals BY <2>2
    <3>2. s.signals[n][2] \in Nat BY <1>1, <3>1
    <3>3. Raised(s)[o] = IF o \in Binaries THEN 1
                         ELSE IF s.signals[n][2] > truth[o] THEN s.signals[n][2] ELSE truth[o]
          BY <2>1, <2>2 DEF Raised
    <3>. HIDE DEF n
    <3>. QED BY <2>1, <3>2, <3>3
  <2>3. CASE ~\E n \in DOMAIN s.signals : s.signals[n][1] = o
    <3>1. Raised(s)[o] \in {0, truth[o]} BY <2>1, <2>3 DEF Raised
    <3>. QED BY <2>1, <3>1
  <2>. QED BY <2>2, <2>3
<1>4. Raised(s) = [o \in Sems \cup Events |-> Raised(s)[o]] BY <1>2 DEF Raised
<1>. QED BY <1>3, <1>4 DEF s

\* A frame keeps it.
LEMMA FrameCore ==
    ASSUME Core, NEW t \in Threads, Frame(t)
    PROVE  Core' /\ IdsKept
<1>. DEFINE es == WithIds(Doing(t).what.entries)   ops == Doing(t).what.ops
            rf == ResolvedFences(es)   rs == ResolvedSems(es)
<1>1. run[t].kind = "submit" /\ Doing(t).op # "end" /\ es \in Seq(Held) /\ ops \in Seq(OpKinds)
      /\ Doing(t).what.entries \in Seq(EntryType)
      BY FrameForm
<1>2. UNCHANGED <<obj, generation, eventReg, busy, restarts, crashes, promised>> BY DEF Frame
<1>3. \/ Fail(t) /\ UNCHANGED <<device, truth>>
      \/ /\ Leave(t) /\ device' = Append(device, es) /\ UNCHANGED truth
         /\ tainted' = tainted \cup ObjsOf(es) \cup (Binaries \cap Waited(Info(t)))
      \/ /\ truth' = truth \/ truth' = Raised(Info(t))
         /\ \/ Onward(t, ops) /\ UNCHANGED tainted
            \/ Leave(t) /\ tainted' = tainted \cup (Binaries \cap (ObjsOf(es) \cup Waited(Info(t))))
         /\ UNCHANGED device
  BY DEF Frame
<1>4. /\ fenceReg' \in {fenceReg, rf, SignaledFences(rf, es)}
      /\ semReg' \in {semReg, rs, SignaledSems(rs, es)}
  <2>. HIDE DEF es
  <2>. QED BY DEF Frame, es
<1>. HIDE DEF es, ops
<1>5. Registry(fenceReg', BOOLEAN) /\ Registry(semReg', Payloads)
  <2>1. Registry(rf, BOOLEAN) /\ Registry(rs, Payloads) BY <1>1, ResolvedFacts
  <2>. HIDE DEF rf, rs
  <2>2. Registry(SignaledFences(rf, es), BOOLEAN) BY <2>1, SignaledFencesFacts
  <2>3. Registry(SignaledSems(rs, es), Payloads) BY <1>1, <2>1, SignaledSemsFacts
  <2>. QED BY <1>4, <2>1, <2>2, <2>3, Types
<1>6. run' \in [Threads -> RunTypes] /\ CallsKept
  <2>1. CASE Fail(t) BY <1>1, <2>1, FailKeeps
  <2>2. CASE Leave(t) BY <2>2, LeaveKeeps DEF RunTypes
  <2>3. CASE Onward(t, ops) BY <1>1, <2>3, OnwardKeeps DEF RunTypes
  <2>. QED BY <1>3, <2>1, <2>2, <2>3
<1>7. tainted' \subseteq Objects
  <2>1. CASE Fail(t) BY <1>1, <2>1, FailKeeps
  <2>2. ObjsOf(es) \subseteq Objects
    <3>1. ObjsOf(es) = {e.obj : e \in Els(Doing(t).what.entries)}
          /\ \A e \in Els(Doing(t).what.entries) : e \in EntryType
          BY <1>1, WithIdsFacts DEF Core, es
    <3>. QED BY <3>1 DEF EntryType
  <2>3. Waited(Info(t)) \subseteq Objects BY <1>1, InfoFacts DEF Objects, Sems
  <2>. QED BY <1>3, <2>1, <2>2, <2>3, Types
<1>8. device' \in Seq(Seq(Held))
  <2>1. device \in Seq(Seq(Held)) BY Types
  <2>2. Append(device, es) \in Seq(Seq(Held)) BY <1>1, <2>1
  <2>. QED BY <1>3, <2>1, <2>2
<1>9. truth' \in [Sems \cup Events -> Nat] BY <1>1, <1>3, Types, RaisedType
<1>10. TypeOK' BY <1>2, <1>5, <1>6, <1>7, <1>8, <1>9 DEF Core, TypeOK, RunTypes
<1>11. IdsKept BY <1>2 DEF IdsKept
<1>. QED BY <1>6, <1>10, <1>11, CoreKept

\* The completion of the semaphores keeps it.
LEMMA CompleteCore ==
    ASSUME Core, NEW t \in Threads, Complete(t)
    PROVE  Core' /\ IdsKept
<1>. DEFINE s == Info(t)   Signal(o) == CHOOSE n \in DOMAIN s.signals : s.signals[n][1] = o
<1>1. /\ run[t].kind = "submit" /\ Doing(t).op # "end" /\ Onward(t, <<>>)
      /\ obj' = [o \in Objects |->
                IF \E n \in DOMAIN s.signals : s.signals[n][1] = o
                THEN IF o \in Timelines
                     THEN [obj[o] EXCEPT !.value = IF @ < s.signals[Signal(o)][2]
                                                   THEN s.signals[Signal(o)][2] ELSE @]
                     ELSE [obj[o] EXCEPT !.signaled = TRUE]
                ELSE IF o \in Binaries \cap Waited(s)
                     THEN [obj[o] EXCEPT !.signaled = FALSE] ELSE obj[o]]
      /\ truth' = truth \/ truth' = Raised(s)
      /\ UNCHANGED <<generation, fenceReg, semReg, eventReg, busy, tainted, promised,
                     device, restarts, crashes>>
  BY DEF Complete, In, Quiet
<1>2. run' \in [Threads -> RunTypes] /\ CallsKept
  <2>1. <<>> \in Seq(OpKinds) OBVIOUS
  <2>. HIDE DEF s
  <2>. QED BY <1>1, <2>1, OnwardKeeps DEF RunTypes
<1>3. \A n \in DOMAIN s.signals : s.signals[n][2] \in Nat BY <1>1, InfoFacts
<1>4. truth' \in [Sems \cup Events -> Nat] BY <1>1, Types, RaisedType
<1>. HIDE DEF s
<1>5. ASSUME NEW o \in Objects
      PROVE  \/ obj'[o] = obj[o]
             \/ \E b \in BOOLEAN : obj'[o] = [obj[o] EXCEPT !.signaled = b]
             \/ \E v \in Nat : obj'[o] = [obj[o] EXCEPT !.value = v]
  <2>1. CASE \E n \in DOMAIN s.signals : s.signals[n][1] = o
    <3>. DEFINE v == s.signals[Signal(o)][2]
    <3>1. v \in Nat BY <1>3, <2>1
    <3>2. obj[o].value \in Nat /\ obj[o] \in Cells BY Types DEF Cells
    <3>3. \/ obj'[o] = [obj[o] EXCEPT !.value = IF @ < v THEN v ELSE @]
          \/ obj'[o] = [obj[o] EXCEPT !.signaled = TRUE]
          BY <1>1, <2>1
    <3>. HIDE DEF v
    <3>4. [obj[o] EXCEPT !.value = IF @ < v THEN v ELSE @] \in {obj[o], [obj[o] EXCEPT !.value = v]}
          BY <3>2 DEF Cells
    <3>. QED BY <3>1, <3>3, <3>4
  <2>2. CASE ~\E n \in DOMAIN s.signals : s.signals[n][1] = o
    <3>1. obj'[o] = obj[o] \/ obj'[o] = [obj[o] EXCEPT !.signaled = FALSE] BY <1>1, <2>2
    <3>. QED BY <3>1
  <2>. QED BY <2>1, <2>2
<1>6. DOMAIN obj' = Objects /\ obj' = [o \in Objects |-> obj'[o]] BY <1>1
<1>7. obj' \in [Objects -> Cells] /\ \A o \in Objects : obj'[o].id = obj[o].id
      BY <1>5, <1>6, CopyChanges
<1>8. TypeOK' BY <1>1, <1>2, <1>4, <1>7 DEF Core, TypeOK, RunTypes
<1>9. IdsKept BY <1>1, <1>7 DEF IdsKept
<1>. QED BY <1>2, <1>8, <1>9, CoreKept

\* The return of the call keeps it.
LEMMA SubmitEndCore ==
    ASSUME Core, NEW t \in Threads, SubmitEnd(t)
    PROVE  Core' /\ IdsKept
<1>. DEFINE c == run[t].call
<1>1. /\ obj' = [o \in Objects |-> IF o = c.fence THEN [obj[o] EXCEPT !.signaled = TRUE] ELSE obj[o]]
      /\ promised' = [f \in Fences |-> IF f # c.fence THEN promised[f]
                                           ELSE IF Carried(c) THEN "carried" ELSE "local"]
      /\ Leave(t)
      /\ UNCHANGED <<generation, fenceReg, semReg, eventReg, busy, truth, tainted, device, restarts, crashes>>
  BY DEF SubmitEnd, Quiet
<1>2. run' \in [Threads -> RunTypes] /\ CallsKept BY <1>1, LeaveKeeps DEF RunTypes
<1>3. obj' \in [Objects -> Cells] /\ \A o \in Objects : obj'[o].id = obj[o].id
  <2>1. DOMAIN obj' = Objects /\ obj' = [o \in Objects |-> obj'[o]] BY <1>1
  <2>2. \A o \in Objects : obj'[o] = obj[o] \/ obj'[o] = [obj[o] EXCEPT !.signaled = TRUE] BY <1>1
  <2>. QED BY <2>1, <2>2, CopyChanges
<1>4. promised' \in [Fences -> {"no", "local", "carried"}]
  <2>1. promised \in [Fences -> {"no", "local", "carried"}] BY Types
  <2>. QED BY <1>1, <2>1
<1>5. TypeOK' BY <1>1, <1>2, <1>3, <1>4 DEF Core, TypeOK, RunTypes
<1>6. IdsKept BY <1>1, <1>3 DEF IdsKept
<1>. QED BY <1>2, <1>5, <1>6, CoreKept

----------------------------------------------------------------------------
\* The control is kept by every step.
LEMMA CoreInit == Init => Core
<1>. SUFFICES ASSUME Init PROVE Core OBVIOUS
<1>1. /\ obj = [o \in Objects |-> Dead] /\ generation = 0
      /\ fenceReg = <<>> /\ semReg = <<>> /\ eventReg = <<>> /\ device = <<>> /\ busy = Free
      /\ run = [t \in Threads |-> Idle] /\ restarts = 0 /\ crashes = 0
      /\ truth = [o \in Sems \cup Events |-> 0] /\ tainted = {} /\ promised = [f \in Fences |-> "no"]
  BY DEF Init
<1>2. obj \in [Objects -> Cells] BY <1>1 DEF Dead, Cells
<1>3. device \in Seq(Seq(Held)) BY <1>1
<1>4. TypeOK BY <1>1, <1>2, <1>3, EmptyRegistry DEF TypeOK
<1>5. IdsApart BY <1>1 DEF IdsApart, Live, Id, Dead
<1>6. \A t \in Threads : run[t].kind # "submit" BY <1>1 DEF Idle
<1>. QED BY <1>4, <1>5, <1>6 DEF Core, Running, OneAtATime, UsedLive

\* Core in the next state from Core when nothing changes
LEMMA CoreStutters == Core /\ UNCHANGED vars => Core'
BY DEF Core, TypeOK, Running, OneAtATime, UsedLive, IdsApart, vars, Id, Live

\* A step is of one of these kinds.
LEMMA NextSplits == Next => Creates \/ Destroys \/ HostCalls \/ WaitCalls \/ SubmitCalls
                            \/ DeviceRuns \/ Restart \/ Crash
<1>. SUFFICES ASSUME Next PROVE Creates \/ Destroys \/ HostCalls \/ WaitCalls \/ SubmitCalls
                                \/ DeviceRuns \/ Restart \/ Crash
     OBVIOUS
<1>1. ASSUME NEW t \in Threads, Host(t) PROVE Creates \/ Destroys \/ HostCalls \/ WaitCalls
  <2>1. CASE \E f \in Fences, b \in BOOLEAN : CreateFence(t, f, b) BY <2>1 DEF Creates
  <2>2. CASE \E s \in Sems : CreateSem(t, s, 0) BY <2>2 DEF Creates
  <2>3. CASE \E e \in Events : CreateEvent(t, e) BY <2>3 DEF Creates
  <2>4. CASE \E o \in Objects : Destroy(t, o) BY <2>4 DEF Destroys
  <2>5. CASE \E f \in Fences : ResetFence(t, f) BY <2>5 DEF HostCalls
  <2>6. CASE \E f \in Fences : FenceStatus(t, f) BY <2>6 DEF HostCalls
  <2>7. CASE \E s \in Timelines : SemCounter(t, s) BY <2>7 DEF HostCalls
  <2>8. CASE \E s \in Timelines, v \in 1..MaxValue : SignalSem(t, s, v) BY <2>8 DEF HostCalls
  <2>9. CASE \E e \in Events, on \in BOOLEAN : WriteEvent(t, e, on) BY <2>9 DEF HostCalls
  <2>10. CASE \E e \in Events : EventStatus(t, e) BY <2>10 DEF HostCalls
  <2>11. CASE \E S \in SUBSET Fences \ {{}}, mode \in {"all", "any"} : WaitFences(t, S, mode)
    BY <2>11 DEF WaitCalls
  <2>12. CASE \E S \in SUBSET Timelines \ {{}}, mode \in {"all", "any"}, v \in 1..MaxValue :
                 WaitSems(t, S, mode, v)
    BY <2>12 DEF WaitCalls
  <2>13. CASE PollFences(t) BY <2>13 DEF WaitCalls
  <2>. QED BY <1>1, <2>1, <2>2, <2>3, <2>4, <2>5, <2>6, <2>7, <2>8, <2>9, <2>10, <2>11, <2>12, <2>13
           DEF Host
<1>2. ASSUME NEW t \in Threads, Submit(t) PROVE SubmitCalls BY <1>2 DEF Submit, SubmitCalls
<1>3. WaitEnds => WaitCalls BY DEF WaitCalls
<1>. QED BY <1>1, <1>2, <1>3 DEF Next

\* Host calls on one object keep the core invariant and every id.
LEMMA HostCallsCore == Core /\ HostCalls => Core' /\ IdsKept
BY ResetFenceCore, FenceStatusCore, SemCounterCore, SignalSemCore, WriteEventCore, EventStatusCore
   DEF HostCalls

\* So do waits.
LEMMA WaitCallsCore == Core /\ WaitCalls => Core' /\ IdsKept
BY WaitFencesCore, WaitSemsCore, PollFencesCore, WaitEndsCore DEF WaitCalls

\* So do the steps of submissions.
LEMMA SubmitCallsCore == Core /\ SubmitCalls => Core' /\ IdsKept
BY SubmitBeginCore, ValidateCore, RefuseCore, HostOpCore, DispatchCore, FrameCore, CompleteCore, SubmitEndCore
   DEF SubmitCalls

\* Creations keep the core invariant.
LEMMA CreatesCore == Core /\ Creates => Core'
BY CreateFenceCore, CreateSemCore, CreateEventCore DEF Creates

\* Every step keeps the core invariant.
LEMMA CoreNext == Core /\ [Next]_vars => Core'
<1>. SUFFICES ASSUME Core, [Next]_vars PROVE Core' OBVIOUS
<1>1. CASE UNCHANGED vars BY <1>1, CoreStutters
<1>2. CASE Destroys BY <1>2, DestroyCore DEF Destroys
<1>3. CASE Creates BY <1>3, CreatesCore
<1>4. CASE HostCalls BY <1>4, HostCallsCore
<1>5. CASE WaitCalls BY <1>5, WaitCallsCore
<1>6. CASE SubmitCalls BY <1>6, SubmitCallsCore
<1>7. CASE DeviceRuns BY <1>7, DeviceRunsCore
<1>8. CASE Restart BY <1>8, RestartCore
<1>9. CASE Crash BY <1>9, CrashCore
<1>. QED BY <1>1, <1>2, <1>3, <1>4, <1>5, <1>6, <1>7, <1>8, <1>9, NextSplits

\* The control, in every reachable state: a call that runs is at a step of its
\* own program, one call at a time is submitting, what it uses is alive, and no
\* two live objects of a process have the same id.
THEOREM CoreAlways == Spec => []Core
<1>1. Init => Core BY CoreInit
<1>2. Core /\ [Next]_vars => Core' BY CoreNext
<1>. QED BY <1>1, <1>2, PTL DEF Spec

----------------------------------------------------------------------------
\* Slots: which entries the steps make and drop

\* Host calls add no entry to a registry and take none away.
LEMMA HostCallsDomains == Core /\ HostCalls => DomainsKept
<1>. SUFFICES ASSUME Core, HostCalls PROVE DomainsKept OBVIOUS
<1>1. ASSUME NEW t \in Threads, NEW f \in Fences, ResetFence(t, f) PROVE DomainsKept
  BY <1>1 DEF ResetFence, Quiet, Put, DomainsKept
<1>2. ASSUME NEW t \in Threads, NEW f \in Fences, FenceStatus(t, f) PROVE DomainsKept
  BY <1>2 DEF FenceStatus, Quiet, DomainsKept
<1>3. ASSUME NEW t \in Threads, NEW s \in Timelines, SemCounter(t, s) PROVE DomainsKept
  <2>1. DOMAIN [semReg EXCEPT ![Id(s)].last = SemCount(s)] = DOMAIN semReg OBVIOUS
  <2>. QED BY <1>3, <2>1 DEF SemCounter, Quiet, DomainsKept
<1>4. ASSUME NEW t \in Threads, NEW s \in Timelines, NEW v \in 1..MaxValue, SignalSem(t, s, v)
      PROVE  DomainsKept
  <2>1. DOMAIN [semReg EXCEPT ![Id(s)].count = v, ![Id(s)].last = v] = DOMAIN semReg OBVIOUS
  <2>. QED BY <1>4, <2>1 DEF SignalSem, Quiet, DomainsKept
<1>5. ASSUME NEW t \in Threads, NEW e \in Events, NEW on \in BOOLEAN, WriteEvent(t, e, on)
      PROVE  DomainsKept
  BY <1>5 DEF WriteEvent, Quiet, Put, DomainsKept
<1>6. ASSUME NEW t \in Threads, NEW e \in Events, EventStatus(t, e) PROVE DomainsKept
  BY <1>6 DEF EventStatus, Quiet, DomainsKept
<1>. QED BY <1>1, <1>2, <1>3, <1>4, <1>5, <1>6 DEF HostCalls

\* Neither do waits.
LEMMA WaitCallsDomains == Core /\ WaitCalls => DomainsKept /\ fenceReg' = fenceReg
<1>. SUFFICES ASSUME Core, WaitCalls PROVE DomainsKept /\ fenceReg' = fenceReg OBVIOUS
<1>1. \A ids : DOMAIN AfterSemWaitReg(ids) = DOMAIN semReg BY DEF AfterSemWaitReg
<1>2. ASSUME NEW t \in Threads, NEW S \in SUBSET Fences, NEW mode \in {"all", "any"},
             WaitFences(t, S, mode)
      PROVE  DomainsKept /\ fenceReg' = fenceReg
  BY <1>2 DEF WaitFences, Quiet, DomainsKept
<1>3. ASSUME NEW t \in Threads, NEW S \in SUBSET Timelines, NEW mode \in {"all", "any"},
             NEW v \in 1..MaxValue, WaitSems(t, S, mode, v)
      PROVE  DomainsKept /\ fenceReg' = fenceReg
  BY <1>1, <1>3 DEF WaitSems, Quiet, DomainsKept
<1>4. ASSUME NEW t \in Threads, PollFences(t) PROVE DomainsKept /\ fenceReg' = fenceReg
  BY <1>4 DEF PollFences, Quiet, DomainsKept
<1>5. ASSUME WaitEnds PROVE DomainsKept /\ fenceReg' = fenceReg
  BY <1>1, <1>5 DEF WaitEnds, Quiet, DomainsKept
<1>. QED BY <1>2, <1>3, <1>4, <1>5 DEF WaitCalls

\* Of the steps of a submission only a frame touches the registries.
LEMMA SubmitCallsKeep ==
    ASSUME SubmitCalls
    PROVE  UNCHANGED Registries \/ \E t \in Threads : Frame(t)
<1>1. PICK t \in Threads : \/ \E c \in Calls : SubmitBegin(t, c)
                           \/ Validate(t) \/ Refuse(t) \/ HostOp(t) \/ Dispatch(t)
                           \/ Frame(t) \/ Complete(t) \/ SubmitEnd(t)
      BY DEF SubmitCalls
<1>2. ASSUME NEW c \in Calls, SubmitBegin(t, c) PROVE UNCHANGED Registries
      BY <1>2 DEF SubmitBegin, Quiet, Registries
<1>3. Validate(t) => UNCHANGED Registries BY DEF Validate, Quiet, Registries
<1>4. Refuse(t) => UNCHANGED Registries BY DEF Refuse, Quiet, Registries
<1>5. HostOp(t) => UNCHANGED Registries BY DEF HostOp, Quiet, Registries
<1>6. Dispatch(t) => UNCHANGED Registries BY DEF Dispatch, Quiet, Registries
<1>7. Complete(t) => UNCHANGED Registries BY DEF Complete, Quiet, Registries
<1>8. SubmitEnd(t) => UNCHANGED Registries BY DEF SubmitEnd, Quiet, Registries
<1>. QED BY <1>1, <1>2, <1>3, <1>4, <1>5, <1>6, <1>7, <1>8

\* The objects a frame names are alive and of the right kind.
LEMMA FrameObjects ==
    ASSUME Core, NEW t \in Threads, Frame(t), NEW e \in Els(Doing(t).what.entries)
    PROVE  /\ e \in EntryType /\ e.obj \in Objects /\ Live(e.obj) /\ e.obj \in UsedBy(run[t].call)
           /\ e.type = "fence" => e.obj \in Fences /\ e.obj = run[t].call.fence
           /\ e.type # "fence" => e.obj \in Sems
<1>1. /\ run[t].kind = "submit" /\ Doing(t).op = "frame" /\ run[t].call \in Calls
      /\ run[t].pc \in 1..Len(Program(run[t].call)) /\ Doing(t) = Program(run[t].call)[run[t].pc]
  BY FrameForm, SMTT(40)
<1>2. /\ e \in EntryType /\ e.obj \in UsedBy(run[t].call)
      /\ e.type = "fence" => e.obj \in Fences /\ e.obj = run[t].call.fence
      /\ e.type # "fence" => e.obj \in Sems
  BY <1>1, StepEntries
<1>3. e.obj # None BY <1>2, NameAssumption DEF Objects, Sems
<1>4. e.obj \in Objects /\ Live(e.obj) BY <1>1, <1>2, <1>3 DEF Core, UsedLive
<1>. QED BY <1>2, <1>4

\* The entries a frame adds to the registries are those of live objects.
LEMMA FrameDomains ==
    ASSUME Core, NEW t \in Threads, Frame(t)
    PROVE  /\ \A id \in DOMAIN fenceReg' \ DOMAIN fenceReg : \E f \in Fences : Live(f) /\ id = Id(f)
           /\ \A id \in DOMAIN semReg' \ DOMAIN semReg : \E s \in Sems : Live(s) /\ id = Id(s)
           /\ eventReg' = eventReg /\ crashes' = crashes
<1>. DEFINE en == Doing(t).what.entries   es == WithIds(en)
            rf == ResolvedFences(es)   rs == ResolvedSems(es)
<1>1. en \in Seq(EntryType) /\ es \in Seq(Held) BY FrameForm
<1>2. /\ fenceReg' \in {fenceReg, rf, SignaledFences(rf, es)}
      /\ semReg' \in {semReg, rs, SignaledSems(rs, es)}
      /\ eventReg' = eventReg /\ crashes' = crashes
  <2>. HIDE DEF es
  <2>. QED BY DEF Frame, es
<1>3. /\ DOMAIN rf = DOMAIN fenceReg \cup IdsOf(OfType(es, "fence"))
      /\ DOMAIN rs = DOMAIN semReg \cup Made(es) /\ Made(es) \subseteq IdsOf(OfType(es, "signal"))
      BY <1>1, ResolvedFacts
<1>4. DOMAIN SignaledFences(rf, es) = DOMAIN rf /\ DOMAIN SignaledSems(rs, es) = DOMAIN rs
      BY DEF SignaledFences, SignaledSems
<1>5. \A ty : IdsOf(OfType(es, ty)) = {Id(e.obj) : e \in {x \in Els(en) : x.type = ty}}
      BY <1>1, WithIdsFacts DEF Core
<1>6. \A id \in IdsOf(OfType(es, "fence")) : \E f \in Fences : Live(f) /\ id = Id(f)
  <2>1. \A e \in Els(en) : e.type = "fence" => e.obj \in Fences /\ Live(e.obj) BY FrameObjects
  <2>. HIDE DEF en, es
  <2>. QED BY <1>5, <2>1
<1>7. \A id \in IdsOf(OfType(es, "signal")) : \E s \in Sems : Live(s) /\ id = Id(s)
  <2>1. \A e \in Els(en) : e.type = "signal" => e.obj \in Sems /\ Live(e.obj) BY FrameObjects
  <2>. HIDE DEF en, es
  <2>. QED BY <1>5, <2>1
<1>. HIDE DEF es, rf, rs
<1>. QED BY <1>2, <1>3, <1>4, <1>6, <1>7

\* The entries are the ones of live objects.
LEMMA OwnedKept ==
    ASSUME EntriesAreOwned, crashes' = crashes, \A o \in Objects : Live(o) => Live(o)' /\ Id(o)' = Id(o),
           \A id \in DOMAIN fenceReg' \ DOMAIN fenceReg : \E f \in Fences : Live(f)' /\ id = Id(f)',
           \A id \in DOMAIN semReg' \ DOMAIN semReg : \E s \in Sems : Live(s)' /\ id = Id(s)',
           \A id \in DOMAIN eventReg' \ DOMAIN eventReg : \E e \in Events : Live(e)' /\ id = Id(e)'
    PROVE  EntriesAreOwned'
<1>. SUFFICES ASSUME crashes' = 0
              PROVE  /\ \A id \in DOMAIN fenceReg' : \E f \in Fences : Live(f)' /\ id = Id(f)'
                     /\ \A id \in DOMAIN semReg' : \E s \in Sems : Live(s)' /\ id = Id(s)'
                     /\ \A id \in DOMAIN eventReg' : \E e \in Events : Live(e)' /\ id = Id(e)'
     BY DEF EntriesAreOwned
<1>1. /\ \A id \in DOMAIN fenceReg : \E f \in Fences : Live(f) /\ id = Id(f)
      /\ \A id \in DOMAIN semReg : \E s \in Sems : Live(s) /\ id = Id(s)
      /\ \A id \in DOMAIN eventReg : \E e \in Events : Live(e) /\ id = Id(e)
  BY DEF EntriesAreOwned
<1>2. /\ \A f \in Fences : Live(f) => Live(f)' /\ Id(f)' = Id(f)
      /\ \A s \in Sems : Live(s) => Live(s)' /\ Id(s)' = Id(s)
      /\ \A e \in Events : Live(e) => Live(e)' /\ Id(e)' = Id(e)
  BY DEF Objects, Sems
<1>. QED BY <1>1, <1>2

\* A creation makes an entry together with its live object.
LEMMA CreatesOwned == Core /\ EntriesAreOwned /\ Creates => EntriesAreOwned'
<1>. SUFFICES ASSUME Core, EntriesAreOwned, Creates PROVE EntriesAreOwned' OBVIOUS
<1>. DEFINE id == generation + 1
<1>1. generation \in Nat /\ id # 0 /\ obj \in [Objects -> Cells] BY Types
<1>2. ASSUME NEW o \in Objects, NEW cell, cell.id = id, ~Live(o), obj' = obj \/ obj' = [obj EXCEPT ![o] = cell]
      PROVE  /\ \A x \in Objects : Live(x) => Live(x)' /\ Id(x)' = Id(x)
             /\ obj' = [obj EXCEPT ![o] = cell] => Live(o)' /\ Id(o)' = id
  BY <1>1, <1>2 DEF Live, Id
<1>. HIDE DEF id
<1>3. ASSUME NEW t \in Threads, NEW f \in Fences, NEW b \in BOOLEAN, CreateFence(t, f, b)
      PROVE  EntriesAreOwned'
  <2>. DEFINE cell == [id |-> id, signaled |-> b, value |-> 0]
  <2>1. /\ \/ UNCHANGED <<obj, fenceReg>>
           \/ obj' = [obj EXCEPT ![f] = cell] /\ DOMAIN fenceReg' \subseteq DOMAIN fenceReg \cup {id}
        /\ UNCHANGED <<semReg, eventReg, crashes>> /\ ~Live(f)
    BY <1>3 DEF CreateFence, Put, Quiet, NextToCreate, id
  <2>2. cell.id = id /\ f \in Objects BY DEF Objects
  <2>. HIDE DEF cell
  <2>. QED BY <1>2, <2>1, <2>2, OwnedKept
<1>4. ASSUME NEW t \in Threads, NEW s \in Sems, CreateSem(t, s, 0)
      PROVE  EntriesAreOwned'
  <2>. DEFINE cell == [id |-> id, signaled |-> FALSE,
                       value |-> IF s \in Timelines THEN semReg'[id].last ELSE 0]
              new == NewSem(s \in Timelines, 0)
  <2>1. /\ \/ UNCHANGED <<obj, semReg>>
           \/ /\ obj' = [obj EXCEPT ![s] = cell]
              /\ semReg' = IF id \in DOMAIN semReg THEN semReg ELSE Put(semReg, id, new)
        /\ UNCHANGED <<fenceReg, eventReg, crashes>> /\ ~Live(s)
    BY <1>4 DEF CreateSem, Quiet, NextToCreate, id
  <2>2. cell.id = id /\ s \in Objects BY DEF Objects, Sems
  <2>. HIDE DEF cell, new
  <2>3. DOMAIN Put(semReg, id, new) = DOMAIN semReg \cup {id} BY DEF Put
  <2>4. UNCHANGED <<obj, semReg>>
        \/ (obj' = [obj EXCEPT ![s] = cell] /\ DOMAIN semReg' \subseteq DOMAIN semReg \cup {id})
        BY <2>1, <2>3
  <2>. QED BY <1>2, <2>1, <2>2, <2>4, OwnedKept
<1>5. ASSUME NEW t \in Threads, NEW e \in Events, CreateEvent(t, e)
      PROVE  EntriesAreOwned'
  <2>. DEFINE cell == [id |-> id, signaled |-> eventReg'[id], value |-> 0]
  <2>1. /\ \/ UNCHANGED <<obj, eventReg>>
           \/ /\ obj' = [obj EXCEPT ![e] = cell]
              /\ eventReg' = IF id \in DOMAIN eventReg THEN eventReg ELSE Put(eventReg, id, FALSE)
        /\ UNCHANGED <<fenceReg, semReg, crashes>> /\ ~Live(e)
    BY <1>5 DEF CreateEvent, Quiet, NextToCreate, id
  <2>2. cell.id = id /\ e \in Objects BY DEF Objects
  <2>. HIDE DEF cell
  <2>3. DOMAIN Put(eventReg, id, FALSE) = DOMAIN eventReg \cup {id} BY DEF Put
  <2>4. UNCHANGED <<obj, eventReg>>
        \/ (obj' = [obj EXCEPT ![e] = cell] /\ DOMAIN eventReg' \subseteq DOMAIN eventReg \cup {id})
        BY <2>1, <2>3
  <2>. QED BY <1>2, <2>1, <2>2, <2>4, OwnedKept
<1>. QED BY <1>3, <1>4, <1>5 DEF Creates

\* A destruction takes the entry away together with the object.
LEMMA DestroysOwned ==
    ASSUME Core, EntriesAreOwned, NEW t \in Threads, NEW o \in Objects, Destroy(t, o)
    PROVE  EntriesAreOwned'
<1>1. /\ DOMAIN fenceReg' = IF o \in Fences THEN DOMAIN fenceReg \ {Id(o)} ELSE DOMAIN fenceReg
      /\ DOMAIN semReg' = IF o \in Sems THEN DOMAIN semReg \ {Id(o)} ELSE DOMAIN semReg
      /\ DOMAIN eventReg' = IF o \in Events THEN DOMAIN eventReg \ {Id(o)} ELSE DOMAIN eventReg
      /\ crashes' = crashes /\ obj' = [obj EXCEPT ![o] = Dead]
  BY DEF Destroy, Cut
<1>2. \A x \in Objects \ {o} : Live(x)' = Live(x) /\ Id(x)' = Id(x)
  <2>1. obj \in [Objects -> Cells] BY Types
  <2>. QED BY <1>1, <2>1 DEF Live, Id
<1>3. SUFFICES ASSUME crashes = 0
               PROVE  /\ \A id \in DOMAIN fenceReg' : \E f \in Fences : Live(f)' /\ id = Id(f)'
                      /\ \A id \in DOMAIN semReg' : \E s \in Sems : Live(s)' /\ id = Id(s)'
                      /\ \A id \in DOMAIN eventReg' : \E e \in Events : Live(e)' /\ id = Id(e)'
      BY <1>1 DEF EntriesAreOwned
<1>4. /\ \A id \in DOMAIN fenceReg : \E f \in Fences : Live(f) /\ id = Id(f)
      /\ \A id \in DOMAIN semReg : \E s \in Sems : Live(s) /\ id = Id(s)
      /\ \A id \in DOMAIN eventReg : \E e \in Events : Live(e) /\ id = Id(e)
  BY <1>3 DEF EntriesAreOwned
<1>5. Fences \cup Sems \cup Events \subseteq Objects BY DEF Objects, Sems
<1>. QED BY <1>1, <1>2, <1>4, <1>5

\* No entry of the executor outlives its object while no client has died: an
\* entry is made by the creation of an object or by a frame that uses it, and
\* dropped with it.
THEOREM NothingLeaks == Spec => []EntriesAreOwned
<1>1. Init => EntriesAreOwned BY DEF Init, EntriesAreOwned
<1>2. Core /\ EntriesAreOwned /\ [Next]_vars => EntriesAreOwned'
  <2>. SUFFICES ASSUME Core, EntriesAreOwned, [Next]_vars PROVE EntriesAreOwned' OBVIOUS
  <2>a. ASSUME IdsKept, DomainsKept PROVE EntriesAreOwned'
    <3>1. \A o \in Objects : Live(o) => Live(o)' /\ Id(o)' = Id(o) BY <2>a DEF IdsKept, Live, Id
    <3>. QED BY <2>a, <3>1, OwnedKept DEF DomainsKept
  <2>1. CASE UNCHANGED vars BY <2>1 DEF EntriesAreOwned, vars, Live, Id
  <2>2. CASE Creates BY <2>2, CreatesOwned
  <2>3. CASE Destroys BY <2>3, DestroysOwned DEF Destroys
  <2>4. CASE HostCalls BY <2>4, <2>a, HostCallsCore, HostCallsDomains
  <2>5. CASE WaitCalls BY <2>5, <2>a, WaitCallsCore, WaitCallsDomains
  <2>6. CASE SubmitCalls
    <3>1. IdsKept BY <2>6, SubmitCallsCore
    <3>2. CASE UNCHANGED Registries BY <2>a, <3>1, <3>2 DEF Registries, DomainsKept
    <3>3. ASSUME NEW t \in Threads, Frame(t) PROVE EntriesAreOwned'
      <4>1. \A o \in Objects : Live(o) = Live(o)' /\ Id(o)' = Id(o) BY <3>1 DEF IdsKept, Live, Id
      <4>2. /\ \A f \in Fences : Live(f) = Live(f)' /\ Id(f)' = Id(f)
            /\ \A f \in Sems : Live(f) = Live(f)' /\ Id(f)' = Id(f)
            BY <4>1 DEF Objects, Sems
      <4>3. /\ \A id \in DOMAIN fenceReg' \ DOMAIN fenceReg : \E f \in Fences : Live(f) /\ id = Id(f)
            /\ \A id \in DOMAIN semReg' \ DOMAIN semReg : \E s \in Sems : Live(s) /\ id = Id(s)
            /\ eventReg' = eventReg /\ crashes' = crashes
            BY <3>3, FrameDomains
      <4>. QED BY <4>1, <4>2, <4>3, OwnedKept
    <3>. QED BY <2>6, <3>2, <3>3, SubmitCallsKeep
  <2>7. CASE DeviceRuns
    <3>1. DomainsKept BY <2>7 DEF DeviceRuns, DomainsKept, SignaledFences, SignaledSems
    <3>. QED BY <2>7, <2>a, <3>1, DeviceRunsCore
  <2>8. CASE Restart BY <2>8 DEF Restart, EntriesAreOwned
  <2>9. CASE Crash
    <3>1. crashes' = crashes + 1 /\ crashes \in Nat BY <2>9 DEF Crash, Core, TypeOK
    <3>. QED BY <3>1 DEF EntriesAreOwned
  <2>. QED BY <2>1, <2>2, <2>3, <2>4, <2>5, <2>6, <2>7, <2>8, <2>9, NextSplits
<1>. QED BY <1>1, <1>2, CoreAlways, PTL DEF Spec

----------------------------------------------------------------------------
\* Fences: what a step leaves of the fence f, in the executor and in its copy

\* A step that writes at most another fence leaves this one alone.
LEMMA StillFrom ==
    ASSUME Core, NEW f \in Fences, Live(f), obj'[f].id = obj[f].id, promised'[f] = promised[f],
           f \in tainted => f \in tainted',
           obj'[f].signaled = obj[f].signaled \/ obj'[f].signaled = FencePayload(f),
           fenceReg' = fenceReg
                \/ (\E id \in Nat \ {Id(f)}, v \in BOOLEAN : fenceReg' = Put(fenceReg, id, v) \/ fenceReg' = Cut(fenceReg, id))
    PROVE  Still(f)
<1>1. Id(f)' = Id(f) /\ Live(f)' BY DEF Id, Live
<1>2. /\ (Id(f) \in DOMAIN fenceReg') = (Id(f) \in DOMAIN fenceReg)
      /\ Id(f) \in DOMAIN fenceReg => fenceReg'[Id(f)] = fenceReg[Id(f)]
  <2>1. CASE fenceReg' = fenceReg BY <2>1
  <2>2. ASSUME NEW id \in Nat \ {Id(f)}, NEW v \in BOOLEAN, fenceReg' = Put(fenceReg, id, v)
        PROVE  /\ (Id(f) \in DOMAIN fenceReg') = (Id(f) \in DOMAIN fenceReg)
               /\ Id(f) \in DOMAIN fenceReg => fenceReg'[Id(f)] = fenceReg[Id(f)]
    BY <2>2 DEF Put
  <2>3. ASSUME NEW id \in Nat \ {Id(f)}, fenceReg' = Cut(fenceReg, id)
        PROVE  /\ (Id(f) \in DOMAIN fenceReg') = (Id(f) \in DOMAIN fenceReg)
               /\ Id(f) \in DOMAIN fenceReg => fenceReg'[Id(f)] = fenceReg[Id(f)]
    BY <2>3 DEF Cut
  <2>. QED BY <2>1, <2>2, <2>3
<1>3. FencePayload(f)' = FencePayload(f)
  <2>1. FencePayload(f)' = (Id(f) \in DOMAIN fenceReg' /\ fenceReg'[Id(f)]) BY <1>1 DEF FencePayload
  <2>2. FencePayload(f) = (Id(f) \in DOMAIN fenceReg /\ fenceReg[Id(f)]) BY DEF FencePayload
  <2>3. CASE Id(f) \in DOMAIN fenceReg BY <1>2, <2>1, <2>2, <2>3
  <2>4. CASE Id(f) \notin DOMAIN fenceReg BY <1>2, <2>1, <2>2, <2>4
  <2>. QED BY <2>3, <2>4
<1>4. (Id(f) \in DOMAIN fenceReg') = (Id(f) \in DOMAIN fenceReg) BY <1>2
<1>. HIDE DEF FencePayload
<1>. QED BY <1>1, <1>3, <1>4, Zenon DEF Still

\* A step that leaves the calls alone leaves them where they were.
LEMMA SameRunStill == run' = run => CallsStill
BY DEF CallsStill

\* A creation leaves the other fences alone; a new fence has no promise, and is
\* tainted when its id was there before.
LEMMA CreatesStill ==
    ASSUME Core, Creates
    PROVE  /\ AllStill /\ CallsStill
           /\ \A f \in Fences : Live(f)' => Live(f) \/ promised'[f] = "no"
           /\ \A f \in Fences : Live(f)' /\ ~Live(f) /\ Id(f)' \in DOMAIN fenceReg => f \in tainted'
           /\ DOMAIN fenceReg \subseteq DOMAIN fenceReg' /\ device' = device
<1>. DEFINE Goal == /\ AllStill /\ CallsStill
                    /\ \A f \in Fences : Live(f)' => Live(f) \/ promised'[f] = "no"
                    /\ \A f \in Fences : Live(f)' /\ ~Live(f) /\ Id(f)' \in DOMAIN fenceReg => f \in tainted'
                    /\ DOMAIN fenceReg \subseteq DOMAIN fenceReg' /\ device' = device
<1>. DEFINE id == generation + 1
<1>1. generation \in Nat /\ id \in Nat /\ obj \in [Objects -> Cells]
      /\ (\A o \in Objects : Id(o) # id) /\ promised \in [Fences -> {"no", "local", "carried"}]
      BY Types
<1>. HIDE DEF id
<1>2. ASSUME NEW t \in Threads, NEW g \in Fences, NEW b \in BOOLEAN, CreateFence(t, g, b) PROVE Goal
  <2>. DEFINE cell == [id |-> id, signaled |-> b, value |-> 0]   known == id \in DOMAIN fenceReg
  <2>1. /\ ~Live(g) /\ UNCHANGED <<run, device>>
        /\ \/ UNCHANGED <<obj, fenceReg, tainted, promised>>
           \/ /\ fenceReg' = IF known THEN fenceReg ELSE Put(fenceReg, id, b)
              /\ obj' = [obj EXCEPT ![g] = cell]
              /\ tainted' = IF known THEN tainted \cup {g} ELSE tainted \ {g}
              /\ promised' = [promised EXCEPT ![g] = "no"]
    BY <1>2 DEF CreateFence, NextToCreate, Quiet, id
  <2>2. cell.id = id /\ g \in Objects BY DEF Objects
  <2>. HIDE DEF cell
  <2>3. ASSUME NEW f \in Fences, Live(f) PROVE Still(f)
    <3>1. f # g /\ f \in Objects BY <2>1, <2>3 DEF Objects
    <3>2. obj'[f] = obj[f] /\ promised'[f] = promised[f] /\ (f \in tainted => f \in tainted')
          BY <1>1, <2>1, <2>2, <3>1
    <3>3. id \in Nat \ {Id(f)} /\ b \in BOOLEAN BY <1>1, <3>1
    <3>4. fenceReg' = fenceReg \/ fenceReg' = Put(fenceReg, id, b) BY <2>1
    <3>. QED BY <2>3, <3>2, <3>3, <3>4, StillFrom
  <2>4. \A f \in Fences : Live(f)' => Live(f) \/ promised'[f] = "no"
    BY <1>1, <2>1, <2>2 DEF Live, Id, Objects
  <2>5. ASSUME NEW f \in Fences, Live(f)', ~Live(f), Id(f)' \in DOMAIN fenceReg PROVE f \in tainted'
    <3>1. obj'[f] # obj[f] BY <2>5 DEF Live
    <3>2. f = g /\ Id(f)' = id BY <1>1, <2>1, <2>2, <3>1 DEF Id, Objects
    <3>. QED BY <2>1, <2>5, <3>1, <3>2
  <2>6. DOMAIN fenceReg \subseteq DOMAIN fenceReg' BY <2>1 DEF Put
  <2>. QED BY <2>1, <2>3, <2>4, <2>5, <2>6, SameRunStill DEF AllStill
<1>3. ASSUME NEW g \in Objects \ Fences, UNCHANGED <<run, device, fenceReg, promised>>,
             \A o \in Objects \ {g} : obj'[o] = obj[o],
             \A o \in Objects \ {g} : o \in tainted => o \in tainted'
      PROVE  Goal
  <2>1. \A f \in Fences : f \in Objects \ {g} BY <1>3 DEF Objects
  <2>2. \A f \in Fences : obj'[f] = obj[f] /\ (f \in tainted => f \in tainted') BY <1>3, <2>1
  <2>3. AllStill BY <1>3, <2>2, StillFrom DEF AllStill
  <2>4. \A f \in Fences : Live(f)' = Live(f) BY <2>2 DEF Live
  <2>. QED BY <1>3, <2>3, <2>4, SameRunStill
<1>4. ASSUME NEW t \in Threads, NEW s \in Sems, CreateSem(t, s, 0) PROVE Goal
  <2>1. s \in Objects \ Fences BY NameAssumption DEF Objects, Sems
  <2>2. /\ UNCHANGED <<run, device, fenceReg, promised>>
        /\ \/ UNCHANGED <<obj, tainted>>
           \/ /\ \E cell : obj' = [obj EXCEPT ![s] = cell]
              /\ tainted' = tainted \cup {s} \/ tainted' = tainted \ {s}
    BY <1>4 DEF CreateSem, Quiet
  <2>3. \A o \in Objects \ {s} : obj'[o] = obj[o] BY <1>1, <2>2
  <2>4. \A o \in Objects \ {s} : o \in tainted => o \in tainted' BY <2>2
  <2>. QED BY <1>3, <2>1, <2>2, <2>3, <2>4
<1>5. ASSUME NEW t \in Threads, NEW e \in Events, CreateEvent(t, e) PROVE Goal
  <2>1. e \in Objects \ Fences BY NameAssumption DEF Objects
  <2>2. /\ UNCHANGED <<run, device, fenceReg, promised>>
        /\ \/ UNCHANGED <<obj, tainted>>
           \/ /\ \E cell : obj' = [obj EXCEPT ![e] = cell]
              /\ tainted' = tainted \cup {e} \/ tainted' = tainted \ {e}
    BY <1>5 DEF CreateEvent, Quiet
  <2>3. \A o \in Objects \ {e} : obj'[o] = obj[o] BY <1>1, <2>2
  <2>4. \A o \in Objects \ {e} : o \in tainted => o \in tainted' BY <2>2
  <2>. QED BY <1>3, <2>1, <2>2, <2>3, <2>4
<1>6. Goal BY <1>2, <1>4, <1>5 DEF Creates
<1>. QED BY <1>6

\* A destruction leaves the other fences alone and meets no running call.
LEMMA DestroyStill ==
    ASSUME Core, NEW t \in Threads, NEW o \in Objects, Destroy(t, o)
    PROVE  /\ \A f \in Fences \ {o} : Live(f) => Still(f)
           /\ CallsStill /\ ~Live(o)'
           /\ \A f \in Fences : Live(f)' => Live(f) /\ f # o
           /\ \A u \in Threads : run[u].kind = "submit" => o \notin UsedBy(run[u].call)
<1>1. /\ Live(o) /\ ~InUse(o) /\ obj' = [obj EXCEPT ![o] = Dead] /\ tainted' = tainted \ {o}
      /\ fenceReg' = IF o \in Fences THEN Cut(fenceReg, Id(o)) ELSE fenceReg
      /\ UNCHANGED <<run, promised>>
  BY DEF Destroy
<1>2. obj \in [Objects -> Cells] /\ Id(o) \in Nat /\ Dead.id = 0 BY Types DEF Dead
<1>3. ~Live(o)' BY <1>1, <1>2 DEF Live
<1>4. ASSUME NEW f \in Fences \ {o}, Live(f) PROVE Still(f)
  <2>1. f \in Objects /\ obj'[f] = obj[f] BY <1>1, <1>2 DEF Objects
  <2>2. Id(f) # Id(o) BY <1>1, <1>4, <2>1 DEF Core, IdsApart
  <2>3. fenceReg' = fenceReg \/ (Id(o) \in Nat \ {Id(f)} /\ fenceReg' = Cut(fenceReg, Id(o)))
        BY <1>1, <1>2, <2>2
  <2>4. TRUE \in BOOLEAN OBVIOUS
  <2>. QED BY <1>1, <1>4, <2>1, <2>3, <2>4, StillFrom
<1>5. \A f \in Fences \ {o} : Live(f)' = Live(f) BY <1>1, <1>2 DEF Live, Objects
<1>6. \A u \in Threads : run[u].kind = "submit" => o \notin UsedBy(run[u].call) BY <1>1 DEF InUse
<1>. QED BY <1>1, <1>3, <1>4, <1>5, <1>6, SameRunStill

\* A step that changes the copies in other fields than those of the fences
LEMMA KeptFrom ==
    ASSUME Core, UNCHANGED <<fenceReg, run, promised, device>>,
           tainted \subseteq tainted', \A o \in Objects : obj'[o].id = obj[o].id,
           \A f \in Fences : obj'[f].signaled = obj[f].signaled \/ obj'[f].signaled = FencePayload(f)
    PROVE  AllStill /\ FencesKept
<1>1. Fences \subseteq Objects BY DEF Objects
<1>2. AllStill BY <1>1, StillFrom DEF AllStill
<1>3. \A f \in Fences : Live(f)' = Live(f) BY <1>1 DEF Live
<1>. QED BY <1>2, <1>3, SameRunStill DEF AllStill, FencesKept

\* A host call leaves every fence alone or clears one that no call uses.
LEMMA HostCallsStill == Core /\ HostCalls => FencesKept
<1>. SUFFICES ASSUME Core, HostCalls PROVE FencesKept OBVIOUS
<1>0. Fences \subseteq Objects /\ Sems \subseteq Objects /\ Events \subseteq Objects
      /\ (\A s \in Timelines : s \in Sems /\ s \notin Fences) /\ (\A e \in Events : e \notin Fences)
      BY NameAssumption DEF Objects, Sems
<1>1. ASSUME NEW t \in Threads, NEW g \in Fences, ResetFence(t, g) PROVE FencesKept
  <2>1. /\ Live(g) /\ ~InUse(g) /\ fenceReg' = Put(fenceReg, Id(g), FALSE)
        /\ obj' = [obj EXCEPT ![g].signaled = FALSE]
        /\ promised' = [promised EXCEPT ![g] = "no"]
        /\ UNCHANGED <<run, tainted, device>>
    BY <1>1 DEF ResetFence, Quiet
  <2>2. obj \in [Objects -> Cells] /\ promised \in [Fences -> {"no", "local", "carried"}]
        /\ g \in Objects /\ Id(g) \in Nat /\ FALSE \in BOOLEAN
        BY <1>0, Types
  <2>3. \A o \in Objects : obj'[o].id = obj[o].id BY <2>1, <2>2, SignaledChange
  <2>4. ASSUME NEW f \in Fences, Live(f) PROVE Still(f) \/ Cleared(f)
    <3>1. CASE f = g
      <4>1. \A u \in Threads : run[u].kind = "submit" => f \notin UsedBy(run[u].call)
            BY <2>1, <3>1 DEF InUse
      <4>2. Live(f)' /\ Id(f)' = Id(f) BY <1>0, <2>3, <2>4 DEF Live, Id
      <4>3. promised'[f] = "no" BY <2>1, <2>2, <3>1
      <4>. QED BY <4>1, <4>2, <4>3 DEF Cleared
    <3>2. CASE f # g
      <4>1. obj'[f] = obj[f] /\ promised'[f] = promised[f] BY <1>0, <2>1, <2>2, <3>2
      <4>2. Id(g) \in Nat \ {Id(f)} BY <1>0, <2>2, <2>4, <3>2 DEF Core, IdsApart
      <4>. QED BY <2>1, <2>2, <2>4, <4>1, <4>2, StillFrom
    <3>. QED BY <3>1, <3>2
  <2>5. \A f \in Fences : Live(f)' = Live(f) BY <1>0, <2>3 DEF Live
  <2>. QED BY <2>1, <2>4, <2>5, SameRunStill DEF FencesKept
<1>2. ASSUME NEW t \in Threads, NEW g \in Fences, FenceStatus(t, g) PROVE FencesKept
  <2>1. UNCHANGED <<fenceReg, run, promised, device, tainted>>
        /\ obj' = [obj EXCEPT ![g].signaled = FencePayload(g)] /\ g \in Objects /\ FencePayload(g) \in BOOLEAN
        BY <1>0, <1>2, PayloadTypes DEF FenceStatus, Quiet
  <2>2. /\ \A o \in Objects : obj'[o].id = obj[o].id
        /\ \A o \in Objects : obj'[o].signaled = IF o = g THEN FencePayload(g) ELSE obj[o].signaled
        BY <2>1, SignaledChange
  <2>. QED BY <1>0, <2>1, <2>2, KeptFrom
<1>3. ASSUME NEW t \in Threads, NEW s \in Timelines, SemCounter(t, s) PROVE FencesKept
  <2>1. UNCHANGED <<fenceReg, run, promised, device, tainted>>
        /\ obj' = [obj EXCEPT ![s].value = SemCount(s)] /\ s \in Objects /\ SemCount(s) \in Nat
        BY <1>0, <1>3, PayloadTypes DEF SemCounter, Quiet
  <2>2. /\ \A o \in Objects : obj'[o].id = obj[o].id
        /\ \A o \in Objects : obj'[o].signaled = obj[o].signaled
        BY <2>1, ValueChange
  <2>. QED BY <1>0, <2>1, <2>2, KeptFrom
<1>4. ASSUME NEW t \in Threads, NEW s \in Timelines, NEW v \in 1..MaxValue, SignalSem(t, s, v)
      PROVE  FencesKept
  <2>1. UNCHANGED <<fenceReg, run, promised, device, tainted>>
        /\ obj' = [obj EXCEPT ![s].value = v] /\ s \in Objects /\ v \in Nat
        BY <1>0, <1>4, BoundAssumption DEF SignalSem, Quiet
  <2>2. /\ \A o \in Objects : obj'[o].id = obj[o].id
        /\ \A o \in Objects : obj'[o].signaled = obj[o].signaled
        BY <2>1, ValueChange
  <2>. QED BY <1>0, <2>1, <2>2, KeptFrom
<1>5. ASSUME NEW t \in Threads, NEW e \in Events, NEW on \in BOOLEAN, WriteEvent(t, e, on)
      PROVE  FencesKept
  <2>1. UNCHANGED <<fenceReg, run, promised, device, tainted>>
        /\ obj' = [obj EXCEPT ![e].signaled = on] /\ e \in Objects
        BY <1>0, <1>5 DEF WriteEvent, Quiet
  <2>2. /\ \A o \in Objects : obj'[o].id = obj[o].id
        /\ \A o \in Objects : obj'[o].signaled = IF o = e THEN on ELSE obj[o].signaled
        BY <2>1, SignaledChange
  <2>. QED BY <1>0, <2>1, <2>2, KeptFrom
<1>6. ASSUME NEW t \in Threads, NEW e \in Events, EventStatus(t, e) PROVE FencesKept
  <2>1. UNCHANGED <<fenceReg, run, promised, device, tainted>>
        /\ obj' = [obj EXCEPT ![e].signaled = eventReg[Id(e)]] /\ e \in Objects
        /\ eventReg[Id(e)] \in BOOLEAN
        BY <1>0, <1>6, PayloadTypes DEF EventStatus, Quiet
  <2>2. /\ \A o \in Objects : obj'[o].id = obj[o].id
        /\ \A o \in Objects : obj'[o].signaled = IF o = e THEN eventReg[Id(e)] ELSE obj[o].signaled
        BY <2>1, SignaledChange
  <2>. QED BY <1>0, <2>1, <2>2, KeptFrom
<1>. QED BY <1>1, <1>2, <1>3, <1>4, <1>5, <1>6 DEF HostCalls

\* Waiting changes no fence.
LEMMA WaitCallsStill == Core /\ WaitCalls => AllStill /\ CallsStill /\ device' = device
<1>. SUFFICES ASSUME Core, WaitCalls PROVE AllStill /\ CallsStill /\ device' = device OBVIOUS
<1>1. fenceReg' = fenceReg /\ IdsKept BY WaitCallsDomains, WaitCallsCore
<1>2. obj \in [Objects -> Cells] BY Types
<1>3. /\ UNCHANGED <<promised, device>> /\ tainted \subseteq tainted'
      /\ \/ obj' = obj
         \/ \E S : obj' = AfterFenceWait(S)
         \/ \E S, v : obj' = AfterSemWait(S, v)
      /\ run' = run \/ \E t, r : r.kind # "submit" /\ run' = [run EXCEPT ![t] = r]
  <2>a. Idle.kind # "submit" /\ \A k, t, S, mode, v : WaitRecord(k, t, S, mode, v).kind = k
        BY DEF Idle, WaitRecord
  <2>. DEFINE Goal == /\ UNCHANGED <<promised, device>> /\ tainted \subseteq tainted'
                      /\ \/ obj' = obj
                         \/ \E S : obj' = AfterFenceWait(S)
                         \/ \E S, v : obj' = AfterSemWait(S, v)
                      /\ run' = run \/ \E t, r : r.kind # "submit" /\ run' = [run EXCEPT ![t] = r]
  <2>1. ASSUME NEW t \in Threads, NEW S \in SUBSET Fences, NEW mode \in {"all", "any"},
               WaitFences(t, S, mode)
        PROVE  Goal
    BY <2>1, <2>a DEF WaitFences, Quiet
  <2>2. ASSUME NEW t \in Threads, NEW S \in SUBSET Timelines, NEW mode \in {"all", "any"},
               NEW v \in 1..MaxValue, WaitSems(t, S, mode, v)
        PROVE  Goal
    BY <2>2, <2>a DEF WaitSems, Quiet
  <2>3. ASSUME NEW t \in Threads, PollFences(t) PROVE Goal
    BY <2>3, <2>a DEF PollFences, Quiet
  <2>4. ASSUME WaitEnds PROVE Goal
    BY <2>4, <2>a DEF WaitEnds, Quiet
  <2>5. Goal BY <2>1, <2>2, <2>3, <2>4 DEF WaitCalls
  <2>. QED BY <2>5
<1>4. \A f \in Fences : obj'[f].signaled = obj[f].signaled \/ obj'[f].signaled = FencePayload(f)
  <2>1. SUFFICES ASSUME NEW f \in Fences
                 PROVE  obj'[f].signaled = obj[f].signaled \/ obj'[f].signaled = FencePayload(f)
        OBVIOUS
  <2>2. f \in Objects /\ obj[f] \in Cells /\ FencePayload(f) \in BOOLEAN BY <1>2, PayloadTypes DEF Objects
  <2>3. ASSUME NEW S, obj' = AfterFenceWait(S)
        PROVE  obj'[f].signaled = obj[f].signaled \/ obj'[f].signaled = FencePayload(f)
    <3>1. obj'[f] = obj[f] \/ (FencePayload(f) /\ obj'[f] = [obj[f] EXCEPT !.signaled = TRUE])
          BY <2>2, <2>3 DEF AfterFenceWait
    <3>. QED BY <2>2, <3>1 DEF Cells
  <2>4. ASSUME NEW S, NEW v, obj' = AfterSemWait(S, v) PROVE obj'[f].signaled = obj[f].signaled
    <3>1. obj'[f] = obj[f] \/ obj'[f] = [obj[f] EXCEPT !.value = v] BY <2>2, <2>4 DEF AfterSemWait
    <3>. QED BY <2>2, <3>1 DEF Cells
  <2>. QED BY <1>3, <2>3, <2>4
<1>5. AllStill
  <2>1. SUFFICES ASSUME NEW f \in Fences, Live(f) PROVE Still(f) BY DEF AllStill
  <2>2. obj'[f].id = obj[f].id BY <1>1 DEF IdsKept, Objects
  <2>3. promised'[f] = promised[f] /\ (f \in tainted => f \in tainted') BY <1>3
  <2>. QED BY <1>1, <1>4, <2>1, <2>2, <2>3, StillFrom
<1>6. CallsStill
  <2>1. DOMAIN run = Threads BY DEF Core, TypeOK
  <2>2. ASSUME NEW t, NEW r, r.kind # "submit", run' = [run EXCEPT ![t] = r] PROVE CallsStill
    BY <2>1, <2>2 DEF CallsStill
  <2>. QED BY <1>3, <2>2, SameRunStill
<1>. QED BY <1>3, <1>5, <1>6

\* A step of a call moves that call only.
LEMMA OnwardMoves ==
    ASSUME Core, NEW t \in Threads, run[t].kind = "submit",
           \/ Leave(t)
           \/ \E ops \in Seq(OpKinds) : Onward(t, ops) /\ Doing(t).op # "end"
    PROVE  Moves(t)
<1>1. CASE Leave(t)
  <2>1. run'[t].kind = "idle" /\ \A u \in Threads \ {t} : run'[u] = run[u] BY <1>1, LeaveKeeps
  <2>. QED BY <2>1 DEF Moves
<1>2. ASSUME NEW ops \in Seq(OpKinds), Onward(t, ops), Doing(t).op # "end" PROVE Moves(t)
  <2>1. /\ \A u \in Threads \ {t} : run'[u] = run[u]
        /\ run'[t].call = run[t].call /\ run'[t].prog = run[t].prog /\ run'[t].pc = run[t].pc + 1
        BY <1>2, OnwardKeeps
  <2>. QED BY <2>1 DEF Moves
<1>. QED BY <1>1, <1>2

\* A step without a frame leaves all fences alone; after a refusal the call is
\* over.
LEMMA PlainStepStill ==
    ASSUME Core, NEW t \in Threads, PlainStep(t)
    PROVE  /\ AllStill /\ Moves(t) /\ device' = device
           /\ \A f \in Fences : Live(f)' => Live(f)
           /\ Doing(t).op = "frame" => FALSE
           /\ Doing(t).op = "refuse" => run'[t].kind # "submit"
<1>1. run[t].kind = "submit" BY DEF PlainStep, Validate, Refuse, HostOp, Dispatch, Complete, In
<1>2. Doing(t).op \in {"validate", "refuse", "host", "dispatch", "complete"}
      BY DEF PlainStep, Validate, Refuse, HostOp, Dispatch, Complete, In
<1>0. Fences \subseteq Objects BY DEF Objects
<1>3. IdsKept BY ValidateCore, RefuseCore, HostOpCore, DispatchCore, CompleteCore DEF PlainStep
<1>4. UNCHANGED <<fenceReg, promised, device>>
      BY DEF PlainStep, Validate, Refuse, HostOp, Dispatch, Complete, Quiet
<1>5. tainted \subseteq tainted'
  <2>1. Fail(t) => tainted \subseteq tainted' BY DEF Fail
  <2>. QED BY <2>1 DEF PlainStep, Validate, Refuse, HostOp, Dispatch, Complete
<1>6. ASSUME NEW f \in Fences PROVE obj'[f].signaled = obj[f].signaled
  <2>1. obj \in [Objects -> Cells] /\ f \in Objects BY <1>0, Types
  <2>2. CASE obj' = obj BY <2>2
  <2>3. CASE HostOp(t)
    <3>. DEFINE e == TheEvent
    <3>1. e \in Events /\ e # f BY NameAssumption DEF TheEvent
    <3>2. obj' = obj \/ \E b : obj' = [obj EXCEPT ![e].signaled = b] BY <2>3 DEF HostOp
    <3>. HIDE DEF e
    <3>. QED BY <2>1, <3>1, <3>2
  <2>4. CASE Complete(t)
    <3>. DEFINE s == Info(t)
    <3>1. \A n \in DOMAIN s.signals : s.signals[n][1] # f
      <4>1. \A n \in DOMAIN s.signals : s.signals[n][1] \in Sems BY <1>1, InfoFacts
      <4>. QED BY <4>1, NameAssumption
    <3>2. f \notin Binaries BY NameAssumption DEF Sems
    <3>3. obj'[f] = obj[f] BY <2>1, <2>4, <3>1, <3>2 DEF Complete
    <3>. QED BY <3>3
  <2>. QED BY <2>2, <2>3, <2>4 DEF PlainStep, Validate, Refuse, Dispatch
<1>7. AllStill
  <2>1. \A f \in Fences : obj'[f].id = obj[f].id BY <1>0, <1>3 DEF IdsKept
  <2>. QED BY <1>4, <1>5, <1>6, <2>1, StillFrom DEF AllStill
<1>8. Moves(t)
  <2>1. Fail(t) => Leave(t) BY DEF Fail
  <2>2. <<>> \in Seq(OpKinds) /\ <<"dispatch">> \in Seq(OpKinds) BY DEF OpKinds
  <2>3. CASE Validate(t)
    <3>1. CASE Leave(t) BY <1>1, <3>1, OnwardMoves
    <3>2. CASE run' = [run EXCEPT ![t].pc = @ + 1, ![t].did = <<>>]
      <4>1. TypeOK /\ Running /\ Doing(t).op # "end" BY <1>2, Types
      <4>2. /\ \A u \in Threads \ {t} : run'[u] = run[u]
            /\ run'[t].call = run[t].call /\ run'[t].prog = run[t].prog /\ run'[t].pc = run[t].pc + 1
            BY <1>1, <2>2, <3>2, <4>1, OnwardFacts
      <4>. QED BY <1>1, <4>2 DEF Moves
    <3>. QED BY <2>3, <3>1, <3>2 DEF Validate
  <2>4. CASE Refuse(t) BY <1>1, <2>1, <2>4, OnwardMoves DEF Refuse
  <2>5. CASE HostOp(t)
    <3>1. Doing(t).op = "host" BY <2>5 DEF HostOp, In
    <3>2. Doing(t).what \in OpKinds
      <4>1. run[t].call \in Calls /\ run[t].pc \in 1..Len(Program(run[t].call))
            /\ Doing(t) = Program(run[t].call)[run[t].pc]
            BY <1>1, RunFacts DEF Core
      <4>. QED BY <3>1, <4>1, StepFacts
    <3>3. <<Doing(t).what>> \in Seq(OpKinds) BY <3>2
    <3>4. Fail(t) \/ Onward(t, <<Doing(t).what>>) BY <2>5 DEF HostOp
    <3>5. Doing(t).op # "end" BY <3>1
    <3>. QED BY <1>1, <2>1, <3>3, <3>4, <3>5, OnwardMoves
  <2>6. CASE Dispatch(t)
    <3>1. Fail(t) \/ Onward(t, <<"dispatch">>) BY <2>6 DEF Dispatch
    <3>. QED BY <1>1, <1>2, <2>1, <2>2, <3>1, OnwardMoves
  <2>7. CASE Complete(t)
    <3>1. Onward(t, <<>>) BY <2>7 DEF Complete
    <3>. QED BY <1>1, <1>2, <2>2, <3>1, OnwardMoves
  <2>. QED BY <2>3, <2>4, <2>5, <2>6, <2>7 DEF PlainStep
<1>9. Doing(t).op = "refuse" => run'[t].kind # "submit"
  <2>1. SUFFICES ASSUME Doing(t).op = "refuse" PROVE run'[t].kind # "submit" OBVIOUS
  <2>2. Refuse(t) BY <2>1 DEF PlainStep, Validate, HostOp, Dispatch, Complete, In
  <2>3. Leave(t) BY <2>2 DEF Refuse, Fail
  <2>. QED BY <2>3, LeaveKeeps
<1>10. \A f \in Fences : Live(f)' => Live(f) BY <1>0, <1>3 DEF IdsKept, Live
<1>. QED BY <1>2, <1>4, <1>7, <1>8, <1>9, <1>10

\* The beginning of a call clears its own fence and no other.
LEMMA SubmitBeginStill ==
    ASSUME Core, NEW t \in Threads, NEW c \in Calls, SubmitBegin(t, c)
    PROVE  /\ \A f \in Fences \ {c.fence} : Live(f) => Still(f)
           /\ \A f \in Fences : Live(f)' => Live(f)
           /\ c.fence # None => /\ c.fence \in Fences /\ promised'[c.fence] = "no"
                                /\ obj'[c.fence].signaled = FALSE /\ ~FencePayload(c.fence)'
           /\ \A u \in Threads : run'[u].kind = "submit" =>
                 u = t /\ run'[u].call = c /\ run'[u].prog = Program(c) /\ run'[u].pc = 1
           /\ device' = device /\ fenceReg' = fenceReg
<1>. DEFINE r == [kind |-> "submit", call |-> c, prog |-> Program(c), pc |-> 1, did |-> <<>>]
<1>0. Fences \subseteq Objects BY DEF Objects
<1>1. /\ run' = [run EXCEPT ![t] = r]
      /\ obj' = [o \in Objects |-> IF o = c.fence THEN [obj[o] EXCEPT !.signaled = FALSE] ELSE obj[o]]
      /\ promised' = [f \in Fences |-> IF f = c.fence THEN "no" ELSE promised[f]]
      /\ UNCHANGED <<fenceReg, tainted, device>> /\ ValidUse(c)
  BY DEF SubmitBegin, Quiet
<1>2. IdsKept BY SubmitBeginCore
<1>3. obj \in [Objects -> Cells] BY Types
<1>4. \A f \in Fences : obj'[f].id = obj[f].id BY <1>0, <1>2 DEF IdsKept
<1>5. ASSUME NEW f \in Fences \ {c.fence}, Live(f) PROVE Still(f)
  <2>1. obj'[f] = obj[f] /\ promised'[f] = promised[f] BY <1>0, <1>1
  <2>. QED BY <1>1, <1>4, <1>5, <2>1, StillFrom
<1>6. ASSUME c.fence # None
      PROVE  /\ c.fence \in Fences /\ promised'[c.fence] = "no"
             /\ obj'[c.fence].signaled = FALSE /\ ~FencePayload(c.fence)'
  <2>1. c.fence \in Fences BY <1>6, CallFacts
  <2>2. promised'[c.fence] = "no" BY <1>1, <2>1
  <2>3. obj'[c.fence] = [obj[c.fence] EXCEPT !.signaled = FALSE] /\ obj[c.fence] \in Cells
        BY <1>0, <1>1, <1>3, <2>1
  <2>4. ~FencePayload(c.fence) BY <1>1, <1>6 DEF ValidUse
  <2>5. ~FencePayload(c.fence)' BY <1>1, <1>4, <2>1, <2>4 DEF FencePayload, Id
  <2>. QED BY <2>1, <2>2, <2>3, <2>5 DEF Cells
<1>7. \A u \in Threads : run'[u].kind = "submit" => u = t /\ run'[u] = r
  <2>1. DOMAIN run = Threads BY DEF Core, TypeOK
  <2>2. \A u \in Threads : run[u].kind # "submit" BY <1>1 DEF ValidUse
  <2>. QED BY <1>1, <2>1, <2>2
<1>8. r.call = c /\ r.prog = Program(c) /\ r.pc = 1 OBVIOUS
<1>9. \A f \in Fences : Live(f)' => Live(f) BY <1>4 DEF Live
<1>. HIDE DEF r
<1>. QED BY <1>1, <1>5, <1>6, <1>7, <1>8, <1>9

\* The return of a call signals the copy of its own fence and no other.
LEMMA SubmitEndStill ==
    ASSUME Core, NEW t \in Threads, SubmitEnd(t)
    PROVE  /\ \A f \in Fences \ {run[t].call.fence} : Live(f) => Still(f)
           /\ \A f \in Fences : Live(f)' => Live(f)
           /\ \A u \in Threads : run'[u].kind # "submit"
           /\ LET c == run[t].call
              IN  c.fence \in Fences => /\ obj'[c.fence].signaled = TRUE
                                        /\ promised'[c.fence] = IF Carried(c) THEN "carried" ELSE "local"
           /\ fenceReg' = fenceReg /\ device' = device /\ tainted' = tainted
           /\ run[t].kind = "submit" /\ Doing(t).op = "end" /\ IdsKept
<1>. DEFINE c == run[t].call
<1>0. Fences \subseteq Objects /\ obj \in [Objects -> Cells] BY Types DEF Objects
<1>1. /\ obj' = [o \in Objects |-> IF o = c.fence THEN [obj[o] EXCEPT !.signaled = TRUE] ELSE obj[o]]
      /\ promised' = [f \in Fences |-> IF f # c.fence THEN promised[f]
                                           ELSE IF Carried(c) THEN "carried" ELSE "local"]
      /\ Leave(t) /\ run[t].kind = "submit" /\ Doing(t).op = "end"
      /\ UNCHANGED <<fenceReg, tainted, device>>
  BY DEF SubmitEnd, Quiet, In
<1>2. IdsKept BY SubmitEndCore
<1>3. \A f \in Fences : obj'[f].id = obj[f].id BY <1>0, <1>2 DEF IdsKept
<1>4. ASSUME NEW f \in Fences \ {c.fence}, Live(f) PROVE Still(f)
  <2>1. obj'[f] = obj[f] /\ promised'[f] = promised[f] BY <1>0, <1>1
  <2>. QED BY <1>1, <1>3, <1>4, <2>1, StillFrom
<1>5. \A u \in Threads : run'[u].kind # "submit"
  <2>1. run'[t].kind = "idle" /\ \A u \in Threads \ {t} : run'[u] = run[u] BY <1>1, LeaveKeeps
  <2>. QED BY <1>1, <2>1 DEF Core, OneAtATime
<1>6. ASSUME c.fence \in Fences
      PROVE  /\ obj'[c.fence].signaled = TRUE
             /\ promised'[c.fence] = IF Carried(c) THEN "carried" ELSE "local"
  <2>1. obj'[c.fence] = [obj[c.fence] EXCEPT !.signaled = TRUE] /\ obj[c.fence] \in Cells
        BY <1>0, <1>1, <1>6
  <2>. QED BY <1>1, <1>6, <2>1 DEF Cells
<1>. QED BY <1>1, <1>2, <1>3, <1>4, <1>5, <1>6 DEF Live

\* A frame touches the fence of its call only, and only when it carries it.
LEMMA FrameStill ==
    ASSUME Core, NEW t \in Threads, Frame(t)
    PROVE  LET c == run[t].call
               en == Doing(t).what.entries
               es == WithIds(en)
           IN  /\ \A f \in Fences : Live(f) /\ ~(f = c.fence /\ HasFence(en)) => Still(f)
               /\ UNCHANGED <<obj, promised>> /\ tainted \subseteq tainted'
               /\ Moves(t) /\ DOMAIN fenceReg \subseteq DOMAIN fenceReg'
               /\ HasFence(en) => c.fence \in Fences /\ Live(c.fence)
               /\ HasFence(en) /\ run'[t].kind = "submit" => \A f \in {c.fence} : FencePayload(f)'
               /\ \/ device' = device
                  \/ /\ device' = Append(device, es) /\ es \in Seq(Held)
                     /\ FenceIds(es) \subseteq DOMAIN fenceReg'
                     /\ \A id \in FenceIds(es) : c.fence \in Fences /\ Live(c.fence) /\ id = Id(c.fence)
                     /\ FenceIds(es) # {} => c.fence \in tainted'
<1>. DEFINE c == run[t].call   en == Doing(t).what.entries   es == WithIds(en)
            ops == Doing(t).what.ops   rf == ResolvedFences(es)   F == FenceIds(es)
<1>0. Fences \subseteq Objects BY DEF Objects
<1>1. /\ en \in Seq(EntryType) /\ es \in Seq(Held) /\ ops \in Seq(OpKinds)
      /\ run[t].kind = "submit" /\ Doing(t).op # "end"
  BY FrameForm
<1>2. UNCHANGED <<obj, promised>> BY DEF Frame
<1>3. \/ Fail(t) /\ fenceReg' \in {fenceReg, rf} /\ device' = device
      \/ /\ Leave(t) /\ device' = Append(device, es) /\ fenceReg' = rf
         /\ tainted' = tainted \cup ObjsOf(es) \cup (Binaries \cap Waited(Info(t)))
      \/ /\ fenceReg' = SignaledFences(rf, es) /\ device' = device
         /\ Onward(t, ops) \/ Leave(t)
         /\ tainted' = tainted \/ \E B : tainted' = tainted \cup B
  <2>. HIDE DEF es
  <2>. QED BY DEF Frame, es
<1>4. /\ F = {Id(e.obj) : e \in {x \in Els(en) : x.type = "fence"}} /\ F \subseteq Nat
      /\ ObjsOf(es) = {e.obj : e \in Els(en)}
  BY <1>1, WithIdsFacts, HeldFacts DEF Core, FenceIds
<1>5. \A e \in Els(en) : e.type = "fence" => e.obj = c.fence /\ c.fence \in Fences /\ Live(c.fence)
  BY FrameObjects
<1>6. /\ HasFence(en) => F = {Id(c.fence)} /\ c.fence \in Fences /\ Live(c.fence) /\ c.fence \in ObjsOf(es)
      /\ ~HasFence(en) => F = {}
  <2>. HIDE DEF en, es, F, c
  <2>. QED BY <1>4, <1>5 DEF HasFence
<1>7. /\ DOMAIN rf = DOMAIN fenceReg \cup F /\ Registry(rf, BOOLEAN)
      /\ \A id \in DOMAIN rf : rf[id] = IF id \in F THEN FALSE ELSE fenceReg[id]
  BY <1>1, ResolvedFacts DEF FenceIds
<1>. HIDE DEF rf
<1>8. /\ DOMAIN SignaledFences(rf, es) = DOMAIN rf
      /\ \A id \in DOMAIN rf : SignaledFences(rf, es)[id] = (rf[id] \/ id \in F)
      /\ \A id \in DOMAIN rf : rf[id] \in BOOLEAN
  <2>1. \A id \in DOMAIN rf : rf[id] \in BOOLEAN BY <1>7 DEF Registry
  <2>. HIDE DEF es
  <2>. QED BY <1>7, <2>1, SignaledFencesFacts DEF FenceIds
<1>. HIDE DEF es, F
<1>9. DOMAIN fenceReg \subseteq DOMAIN fenceReg' /\ (DOMAIN fenceReg' = DOMAIN fenceReg \/ DOMAIN fenceReg' = DOMAIN fenceReg \cup F)
      BY <1>3, <1>7, <1>8
<1>10. ASSUME NEW id, id \notin F
       PROVE  /\ (id \in DOMAIN fenceReg') = (id \in DOMAIN fenceReg)
              /\ id \in DOMAIN fenceReg => fenceReg'[id] = fenceReg[id]
  <2>1. (id \in DOMAIN fenceReg') = (id \in DOMAIN fenceReg) BY <1>9, <1>10
  <2>2. ASSUME id \in DOMAIN fenceReg PROVE fenceReg'[id] = fenceReg[id]
    <3>1. id \in DOMAIN rf /\ rf[id] = fenceReg[id] BY <1>7, <1>10, <2>2
    <3>2. SignaledFences(rf, es)[id] = rf[id] BY <1>8, <1>10, <3>1
    <3>. QED BY <1>3, <3>1, <3>2
  <2>. QED BY <2>1, <2>2
<1>11. tainted \subseteq tainted'
  <2>1. Fail(t) => tainted \subseteq tainted' BY DEF Fail
  <2>. QED BY <1>3, <2>1
<1>12. ASSUME NEW f \in Fences, Live(f), ~(f = c.fence /\ HasFence(en)) PROVE Still(f)
  <2>1. Id(f)' = Id(f) /\ Live(f)' BY <1>2, <1>12 DEF Id, Live
  <2>2. Id(f) \notin F BY <1>0, <1>6, <1>12 DEF Core, IdsApart
  <2>3. /\ (Id(f) \in DOMAIN fenceReg') = (Id(f) \in DOMAIN fenceReg)
        /\ Id(f) \in DOMAIN fenceReg => fenceReg'[Id(f)] = fenceReg[Id(f)]
        BY <1>10, <2>2
  <2>4. FencePayload(f)' = (Id(f) \in DOMAIN fenceReg' /\ fenceReg'[Id(f)]) BY <2>1 DEF FencePayload
  <2>5. FencePayload(f)' = FencePayload(f) BY <2>3, <2>4 DEF FencePayload
  <2>6. obj'[f].signaled = obj[f].signaled /\ promised'[f] = promised[f] /\ (f \in tainted => f \in tainted')
        BY <1>2, <1>11
  <2>7. (Id(f) \in DOMAIN fenceReg') = (Id(f) \in DOMAIN fenceReg) BY <2>3
  <2>. HIDE DEF FencePayload
  <2>. QED BY <2>1, <2>5, <2>6, <2>7, Zenon DEF Still
<1>13. Moves(t)
  <2>1. Fail(t) => Leave(t) BY DEF Fail
  <2>2. Leave(t) \/ Onward(t, ops) BY <1>3, <2>1
  <2>. HIDE DEF ops
  <2>. QED BY <1>1, <2>2, OnwardMoves
<1>14. ASSUME HasFence(en), run'[t].kind = "submit", NEW f \in {c.fence} PROVE FencePayload(f)'
  <2>1. ~Leave(t) BY <1>14, LeaveKeeps
  <2>2. fenceReg' = SignaledFences(rf, es) BY <1>3, <2>1 DEF Fail
  <2>3. Id(f) \in DOMAIN rf /\ Id(f) \in F BY <1>6, <1>7, <1>14
  <2>4. Id(f) \in DOMAIN fenceReg' /\ fenceReg'[Id(f)] BY <1>8, <2>2, <2>3
  <2>5. Id(f)' = Id(f) BY <1>2 DEF Id
  <2>. QED BY <2>4, <2>5 DEF FencePayload
<1>15. \/ device' = device
       \/ /\ device' = Append(device, es) /\ es \in Seq(Held)
          /\ F \subseteq DOMAIN fenceReg'
          /\ \A id \in F : c.fence \in Fences /\ Live(c.fence) /\ id = Id(c.fence)
          /\ F # {} => c.fence \in tainted'
  <2>. HIDE DEF en, c
  <2>. QED BY <1>1, <1>3, <1>6, <1>7
<1>. QED BY <1>2, <1>6, <1>9, <1>11, <1>12, <1>13, <1>14, <1>15 DEF es, F

----------------------------------------------------------------------------
\* The fences of the submissions that a timeout left on the device: a fence
\* that still has such an id does not say what it should.

\* A step that leaves no other fence id on the queue, and no untainted fence under
\* one of them, keeps what is said of the queue.
LEMMA LeftKept ==
    ASSUME LeftFences, LeftIds' \subseteq LeftIds, LeftIds' \subseteq DOMAIN fenceReg',
           \A f \in Fences : Live(f)' =>
              \/ Live(f) /\ Id(f)' = Id(f) /\ (f \in tainted => f \in tainted')
              \/ Id(f)' \in DOMAIN fenceReg => f \in tainted'
    PROVE  LeftFences'
BY DEF LeftFences

\* A destroyed fence is forgotten by the frames on the queue.
LEMMA DestroyLeft ==
    ASSUME Core, LeftFences, NEW t \in Threads, NEW o \in Objects, Destroy(t, o)
    PROVE  LeftFences'
<1>1. /\ device' = Forgotten(o) /\ tainted' = tainted \ {o}
      /\ fenceReg' = IF o \in Fences THEN Cut(fenceReg, Id(o)) ELSE fenceReg
  BY DEF Destroy
<1>2. device \in Seq(Seq(Held)) BY Types
<1>3. ASSUME NEW n \in DOMAIN device', NEW id \in FenceIds(device'[n]), id # 0
      PROVE  n \in DOMAIN device /\ id \in FenceIds(device[n]) /\ (o \in Fences => id # Id(o))
  <2>1. n \in DOMAIN device BY <1>1, <1>3 DEF Forgotten
  <2>2. device[n] \in Seq(Held) BY <1>2, <2>1
  <2>3. device'[n] = [m \in DOMAIN device[n] |->
                        IF Names(device[n][m], o) THEN [device[n][m] EXCEPT !.id = 0] ELSE device[n][m]]
        BY <1>1, <2>1 DEF Forgotten
  <2>4. PICK m \in DOMAIN device'[n] : device'[n][m].type = "fence" /\ device'[n][m].id = id
        BY <1>3 DEF FenceIds, IdsOf, OfType
  <2>. DEFINE e == device[n][m]
  <2>5. m \in DOMAIN device[n] /\ e \in Held BY <2>2, <2>3, <2>4
  <2>6. device'[n][m] = IF Names(e, o) THEN [e EXCEPT !.id = 0] ELSE e BY <2>3, <2>5
  <2>7. [e EXCEPT !.id = 0].id = 0 BY <2>5 DEF Held
  <2>. HIDE DEF e
  <2>8. ~Names(e, o) /\ e.type = "fence" /\ e.id = id BY <1>3, <2>4, <2>6, <2>7
  <2>9. o \in Fences => id # Id(o) BY <2>8 DEF Names
  <2>10. e \in OfType(device[n], "fence") BY <2>5, <2>8 DEF e, OfType
  <2>11. id \in FenceIds(device[n]) BY <2>8, <2>10 DEF FenceIds, IdsOf
  <2>. QED BY <2>1, <2>9, <2>11
<1>4. LeftIds' \subseteq LeftIds /\ (o \in Fences => Id(o) \notin LeftIds')
  <2>1. ASSUME NEW id \in LeftIds' PROVE id \in LeftIds /\ (o \in Fences => id # Id(o))
    <3>1. PICK n \in DOMAIN device' : id \in FenceIds(device'[n]) BY <2>1 DEF LeftIds
    <3>2. id # 0 BY <2>1 DEF LeftIds
    <3>3. n \in DOMAIN device /\ id \in FenceIds(device[n]) /\ (o \in Fences => id # Id(o))
          BY <1>3, <3>1, <3>2
    <3>. QED BY <3>2, <3>3 DEF LeftIds
  <2>. QED BY <2>1
<1>5. LeftIds' \subseteq DOMAIN fenceReg' BY <1>1, <1>4 DEF Cut, LeftFences
<1>6. \A f \in Fences : Live(f)' => Live(f) /\ Id(f)' = Id(f) /\ (f \in tainted => f \in tainted')
  <2>1. \A f \in Fences : Live(f)' => Live(f) /\ f # o BY DestroyStill
  <2>2. \A f \in Fences \ {o} : Live(f) => Still(f) BY DestroyStill
  <2>. QED BY <2>1, <2>2 DEF Still
<1>. QED BY <1>4, <1>5, <1>6, LeftKept

\* Every step keeps what is said of the frames left on the queue.
LEMMA LeftNext ==
    ASSUME Core, LeftFences, [Next]_vars
    PROVE  LeftFences'
<1>a. ASSUME device' = device PROVE LeftIds' = LeftIds BY <1>a DEF LeftIds
<1>b. ASSUME device' = device, DOMAIN fenceReg \subseteq DOMAIN fenceReg',
             \A f \in Fences : Live(f)' => Live(f) /\ Id(f)' = Id(f) /\ (f \in tainted => f \in tainted')
      PROVE  LeftFences'
  BY <1>a, <1>b, LeftKept DEF LeftFences
<1>0. Fences \subseteq Objects BY DEF Objects
<1>1. CASE UNCHANGED vars BY <1>b, <1>1 DEF vars, Live, Id
<1>2. CASE Creates
  <2>1. /\ AllStill /\ DOMAIN fenceReg \subseteq DOMAIN fenceReg' /\ device' = device
        /\ \A f \in Fences : Live(f)' /\ ~Live(f) /\ Id(f)' \in DOMAIN fenceReg => f \in tainted'
        BY <1>2, CreatesStill
  <2>2. LeftIds' = LeftIds BY <1>a, <2>1
  <2>3. LeftIds' \subseteq DOMAIN fenceReg' BY <2>1, <2>2 DEF LeftFences
  <2>4. \A f \in Fences : Live(f)' =>
              \/ Live(f) /\ Id(f)' = Id(f) /\ (f \in tainted => f \in tainted')
              \/ Id(f)' \in DOMAIN fenceReg => f \in tainted'
        BY <2>1 DEF AllStill, Still
  <2>. QED BY <2>2, <2>3, <2>4, LeftKept
<1>3. CASE Destroys BY <1>3, DestroyLeft DEF Destroys
<1>4. CASE HostCalls
  <2>1. FencesKept /\ DomainsKept /\ IdsKept BY <1>4, HostCallsStill, HostCallsDomains, HostCallsCore
  <2>2. tainted' = tainted
    BY <1>4 DEF HostCalls, ResetFence, FenceStatus, SemCounter, SignalSem, WriteEvent, EventStatus
  <2>3. \A f \in Fences : Live(f)' => Live(f) /\ Id(f)' = Id(f) BY <1>0, <2>1 DEF IdsKept, Live, Id
  <2>. QED BY <1>b, <2>1, <2>2, <2>3 DEF FencesKept, DomainsKept
<1>5. CASE WaitCalls
  <2>1. AllStill /\ device' = device /\ fenceReg' = fenceReg /\ IdsKept
        BY <1>5, WaitCallsStill, WaitCallsDomains, WaitCallsCore
  <2>2. \A f \in Fences : Live(f)' => Live(f) BY <1>0, <2>1 DEF IdsKept, Live
  <2>. QED BY <1>b, <2>1, <2>2 DEF AllStill, Still
<1>6. CASE SubmitCalls
  <2>1. IdsKept BY <1>6, SubmitCallsCore
  <2>2. \A f \in Fences : Live(f)' = Live(f) /\ Id(f)' = Id(f) BY <1>0, <2>1 DEF IdsKept, Live, Id
  <2>3. ASSUME NEW t \in Threads, Frame(t) PROVE LeftFences'
    <3>. DEFINE es == WithIds(Doing(t).what.entries)   c == run[t].call
    <3>1. /\ tainted \subseteq tainted' /\ DOMAIN fenceReg \subseteq DOMAIN fenceReg'
          /\ \/ device' = device
             \/ /\ device' = Append(device, es) /\ es \in Seq(Held)
                /\ FenceIds(es) \subseteq DOMAIN fenceReg'
                /\ \A id \in FenceIds(es) : c.fence \in Fences /\ Live(c.fence) /\ id = Id(c.fence)
                /\ FenceIds(es) # {} => c.fence \in tainted'
          BY <2>3, FrameStill
    <3>2. CASE device' = device BY <1>b, <2>2, <3>1, <3>2
    <3>3. CASE device' # device
      <4>. HIDE DEF es, c
      <4>1. device \in Seq(Seq(Held)) BY Types
      <4>2. /\ DOMAIN device' = DOMAIN device \cup {Len(device) + 1}
            /\ \A n \in DOMAIN device : device'[n] = device[n]
            /\ device'[Len(device) + 1] = es
        <5>. DEFINE S == Seq(Held)
        <5>. HIDE DEF S
        <5>1. device \in Seq(S) /\ es \in S BY <3>1, <3>3, <4>1 DEF S
        <5>2. device' = Append(device, es) BY <3>1, <3>3
        <5>. QED BY <5>1, <5>2, AppendProperties
      <4>3. LeftIds' \subseteq LeftIds \cup FenceIds(es) BY <4>2 DEF LeftIds
      <4>4. LeftIds' \subseteq DOMAIN fenceReg' BY <3>1, <3>3, <4>3 DEF LeftFences
      <4>5. ASSUME NEW f \in Fences, Live(f)', Id(f)' \in LeftIds' PROVE f \in tainted'
        <5>1. Live(f) /\ Id(f) \in LeftIds' BY <2>2, <4>5
        <5>2. CASE Id(f) \in LeftIds BY <3>1, <5>1, <5>2 DEF LeftFences
        <5>3. CASE Id(f) \in FenceIds(es)
          <6>1. c.fence \in Fences /\ Live(c.fence) /\ Id(f) = Id(c.fence) /\ c.fence \in tainted'
                BY <3>1, <3>3, <5>3
          <6>2. f = c.fence BY <1>0, <5>1, <6>1 DEF Core, IdsApart
          <6>. QED BY <6>1, <6>2
        <5>. QED BY <4>3, <5>1, <5>2, <5>3
      <4>. QED BY <4>4, <4>5 DEF LeftFences
    <3>. QED BY <3>2, <3>3
  <2>4. ASSUME UNCHANGED Registries, tainted \subseteq tainted' PROVE LeftFences'
    BY <1>b, <2>2, <2>4 DEF Registries
  <2>5. ASSUME NEW t \in Threads, PlainStep(t) PROVE LeftFences'
    <3>1. AllStill /\ device' = device BY <2>5, PlainStepStill
    <3>2. \A f \in Fences : Live(f)' => Live(f) /\ Id(f)' = Id(f) /\ (f \in tainted => f \in tainted')
          BY <2>2, <3>1 DEF AllStill, Still
    <3>3. fenceReg' = fenceReg
          BY <2>5 DEF PlainStep, Validate, Refuse, HostOp, Dispatch, Complete
    <3>. QED BY <1>b, <3>1, <3>2, <3>3
  <2>6. ASSUME NEW t \in Threads, NEW c \in Calls, SubmitBegin(t, c) PROVE LeftFences'
    BY <2>4, <2>6 DEF SubmitBegin, Quiet, Registries
  <2>7. ASSUME NEW t \in Threads, SubmitEnd(t) PROVE LeftFences'
    BY <2>4, <2>7 DEF SubmitEnd, Quiet, Registries
  <2>. QED BY <1>6, <2>3, <2>5, <2>6, <2>7 DEF SubmitCalls, PlainStep
<1>7. CASE DeviceRuns
  <2>1. /\ device # <<>> /\ device' = Tail(device) /\ UNCHANGED <<obj, tainted>>
        /\ DOMAIN fenceReg' = DOMAIN fenceReg
        BY <1>7 DEF DeviceRuns, SignaledFences
  <2>2. device \in Seq(Seq(Held)) BY Types
  <2>3. \A n \in DOMAIN device' : n + 1 \in DOMAIN device /\ device'[n] = device[n + 1] BY <2>1, <2>2
  <2>4. LeftIds' \subseteq LeftIds BY <2>3 DEF LeftIds
  <2>5. LeftIds' \subseteq DOMAIN fenceReg' BY <2>1, <2>4 DEF LeftFences
  <2>. QED BY <2>1, <2>4, <2>5, LeftKept DEF Live, Id
<1>8. CASE Restart
  <2>1. device' = <<>> BY <1>8 DEF Restart
  <2>2. LeftIds' = {} BY <2>1 DEF LeftIds
  <2>. QED BY <2>2 DEF LeftFences
<1>9. CASE Crash
  <2>1. obj' = [o \in Objects |-> Dead] /\ UNCHANGED <<device, fenceReg>> BY <1>9 DEF Crash
  <2>2. \A f \in Fences : ~Live(f)' BY <1>0, <2>1 DEF Live, Id, Dead
  <2>3. LeftIds' = LeftIds BY <1>a, <2>1
  <2>. QED BY <2>1, <2>2, <2>3 DEF LeftFences
<1>. QED BY <1>1, <1>2, <1>3, <1>4, <1>5, <1>6, <1>7, <1>8, <1>9, NextSplits

----------------------------------------------------------------------------
\* The invariant about fences.  A call owes its fence to the executor: while it
\* runs, either the executor's copy is signaled or a frame with the fence, or
\* the refusal of one, is still to come.

\* FenceMeansDone, call by call
LEMMA MeansDone ==
    FenceMeansDone <=>
        \A u \in Threads :
            WithOwnFence(u) /\ run[u].call.fence \notin tainted
               /\ (FencePayload(run[u].call.fence) \/ obj[run[u].call.fence].signaled)
            => DoneFrom(run[u])
BY Zenon DEF FenceMeansDone, WithOwnFence, DoneFrom

\* The fence of a running call is a live fence that the call uses.
LEMMA FenceOfCall ==
    ASSUME Core, NEW u \in Threads, WithOwnFence(u)
    PROVE  LET c == run[u].call
           IN  /\ c \in Calls /\ c.fence \in Fences /\ Live(c.fence) /\ c.fence \in UsedBy(c)
               /\ run[u].pc \in 1..Len(run[u].prog) /\ Len(run[u].prog) \in Nat
<1>. DEFINE c == run[u].call
<1>1. c \in Calls /\ run[u].prog = Program(c) /\ run[u].pc \in 1..Len(Program(c))
      BY RunFacts DEF WithOwnFence, Core
<1>2. c.fence \in Fences BY <1>1, CallFacts DEF WithOwnFence
<1>3. c.fence \in UsedBy(c) BY DEF UsedBy
<1>4. Live(c.fence) BY <1>2, <1>3 DEF Core, UsedLive, WithOwnFence
<1>5. Program(c) \in Seq(AnyStep(c)) BY <1>1, ProgramForm
<1>6. Len(Program(c)) \in Nat
  <2>. HIDE DEF c
  <2>. QED BY <1>5
<1>. QED BY <1>1, <1>2, <1>3, <1>4, <1>6

\* A carried fence keeps its word over such a step.
LEMMA CarriedKept ==
    ASSUME CarriedFenceSignals, NEW f \in Fences, f \notin tainted', Live(f), Still(f),
           promised'[f] = "carried", Id(f)' \in DOMAIN fenceReg'
    PROVE  FencePayload(f)' /\ obj'[f].signaled
<1>1. /\ Id(f)' = Id(f) /\ (Id(f) \in DOMAIN fenceReg') = (Id(f) \in DOMAIN fenceReg)
      /\ FencePayload(f)' = FencePayload(f) /\ promised'[f] = promised[f]
      /\ obj'[f].signaled = obj[f].signaled \/ obj'[f].signaled = FencePayload(f)
      /\ f \notin tainted
  <2>. HIDE DEF FencePayload
  <2>. QED BY Zenon DEF Still
<1>2. Id(f) \in DOMAIN fenceReg /\ promised[f] = "carried" BY <1>1
<1>3. FencePayload(f) /\ obj[f].signaled BY <1>1, <1>2 DEF CarriedFenceSignals
<1>. HIDE DEF FencePayload
<1>. QED BY <1>1, <1>3, Zenon

\* The passage of a running call over a quiet step
LEMMA PassesKept ==
    ASSUME Core, OwesFence, FenceMeansDone, NEW u \in Threads, Passes(u), run'[u].kind = "submit",
           run[u].call.fence # None
    PROVE  LET f == run[u].call.fence
           IN  /\ run'[u].call = run[u].call /\ promised'[f] = "no"
               /\ f \notin tainted' /\ Id(f)' \in DOMAIN fenceReg' /\ Carried(run[u].call)
                     => FencePayload(f)' \/ Owed(run'[u])
               /\ f \notin tainted' /\ (FencePayload(f)' \/ obj'[f].signaled) => DoneFrom(run'[u])
<1>. DEFINE c == run[u].call   f == c.fence   r == run[u]   s == run'[u]
<1>1. WithOwnFence(u) BY DEF WithOwnFence, Passes
<1>2. f \in Fences /\ r.pc \in 1..Len(r.prog) /\ Len(r.prog) \in Nat BY <1>1, FenceOfCall
<1>3. s.call = c /\ s.prog = r.prog /\ Same(f) /\ promised'[f] = promised[f] BY DEF Passes
<1>4. promised[f] = "no" /\ Payer(u) BY <1>1 DEF OwesFence
<1>5. \/ s.pc = r.pc
      \/ s.pc = r.pc + 1 /\ ~Sends(r.prog[r.pc])
  BY DEF Passes, Doing
<1>6. Owed(r) => Owed(s)
  <2>. HIDE DEF r, s
  <2>. QED BY <1>2, <1>3, <1>5 DEF Owed
<1>7. DoneFrom(r) => DoneFrom(s)
  <2>. HIDE DEF r, s
  <2>1. \A n \in s.pc..Len(s.prog) : n \in r.pc..Len(r.prog) /\ s.prog[n] = r.prog[n]
        BY <1>2, <1>3, <1>5
  <2>2. s.call = r.call BY <1>3 DEF r
  <2>. QED BY <2>1, <2>2 DEF DoneFrom
<1>8. ASSUME f \notin tainted'
      PROVE  /\ Id(f)' = Id(f) /\ (Id(f) \in DOMAIN fenceReg') = (Id(f) \in DOMAIN fenceReg)
             /\ FencePayload(f)' = FencePayload(f)
             /\ obj'[f].signaled = obj[f].signaled \/ obj'[f].signaled = FencePayload(f)
             /\ f \notin tainted
  <2>1. Still(f) BY <1>3, <1>8 DEF Same
  <2>. HIDE DEF FencePayload, f
  <2>. QED BY <2>1, <1>8, Zenon DEF Still
<1>9. ASSUME f \notin tainted', Id(f)' \in DOMAIN fenceReg', Carried(c)
      PROVE  FencePayload(f)' \/ Owed(s)
  <2>1. Id(f) \in DOMAIN fenceReg /\ f \notin tainted BY <1>8, <1>9
  <2>2. FencePayload(f) \/ Owed(r) BY <1>4, <1>9, <2>1 DEF Payer
  <2>3. FencePayload(f)' = FencePayload(f) BY <1>8, <1>9
  <2>. HIDE DEF FencePayload, Owed
  <2>. QED BY <1>6, <2>2, <2>3
<1>10. ASSUME f \notin tainted', FencePayload(f)' \/ obj'[f].signaled
       PROVE  DoneFrom(s)
  <2>1. FencePayload(f) \/ obj[f].signaled
    <3>. HIDE DEF FencePayload, f
    <3>. QED BY <1>8, <1>10
  <2>2. DoneFrom(r) BY <1>1, <1>8, <1>10, <2>1, MeansDone
  <2>. QED BY <1>7, <2>2
<1>. QED BY <1>3, <1>4, <1>9, <1>10

\* The claims about running calls in the next state, call by call
LEMMA EachCall ==
    ASSUME \A u \in Threads : run'[u].kind = "submit" /\ run'[u].call.fence # None =>
              \A f \in {run'[u].call.fence} :
                 /\ promised'[f] = "no"
                 /\ f \notin tainted' /\ Id(f)' \in DOMAIN fenceReg' /\ Carried(run'[u].call)
                       => FencePayload(f)' \/ Owed(run'[u])
                 /\ f \notin tainted' /\ (FencePayload(f)' \/ obj'[f].signaled) => DoneFrom(run'[u])
    PROVE  FenceMeansDone' /\ OwesFence'
<1>1. FenceMeansDone'
  <2>1. ASSUME NEW u \in Threads, WithOwnFence(u)'
        PROVE  (/\ run[u].call.fence \notin tainted
                /\ FencePayload(run[u].call.fence) \/ obj[run[u].call.fence].signaled)' => DoneFrom(run[u])'
    BY <2>1 DEF WithOwnFence, FencePayload, Id
  <2>. QED BY <2>1, MeansDone DEF FencePayload, Id, WithOwnFence, FenceMeansDone, DoneFrom
<1>2. OwesFence'
  <2>1. ASSUME NEW u \in Threads, WithOwnFence(u)'
        PROVE  (promised[run[u].call.fence] = "no")' /\ Payer(u)'
    BY <2>1 DEF WithOwnFence, FencePayload, Id, Payer
  <2>. QED BY <2>1 DEF OwesFence
<1>. QED BY <1>1, <1>2, SMTT(40)

\* A step that leaves the fences alone keeps what is said of them.
LEMMA QuietKeeps ==
    ASSUME Core, FenceMeansDone, CarriedFenceSignals, OwesFence, QuietFences
    PROVE  FenceMeansDone' /\ CarriedFenceSignals' /\ OwesFence'
<1>1. CarriedFenceSignals'
  <2>1. ASSUME NEW f \in Fences, f \notin tainted', Live(f)', promised'[f] = "carried", Id(f)' \in DOMAIN fenceReg'
        PROVE  FencePayload(f)' /\ obj'[f].signaled
    <3>1. Live(f) /\ Still(f) BY <2>1 DEF QuietFences, Same
    <3>. QED BY <2>1, <3>1, CarriedKept
  <2>. HIDE DEF FencePayload
  <2>. QED BY <2>1 DEF CarriedFenceSignals
<1>2. ASSUME NEW u \in Threads, run'[u].kind = "submit", run'[u].call.fence # None
      PROVE  \A f \in {run'[u].call.fence} :
                 /\ promised'[f] = "no"
                 /\ f \notin tainted' /\ Id(f)' \in DOMAIN fenceReg' /\ Carried(run'[u].call)
                       => FencePayload(f)' \/ Owed(run'[u])
                 /\ f \notin tainted' /\ (FencePayload(f)' \/ obj'[f].signaled) => DoneFrom(run'[u])
  <2>1. Passes(u) BY <1>2 DEF QuietFences
  <2>2. run'[u].call = run[u].call BY <1>2, <2>1 DEF Passes
  <2>. QED BY <1>2, <2>1, <2>2, PassesKept
<1>. QED BY <1>1, <1>2, EachCall

----------------------------------------------------------------------------
\* The steps that are quiet about fences

\* The fence of a running call, which a step that only moves calls leaves alone
LEMMA QuietCalls ==
    ASSUME Core,
           \A u \in Threads : run'[u].kind = "submit" =>
              /\ run[u].kind = "submit"
              /\ \/ run'[u] = run[u]
                 \/ /\ run'[u].call = run[u].call /\ run'[u].prog = run[u].prog
                    /\ run'[u].pc = run[u].pc + 1 /\ ~Sends(Doing(u)),
           \A f \in Fences : Live(f)' => promised'[f] = "no" \/ Same(f),
           \A u \in Threads : WithOwnFence(u) =>
              \A f \in {run[u].call.fence} :
                 Live(f) => Same(f) /\ promised'[f] = promised[f]
    PROVE  QuietFences
<1>1. ASSUME NEW u \in Threads, run'[u].kind = "submit" PROVE Passes(u)
  <2>1. ASSUME run[u].call.fence # None
        PROVE  Same(run[u].call.fence) /\ promised'[run[u].call.fence] = promised[run[u].call.fence]
    <3>1. WithOwnFence(u) BY <1>1, <2>1 DEF WithOwnFence
    <3>2. Live(run[u].call.fence) BY <3>1, FenceOfCall
    <3>. QED BY <3>1, <3>2
  <2>. QED BY <1>1, <2>1 DEF Passes
<1>. QED BY <1>1 DEF QuietFences

\* A step is quiet when it changes no call and no fence a call uses.
LEMMA CallsQuiet ==
    ASSUME Core, CallsStill,
           \A f \in Fences : Live(f)' => promised'[f] = "no" \/ Same(f),
           \A u \in Threads : WithOwnFence(u) =>
              \A f \in {run[u].call.fence} : Live(f) => Still(f)
    PROVE  QuietFences
<1>1. \A u \in Threads : run'[u].kind = "submit" => run[u].kind = "submit" /\ run'[u] = run[u]
      BY DEF CallsStill
<1>2. \A u \in Threads : WithOwnFence(u) =>
              \A f \in {run[u].call.fence} : Live(f) => Same(f) /\ promised'[f] = promised[f]
      BY DEF Same, Still
<1>. QED BY <1>1, <1>2, QuietCalls

\* A step that leaves every fence and every call alone is quiet.
LEMMA AllStillQuiet ==
    ASSUME Core, CallsStill, AllStill, \A f \in Fences : Live(f)' => Live(f) \/ promised'[f] = "no"
    PROVE  QuietFences
<1>1. \A f \in Fences : Live(f)' => promised'[f] = "no" \/ Same(f) BY DEF AllStill, Same
<1>2. \A u \in Threads : WithOwnFence(u) => \A f \in {run[u].call.fence} : Live(f) => Still(f)
      BY FenceOfCall DEF AllStill
<1>. QED BY <1>1, <1>2, CallsQuiet

\* Destructions are quiet.
LEMMA DestroysQuiet == Core /\ Destroys => QuietFences
<1>. SUFFICES ASSUME Core, NEW t \in Threads, NEW o \in Objects, Destroy(t, o) PROVE QuietFences
     BY DEF Destroys
<1>1. \A f \in Fences : Live(f)' => promised'[f] = "no" \/ Same(f) BY DestroyStill DEF Same
<1>2. ASSUME NEW u \in Threads, WithOwnFence(u), NEW f \in {run[u].call.fence}, Live(f) PROVE Still(f)
  <2>1. f \in Fences /\ f \in UsedBy(run[u].call) BY <1>2, FenceOfCall
  <2>2. f # o BY <1>2, <2>1, DestroyStill DEF WithOwnFence
  <2>. QED BY <1>2, <2>1, <2>2, DestroyStill
<1>3. CallsStill BY DestroyStill
<1>. QED BY <1>1, <1>2, <1>3, CallsQuiet

\* So are host calls.
LEMMA HostCallsQuiet == Core /\ HostCalls => QuietFences
<1>. SUFFICES ASSUME Core, HostCalls PROVE QuietFences OBVIOUS
<1>0. FencesKept BY HostCallsStill
<1>1. \A f \in Fences : Live(f)' => promised'[f] = "no" \/ Same(f) BY <1>0 DEF FencesKept, Same, Cleared
<1>2. ASSUME NEW u \in Threads, WithOwnFence(u), NEW f \in {run[u].call.fence}, Live(f) PROVE Still(f)
  <2>1. f \in Fences /\ f \in UsedBy(run[u].call) BY <1>2, FenceOfCall
  <2>2. ~Cleared(f) BY <1>2, <2>1 DEF Cleared, WithOwnFence
  <2>. QED BY <1>0, <1>2, <2>1, <2>2 DEF FencesKept
<1>. QED BY <1>0, <1>1, <1>2, CallsQuiet DEF FencesKept

\* What a timeout left behind signals only the fences it has spoilt.
LEMMA DeviceRunsQuiet == Core /\ LeftFences /\ DeviceRuns => QuietFences
<1>. SUFFICES ASSUME Core, LeftFences, DeviceRuns PROVE QuietFences OBVIOUS
<1>. DEFINE es == Head(device)
<1>1. /\ device # <<>> /\ fenceReg' = SignaledFences(fenceReg, es)
      /\ UNCHANGED <<obj, tainted, promised, run>>
      BY DEF DeviceRuns
<1>2. device \in Seq(Seq(Held)) /\ 1 \in DOMAIN device /\ es = device[1] BY <1>1, Types
<1>3. /\ DOMAIN fenceReg' = DOMAIN fenceReg
      /\ \A id \in DOMAIN fenceReg : id \notin FenceIds(es) => fenceReg'[id] = fenceReg[id]
  <2>1. \A id \in DOMAIN fenceReg : fenceReg[id] \in BOOLEAN BY DEF Core, TypeOK, Registry
  <2>. HIDE DEF es
  <2>. QED BY <1>1, <2>1 DEF SignaledFences, FenceIds
<1>4. ASSUME NEW f \in Fences, Live(f), f \notin tainted PROVE Still(f)
  <2>1. Id(f) \notin LeftIds BY <1>4 DEF LeftFences
  <2>2. Id(f) \notin FenceIds(es) BY <1>2, <1>4, <2>1 DEF LeftIds, Live, Id
  <2>3. Id(f)' = Id(f) /\ Live(f)' BY <1>1, <1>4 DEF Id, Live
  <2>4. (Id(f) \in DOMAIN fenceReg') = (Id(f) \in DOMAIN fenceReg) BY <1>3
  <2>5. FencePayload(f)' = FencePayload(f)
    <3>1. CASE Id(f) \in DOMAIN fenceReg
      <4>1. fenceReg'[Id(f)] = fenceReg[Id(f)] BY <1>3, <2>2, <3>1
      <4>. QED BY <2>3, <2>4, <4>1 DEF FencePayload
    <3>2. CASE Id(f) \notin DOMAIN fenceReg BY <2>3, <2>4, <3>2 DEF FencePayload
    <3>. QED BY <3>1, <3>2
  <2>. HIDE DEF FencePayload
  <2>. QED BY <1>1, <2>3, <2>4, <2>5, Zenon DEF Still
<1>5. \A f \in Fences : Live(f)' => Live(f) /\ Same(f) BY <1>1, <1>4 DEF Same, Live, Id
<1>6. \A u \in Threads : WithOwnFence(u) =>
         \A f \in {run[u].call.fence} : Live(f) => Same(f) /\ promised'[f] = promised[f]
  BY <1>1, <1>4, FenceOfCall DEF Same
<1>7. \A u \in Threads : run'[u] = run[u] BY <1>1
<1>. QED BY <1>5, <1>6, <1>7, QuietCalls

\* So are the steps of a submission without a frame.
LEMMA PlainStepQuiet ==
    ASSUME Core, NEW t \in Threads, PlainStep(t)
    PROVE  QuietFences
<1>1. AllStill /\ Moves(t) /\ \A f \in Fences : Live(f)' => Live(f) BY PlainStepStill
<1>2. run'[t].kind = "submit" => ~Sends(Doing(t))
  <2>1. CASE Refuse(t)
    <3>1. Leave(t) BY <2>1 DEF Refuse, Fail
    <3>2. run'[t].kind = "idle" BY <3>1, LeaveKeeps
    <3>. QED BY <3>2
  <2>2. CASE ~Refuse(t)
    <3>1. Doing(t).op \notin {"refuse", "frame"}
          BY <2>2 DEF PlainStep, Validate, HostOp, Dispatch, Complete, In
    <3>. QED BY <3>1 DEF Sends
  <2>. QED BY <2>1, <2>2
<1>3. \A f \in Fences : Live(f)' => promised'[f] = "no" \/ Same(f) BY <1>1 DEF AllStill, Same
<1>4. \A u \in Threads : WithOwnFence(u) =>
         \A f \in {run[u].call.fence} : Live(f) => Same(f) /\ promised'[f] = promised[f]
  BY <1>1, FenceOfCall DEF AllStill, Same, Still
<1>. QED BY <1>1, <1>2, <1>3, <1>4, QuietCalls DEF Moves

\* So is a frame that carries no fence.
LEMMA OtherFrameQuiet ==
    ASSUME Core, NEW t \in Threads, Frame(t), ~HasFence(Doing(t).what.entries)
    PROVE  QuietFences
<1>1. /\ \A f \in Fences : Live(f) => Still(f)
      /\ UNCHANGED <<obj, promised>> /\ Moves(t)
      BY FrameStill
<1>2. Doing(t).op = "frame" BY DEF Frame, In
<1>3. ~Sends(Doing(t)) BY <1>2 DEF Sends
<1>4. \A f \in Fences : Live(f)' => Live(f) BY <1>1 DEF Live, Id
<1>5. \A f \in Fences : Live(f)' => promised'[f] = "no" \/ Same(f) BY <1>1, <1>4 DEF Same
<1>6. \A u \in Threads : WithOwnFence(u) =>
         \A f \in {run[u].call.fence} : Live(f) => Same(f) /\ promised'[f] = promised[f]
  BY <1>1, FenceOfCall DEF Same
<1>. QED BY <1>1, <1>3, <1>5, <1>6, QuietCalls DEF Moves

\* After the frame with its fence, a call has no work left but that of later
\* VkSubmitInfos of vkQueueSubmit.
LEMMA DoneAfterFrame ==
    ASSUME NEW c \in Calls, NEW n \in 1..Len(Program(c)), NEW k \in 1..Len(Program(c)), n < k,
           Program(c)[n].op = "frame", HasFence(Program(c)[n].what.entries),
           Program(c)[k].op \in WorkOps
    PROVE  /\ c.api = "legacy"
           /\ \E i \in 1..(Program(c)[k].sub - 1) : GraphicsBufs(c.submits[i]) # {}
<1>. DEFINE i == Program(c)[n].sub   j == Program(c)[k].sub
<1>1. /\ c.api = "legacy" \/ i = Len(c.submits)
      /\ HasCompletion(Program(c)[n].what.entries) /\ GraphicsBufs(c.submits[i]) # {}
      BY StepEntries
<1>2. i # j BY <1>1, NothingLeft
<1>3. Len(c.submits) \in Nat /\ i \in 1..Len(c.submits) /\ j \in 1..Len(c.submits) BY CallFacts, StepFacts
<1>4. n <= k
  <2>1. Program(c) \in Seq(AnyStep(c)) BY ProgramForm
  <2>2. Len(Program(c)) \in Nat BY <2>1
  <2>. QED BY <2>2
<1>5. i <= j BY <1>4, SubsInOrder
<1>. HIDE DEF i, j
<1>6. i \in 1..(j - 1) /\ i # Len(c.submits) BY <1>2, <1>3, <1>5
<1>. QED BY <1>1, <1>6 DEF i, j

\* The frame that carries the fence of its call: if the device ran it, the fence
\* is signaled and the work it stands for is done; if a timeout left it on the
\* queue, the fence is tainted; otherwise the call is over.
LEMMA FenceFrameKeeps ==
    ASSUME FenceInv, NEW t \in Threads, Frame(t), HasFence(Doing(t).what.entries)
    PROVE  FenceMeansDone' /\ CarriedFenceSignals' /\ OwesFence'
<1>1. run[t].kind = "submit" /\ Doing(t).op = "frame" /\ Core BY DEF Frame, In, FenceInv
<1>2. PICK c, f : c = run[t].call /\ f = run[t].call.fence OBVIOUS
<1>. DEFINE r == run[t]   s == run'[t]
<1>3. /\ \A g \in Fences \ {f} : Live(g) => Still(g)
      /\ UNCHANGED <<obj, promised>> /\ Moves(t) /\ f \in Fences
      /\ s.kind = "submit" => FencePayload(f)'
  <2>1. /\ \A g \in Fences : Live(g) /\ ~(g = f /\ HasFence(Doing(t).what.entries)) => Still(g)
        /\ UNCHANGED <<obj, promised>> /\ Moves(t) /\ f \in Fences
        /\ HasFence(Doing(t).what.entries) /\ s.kind = "submit" => \A g \in {f} : FencePayload(g)'
    BY <1>1, <1>2, FrameStill
  <2>2. f \in {f} OBVIOUS
  <2>3. s.kind = "submit" => FencePayload(f)'
    <3>. HIDE DEF s, FencePayload
    <3>. QED BY <2>1, <2>2
  <2>. QED BY <2>1, <2>3
<1>4. c \in Calls /\ r.prog = Program(c) /\ r.pc \in 1..Len(Program(c)) /\ Doing(t) = Program(c)[r.pc]
      BY <1>1, <1>2, RunFacts DEF Core
<1>5. promised[f] = "no"
  <2>1. f # None BY <1>3, NameAssumption DEF Objects
  <2>. QED BY <1>1, <1>2, <2>1 DEF FenceInv, OwesFence, WithOwnFence
<1>6. s.kind = "submit" => s.call = c /\ s.prog = Program(c) /\ s.pc = r.pc + 1
  <2>1. Leave(t) \/ Onward(t, Doing(t).what.ops) BY DEF Frame, Fail
  <2>2. CASE Leave(t)
    <3>1. s.kind = "idle" BY <1>1, <2>2, LeaveKeeps
    <3>. QED BY <3>1
  <2>3. CASE Onward(t, Doing(t).what.ops)
    <3>1. Doing(t).what.ops \in Seq(OpKinds) BY <1>1, FrameForm
    <3>2. Doing(t).op # "end" BY <1>1
    <3>3. s.call = r.call /\ s.prog = r.prog /\ s.pc = r.pc + 1 BY <1>1, <2>3, <3>1, <3>2, OnwardKeeps
    <3>. QED BY <1>2, <1>4, <3>3
  <2>. QED BY <2>1, <2>2, <2>3
<1>7. CarriedFenceSignals'
  <2>1. ASSUME NEW g \in Fences, g \notin tainted', Live(g)', promised'[g] = "carried", Id(g)' \in DOMAIN fenceReg'
        PROVE  FencePayload(g)' /\ obj'[g].signaled
    <3>1. Live(g) BY <1>3, <2>1 DEF Live, Id
    <3>2. g # f BY <1>3, <1>5, <2>1
    <3>3. Still(g) BY <1>3, <3>1, <3>2
    <3>. QED BY <2>1, <3>1, <3>3, CarriedKept DEF FenceInv
  <2>. HIDE DEF FencePayload
  <2>. QED BY <2>1 DEF CarriedFenceSignals
<1>8. s.kind = "submit" => DoneFrom(s)
  <2>1. ASSUME s.kind = "submit", NEW k \in s.pc..Len(s.prog), s.prog[k].op \in WorkOps
        PROVE  /\ s.call.api = "legacy"
               /\ \E i \in 1..(s.prog[k].sub - 1) : GraphicsBufs(s.call.submits[i]) # {}
    <3>1. s.call = c /\ s.prog = Program(c) /\ s.pc = r.pc + 1 BY <1>6, <2>1
    <3>2. k \in 1..Len(Program(c)) /\ r.pc < k
      <4>. HIDE DEF r, s
      <4>. QED BY <1>4, <2>1, <3>1
    <3>3. Program(c)[r.pc].op = "frame" /\ HasFence(Program(c)[r.pc].what.entries) BY <1>1, <1>4
    <3>. HIDE DEF r, s
    <3>. QED BY <1>4, <2>1, <3>1, <3>2, <3>3, DoneAfterFrame
  <2>. HIDE DEF s
  <2>. QED BY <2>1 DEF DoneFrom
<1>9. ASSUME NEW u \in Threads, run'[u].kind = "submit", run'[u].call.fence # None
      PROVE  \A g \in {run'[u].call.fence} :
                 /\ promised'[g] = "no"
                 /\ g \notin tainted' /\ Id(g)' \in DOMAIN fenceReg' /\ Carried(run'[u].call)
                       => FencePayload(g)' \/ Owed(run'[u])
                 /\ g \notin tainted' /\ (FencePayload(g)' \/ obj'[g].signaled) => DoneFrom(run'[u])
  <2>1. run[u].kind = "submit" BY <1>3, <1>9 DEF Moves
  <2>2. u = t BY <1>1, <2>1 DEF Core, OneAtATime
  <2>3. run'[u].call.fence = f BY <1>2, <1>6, <1>9, <2>2
  <2>4. FencePayload(f)' /\ DoneFrom(run'[u]) /\ promised'[f] = "no" BY <1>3, <1>5, <1>8, <1>9, <2>2
  <2>. HIDE DEF FencePayload, s
  <2>. QED BY <2>3, <2>4
<1>. QED BY <1>7, <1>9, EachCall

\* A new call owes its fence the frame that will carry it.
LEMMA BeginKeeps ==
    ASSUME FenceInv, NEW t \in Threads, NEW c \in Calls, SubmitBegin(t, c)
    PROVE  FenceMeansDone' /\ CarriedFenceSignals' /\ OwesFence'
<1>1. /\ \A g \in Fences \ {c.fence} : Live(g) => Still(g)
      /\ \A g \in Fences : Live(g)' => Live(g)
      /\ c.fence # None => /\ c.fence \in Fences /\ promised'[c.fence] = "no"
                           /\ obj'[c.fence].signaled = FALSE /\ ~FencePayload(c.fence)'
      /\ \A u \in Threads : run'[u].kind = "submit" =>
            u = t /\ run'[u].call = c /\ run'[u].prog = Program(c) /\ run'[u].pc = 1
      BY SubmitBeginStill DEF FenceInv
<1>2. CarriedFenceSignals'
  <2>1. ASSUME NEW g \in Fences, g \notin tainted', Live(g)', promised'[g] = "carried", Id(g)' \in DOMAIN fenceReg'
        PROVE  FencePayload(g)' /\ obj'[g].signaled
    <3>1. g # None BY <2>1, NameAssumption DEF Objects
    <3>2. Live(g) /\ g # c.fence BY <1>1, <2>1, <3>1
    <3>3. Still(g) BY <1>1, <3>2
    <3>. QED BY <2>1, <3>2, <3>3, CarriedKept DEF FenceInv
  <2>. HIDE DEF FencePayload
  <2>. QED BY <2>1 DEF CarriedFenceSignals
<1>3. ASSUME NEW u \in Threads, run'[u].kind = "submit", run'[u].call.fence # None
      PROVE  \A g \in {run'[u].call.fence} :
                 /\ promised'[g] = "no"
                 /\ g \notin tainted' /\ Id(g)' \in DOMAIN fenceReg' /\ Carried(run'[u].call)
                       => FencePayload(g)' \/ Owed(run'[u])
                 /\ g \notin tainted' /\ (FencePayload(g)' \/ obj'[g].signaled) => DoneFrom(run'[u])
  <2>. DEFINE s == run'[u]
  <2>1. s.call = c /\ s.prog = Program(c) /\ s.pc = 1 /\ c.fence # None BY <1>1, <1>3
  <2>2. Carried(c) => Owed(s)
    <3>1. ASSUME Carried(c) PROVE \E n \in 1..Len(Program(c)) : Sends(Program(c)[n])
          BY <2>1, <3>1, CarriedStep DEF Sends
    <3>. HIDE DEF s
    <3>. QED BY <2>1, <3>1 DEF Owed
  <2>. HIDE DEF s, FencePayload
  <2>. QED BY <1>1, <2>1, <2>2 DEF s
<1>. QED BY <1>2, <1>3, EachCall

\* The last step makes the promise that the frame has kept.
LEMMA EndKeeps ==
    ASSUME FenceInv, NEW t \in Threads, SubmitEnd(t)
    PROVE  FenceMeansDone' /\ CarriedFenceSignals' /\ OwesFence'
<1>1. PICK c, f : c = run[t].call /\ f = run[t].call.fence OBVIOUS
<1>2. /\ \A g \in Fences \ {f} : Live(g) => Still(g)
      /\ \A g \in Fences : Live(g)' => Live(g)
      /\ \A u \in Threads : run'[u].kind # "submit"
      /\ f \in Fences => /\ obj'[f].signaled = TRUE
                         /\ promised'[f] = IF Carried(c) THEN "carried" ELSE "local"
      /\ fenceReg' = fenceReg /\ tainted' = tainted
      /\ run[t].kind = "submit" /\ Doing(t).op = "end" /\ IdsKept
      BY <1>1, SubmitEndStill DEF FenceInv
<1>3. ASSUME f \in Fences, f \notin tainted, promised'[f] = "carried", Id(f)' \in DOMAIN fenceReg'
      PROVE  FencePayload(f)'
  <2>1. Id(f)' = Id(f) BY <1>2, <1>3 DEF IdsKept, Id, Objects
  <2>2. Carried(c) BY <1>2, <1>3
  <2>3. f # None BY <1>3, NameAssumption DEF Objects
  <2>4. FencePayload(f) \/ Owed(run[t])
        BY <1>1, <1>2, <1>3, <2>1, <2>2, <2>3 DEF FenceInv, OwesFence, WithOwnFence, Payer
  <2>5. ~Owed(run[t])
    <3>1. /\ c \in Calls /\ run[t].prog = Program(c) /\ run[t].pc \in 1..Len(Program(c))
          /\ Doing(t) = Program(c)[run[t].pc]
          BY <1>1, <1>2, RunFacts DEF FenceInv, Core
    <3>2. run[t].pc = Len(Program(c)) BY <1>2, <3>1, StepFacts
    <3>3. \A n \in run[t].pc..Len(run[t].prog) : n = run[t].pc
      <4>1. Len(Program(c)) \in Nat BY <3>1, <3>2
      <4>. QED BY <3>1, <3>2, <4>1
    <3>4. ~Sends(Doing(t)) BY <1>2 DEF Sends
    <3>. QED BY <3>3, <3>4 DEF Owed, Doing
  <2>. QED BY <1>2, <2>1, <2>4, <2>5 DEF FencePayload
<1>4. CarriedFenceSignals'
  <2>1. ASSUME NEW g \in Fences, g \notin tainted', Live(g)', promised'[g] = "carried", Id(g)' \in DOMAIN fenceReg'
        PROVE  FencePayload(g)' /\ obj'[g].signaled
    <3>1. CASE g = f BY <1>2, <1>3, <2>1, <3>1
    <3>2. CASE g # f
      <4>1. Live(g) /\ Still(g) BY <1>2, <2>1, <3>2
      <4>. QED BY <2>1, <4>1, CarriedKept DEF FenceInv
    <3>. QED BY <3>1, <3>2
  <2>. HIDE DEF FencePayload
  <2>. QED BY <2>1 DEF CarriedFenceSignals
<1>. QED BY <1>2, <1>4, EachCall

\* A restart takes the promises back, and the executor knows no fence.
LEMMA RestartKeeps ==
    ASSUME FenceInv, Restart
    PROVE  FenceMeansDone' /\ CarriedFenceSignals' /\ OwesFence'
<1>1. /\ fenceReg' = <<>> /\ promised' = [f \in Fences |-> "no"] /\ UNCHANGED <<obj, tainted>>
      /\ run' = [u \in Threads |->
                 IF run[u].kind # "wait" THEN run[u]
                 ELSE IF busy.kind = "fences" THEN [run[u] EXCEPT !.kind = "poll"] ELSE Idle]
      BY DEF Restart
<1>2. \A u \in Threads : run'[u].kind = "submit" => run[u].kind = "submit" /\ run'[u] = run[u]
  <2>1. Core BY DEF FenceInv
  <2>2. ASSUME NEW u \in Threads, run[u].kind = "wait" PROVE run'[u].kind # "submit"
    <3>1. run[u] \in {Idle} \cup Waits({"wait", "poll"}, Threads) \cup Submitting BY <2>1 DEF Core, TypeOK
    <3>2. \A r \in Submitting : r.kind = "submit" BY DEF Submitting
    <3>3. Idle.kind = "idle" BY DEF Idle
    <3>4. run[u] \in Waits({"wait", "poll"}, Threads) BY <2>2, <3>1, <3>2, <3>3
    <3>5. [run[u] EXCEPT !.kind = "poll"].kind = "poll" BY <3>4 DEF Waits
    <3>. QED BY <1>1, <2>2, <3>3, <3>5
  <2>. QED BY <1>1, <2>2
<1>3. DOMAIN fenceReg' = {} BY <1>1
<1>4. CarriedFenceSignals' BY <1>3 DEF CarriedFenceSignals
<1>5. ASSUME NEW u \in Threads, run'[u].kind = "submit", run'[u].call.fence # None
      PROVE  \A g \in {run'[u].call.fence} :
                 /\ promised'[g] = "no"
                 /\ g \notin tainted' /\ Id(g)' \in DOMAIN fenceReg' /\ Carried(run'[u].call)
                       => FencePayload(g)' \/ Owed(run'[u])
                 /\ g \notin tainted' /\ (FencePayload(g)' \/ obj'[g].signaled) => DoneFrom(run'[u])
  <2>1. WithOwnFence(u) /\ run'[u] = run[u] BY <1>2, <1>5 DEF WithOwnFence
  <2>2. run[u].call.fence \in Fences BY <2>1, FenceOfCall DEF FenceInv
  <2>3. PICK g : g = run[u].call.fence OBVIOUS
  <2>4. promised'[g] = "no" /\ Id(g)' \notin DOMAIN fenceReg' /\ ~FencePayload(g)'
        BY <1>1, <1>3, <2>2, <2>3 DEF FencePayload
  <2>5. g \notin tainted /\ obj[g].signaled => DoneFrom(run[u]) BY <2>1, <2>3, MeansDone DEF FenceInv
  <2>6. run'[u].call.fence = g BY <2>1, <2>3
  <2>. HIDE DEF FencePayload
  <2>. QED BY <1>1, <2>1, <2>4, <2>5, <2>6
<1>. QED BY <1>4, <1>5, EachCall

\* The invariant of the fences holds at first.
LEMMA FenceInvInit == Init => FenceInv
<1>. SUFFICES ASSUME Init PROVE FenceInv OBVIOUS
<1>1. Core BY CoreInit
<1>2. \A u \in Threads : run[u].kind # "submit" BY DEF Init, Idle
<1>3. device = <<>> /\ promised = [f \in Fences |-> "no"] BY DEF Init
<1>4. LeftFences
  <2>1. LeftIds = {} BY <1>3 DEF LeftIds
  <2>. QED BY <2>1 DEF LeftFences
<1>5. FenceMeansDone BY <1>2 DEF FenceMeansDone
<1>6. CarriedFenceSignals BY <1>3 DEF CarriedFenceSignals
<1>7. OwesFence BY <1>2 DEF OwesFence, WithOwnFence
<1>. QED BY <1>1, <1>4, <1>5, <1>6, <1>7 DEF FenceInv

\* Every step keeps it.
LEMMA FenceInvNext == FenceInv /\ [Next]_vars => FenceInv'
<1>. SUFFICES ASSUME FenceInv, [Next]_vars PROVE FenceInv' OBVIOUS
<1>0. Core /\ LeftFences BY DEF FenceInv
<1>1. Core' /\ LeftFences' BY <1>0, CoreNext, LeftNext
<1>2. ASSUME QuietFences PROVE FenceMeansDone' /\ CarriedFenceSignals' /\ OwesFence'
  BY <1>2, QuietKeeps DEF FenceInv
<1>3. FenceMeansDone' /\ CarriedFenceSignals' /\ OwesFence'
  <2>1. CASE UNCHANGED vars
    <3>1. \A f \in Fences : Live(f) => Live(f)' /\ Still(f)
          BY <2>1, Zenon DEF vars, Still, Live, Id, FencePayload
    <3>2. \A f \in Fences : Live(f)' => Live(f) BY <2>1 DEF vars, Live, Id
    <3>3. run' = run BY <2>1 DEF vars
    <3>4. QuietFences BY <1>0, <3>1, <3>2, <3>3, SameRunStill, AllStillQuiet DEF AllStill
    <3>. QED BY <1>2, <3>4
  <2>2. CASE Creates
    <3>1. AllStill /\ CallsStill /\ \A f \in Fences : Live(f)' => Live(f) \/ promised'[f] = "no"
          BY <1>0, <2>2, CreatesStill
    <3>. QED BY <1>0, <1>2, <3>1, AllStillQuiet
  <2>3. CASE Destroys BY <1>0, <1>2, <2>3, DestroysQuiet
  <2>4. CASE HostCalls BY <1>0, <1>2, <2>4, HostCallsQuiet
  <2>5. CASE WaitCalls
    <3>1. AllStill /\ CallsStill /\ IdsKept BY <1>0, <2>5, WaitCallsStill, WaitCallsCore
    <3>2. \A f \in Fences : Live(f)' => Live(f) BY <3>1 DEF IdsKept, Live, Id, Objects
    <3>. QED BY <1>0, <1>2, <3>1, <3>2, AllStillQuiet
  <2>6. CASE SubmitCalls
    <3>1. ASSUME NEW t \in Threads, Frame(t)
          PROVE  FenceMeansDone' /\ CarriedFenceSignals' /\ OwesFence'
      <4>1. CASE HasFence(Doing(t).what.entries) BY <3>1, <4>1, FenceFrameKeeps
      <4>2. CASE ~HasFence(Doing(t).what.entries) BY <1>0, <1>2, <3>1, <4>2, OtherFrameQuiet
      <4>. QED BY <4>1, <4>2
    <3>2. ASSUME NEW t \in Threads, PlainStep(t)
          PROVE  FenceMeansDone' /\ CarriedFenceSignals' /\ OwesFence'
      BY <1>0, <1>2, <3>2, PlainStepQuiet
    <3>. QED BY <2>6, <3>1, <3>2, BeginKeeps, EndKeeps DEF SubmitCalls, PlainStep
  <2>7. CASE DeviceRuns BY <1>0, <1>2, <2>7, DeviceRunsQuiet
  <2>8. CASE Restart BY <2>8, RestartKeeps
  <2>9. CASE Crash
    <3>1. /\ obj' = [o \in Objects |-> Dead] /\ run' = [u \in Threads |-> Idle]
          /\ promised' = [f \in Fences |-> "no"]
          BY <2>9 DEF Crash
    <3>2. \A u \in Threads : run'[u].kind # "submit" BY <3>1 DEF Idle
    <3>3. CarriedFenceSignals' BY <3>1 DEF CarriedFenceSignals
    <3>. QED BY <3>2, <3>3, EachCall
  <2>. QED BY <2>1, <2>2, <2>3, <2>4, <2>5, <2>6, <2>7, <2>8, <2>9, NextSplits
<1>. QED BY <1>1, <1>3 DEF FenceInv

\* Whoever is told, by the executor or by the local copy, that the fence of a
\* running vkQueueSubmit is signaled can rely on the work of the first
\* VkSubmitInfo that took it there, and of all of them under vkQueueSubmit2.
THEOREM FencesTellTheTruth == Spec => []FenceMeansDone
<1>1. FenceInv => FenceMeansDone BY DEF FenceInv
<1>. QED BY <1>1, FenceInvInit, FenceInvNext, PTL DEF Spec

\* A fence that travelled to the executor with a frame is signaled there and
\* in the local copy once its submission has returned success.
THEOREM CarriedFencesStay == Spec => []CarriedFenceSignals
<1>1. FenceInv => CarriedFenceSignals BY DEF FenceInv
<1>. QED BY <1>1, FenceInvInit, FenceInvNext, PTL DEF Spec

----------------------------------------------------------------------------
\* What a frame does: the commands from the first record to the last

\* The members of an interval, in their order
LEMMA IntervalPlaces ==
    ASSUME NEW a \in Nat, NEW z \in Nat, a <= z + 1, NEW P, P = a..z
    PROVE  /\ Cardinality(P) = (z - a) + 1
           /\ \A k \in 1..Cardinality(P) : InOrder(P)[k] = (a + k) - 1
<1>1. IsFiniteSet(P) /\ Cardinality(P) = (z - a) + 1
  <2>1. a \in Int /\ z \in Int OBVIOUS
  <2>2. IsFiniteSet(a..z) /\ Cardinality(a..z) = IF a > z THEN 0 ELSE z - a + 1 BY <2>1, FS_Interval
  <2>. QED BY <2>2
<1>2. P \in SUBSET Nat OBVIOUS
<1>3. ASSUME NEW k \in 1..Cardinality(P) PROVE InOrder(P)[k] = (a + k) - 1
  <2>. DEFINE n == InOrder(P)[k]
  <2>1. n \in P /\ Cardinality({m \in P : m < n}) = k - 1 BY <1>1, <1>2, OrderedPlaces
  <2>. HIDE DEF n
  <2>2. n \in Nat /\ a <= n /\ n <= z /\ k \in Nat BY <1>1, <2>1
  <2>3. {m \in P : m < n} = a..(n - 1) BY <2>2
  <2>4. n - 1 \in Int /\ a \in Int BY <2>2
  <2>5. Cardinality(a..(n - 1)) = IF a > n - 1 THEN 0 ELSE (n - 1) - a + 1 BY <2>4, FS_Interval
  <2>6. Cardinality(a..(n - 1)) = n - a BY <2>2, <2>5
  <2>7. n - a = k - 1 BY <2>1, <2>3, <2>6
  <2>. QED BY <2>2, <2>7 DEF n
<1>. QED BY <1>1, <1>3

\* The commands of a frame whose plan was accepted stand together: they are
\* those from the first graphics record to the last.
LEMMA FrameSpan ==
    ASSUME NEW b \in Bufs, Graphics(b), MixedPlan(b)
    PROVE  InFrame(b) = FirstGpu(b)..FrameEnd(b)
<1>. DEFINE x == OpsOf(b)   L == Len(x)   f == FirstGpu(b)   l == LastGpu(b)   e == FrameEnd(b)
<1>1. x \in Seq(OpKinds) /\ L \in Nat /\ DOMAIN x = 1..L BY OpsType
<1>2. f \in Nat /\ l \in Nat /\ 1 <= f /\ f <= l /\ l <= L + 1 BY BeforeAfter
<1>3. ASSUME NEW k \in 1..L, x[k] \in FrameKinds PROVE f <= k /\ k <= l BY <1>3, RecordedInFrame, KindFacts
<1>4. ASSUME NEW k \in 1..L, BetweenDraws(b, k) PROVE f <= k /\ k <= l
  <2>1. \A d \in Draws(b) : d \in 1..L /\ x[d] \in FrameKinds BY <1>1 DEF Draws, FrameKinds
  <2>2. PICK d, d2 \in Draws(b) : d < k /\ k < d2 BY <1>4 DEF BetweenDraws
  <2>3. f <= d /\ d2 <= l /\ d \in Nat /\ d2 \in Nat BY <1>3, <2>1, <2>2
  <2>. HIDE DEF f, l
  <2>. QED BY <1>2, <2>2, <2>3
<1>5. \A k \in InFrame(b) : k \in 1..L /\ f <= k /\ k <= l BY <1>1, <1>3, <1>4 DEF InFrame
<1>6. ASSUME NEW k \in 1..L, f <= k, k <= l PROVE k \in InFrame(b)
  <2>1. \/ x[k] \in FrameKinds
        \/ BetweenDraws(b, k) /\ x[k] \in TransferKinds
    <3>1. k >= f BY <1>2, <1>6
    <3>. QED BY <1>1, <1>6, <3>1 DEF MixedPlan
  <2>. QED BY <1>1, <2>1 DEF InFrame
<1>7. e = (IF l <= L THEN l ELSE L) BY DEF FrameEnd
<1>. HIDE DEF x, f, l, e, L
<1>8. \A k : k \in f..e <=> k \in 1..L /\ f <= k /\ k <= l BY <1>1, <1>2, <1>7
<1>. QED BY <1>5, <1>6, <1>8 DEF f, e

\* Before the frame, in it and after it: every command once, in order.
LEMMA AllCommands ==
    ASSUME NEW b \in Bufs, Graphics(b), MixedPlan(b)
    PROVE  OpsOf(b) = (Before(b) \o FrameOps(b)) \o After(b)
<1>. DEFINE x == OpsOf(b)   L == Len(x)   f == FirstGpu(b)   l == LastGpu(b)   e == FrameEnd(b)
            p == Before(b)   m == FrameOps(b)   q == After(b)
<1>1. x \in Seq(OpKinds) /\ L \in Nat /\ DOMAIN x = 1..L BY OpsType
<1>2. /\ f \in Nat /\ l \in Nat /\ 1 <= f /\ f <= l /\ l <= L + 1
      /\ p \in Seq(OpKinds) /\ Len(p) = f - 1 /\ \A k \in 1..Len(p) : p[k] = x[k]
      /\ q \in Seq(OpKinds)
      /\ l = L + 1 => q = <<>>
      /\ l <= L => Len(q) = L - l
      /\ \A k \in 1..Len(q) : q[k] = x[l + k]
      BY BeforeAfter
<1>3. e = (IF l <= L THEN l ELSE L) BY DEF FrameEnd
<1>4. InFrame(b) = f..e BY FrameSpan
<1>5. /\ m = [k \in 1..Cardinality(InFrame(b)) |-> x[InOrder(InFrame(b))[k]]]
      /\ m \in Seq(OpKinds)
      BY FrameOpsType
<1>. HIDE DEF x, L, f, l, e, p, m, q
<1>6. e \in Nat /\ f <= e + 1 /\ e <= L BY <1>1, <1>2, <1>3
<1>7. /\ Cardinality(InFrame(b)) = (e - f) + 1
      /\ \A k \in 1..Cardinality(InFrame(b)) : InOrder(InFrame(b))[k] = (f + k) - 1
  <2>. DEFINE P == InFrame(b)
  <2>1. P = f..e BY <1>4
  <2>. HIDE DEF P
  <2>0. f \in Nat /\ e \in Nat /\ f <= e + 1 BY <1>2, <1>6
  <2>2. /\ Cardinality(P) = (e - f) + 1
        /\ \A k \in 1..Cardinality(P) : InOrder(P)[k] = (f + k) - 1
        BY <2>0, <2>1, IntervalPlaces, SMTT(40)
  <2>. QED BY <2>2 DEF P
<1>8. (e - f) + 1 \in Nat BY <1>2, <1>6
<1>9. Len(m) = (e - f) + 1 /\ \A k \in 1..Len(m) : m[k] = x[(f + k) - 1] BY <1>5, <1>7, <1>8
<1>10. Len(q) = L - e /\ \A k \in 1..Len(q) : q[k] = x[e + k]
  <2>1. CASE l <= L BY <1>2, <1>3, <2>1
  <2>2. CASE ~(l <= L)
    <3>1. l = L + 1 /\ e = L BY <1>1, <1>2, <1>3, <2>2
    <3>2. q = <<>> BY <1>2, <3>1
    <3>. QED BY <1>1, <3>1, <3>2
  <2>. QED BY <2>1, <2>2
<1>. DEFINE u == p \o m   w == u \o q
<1>11. /\ u \in Seq(OpKinds) /\ Len(u) = Len(p) + Len(m) /\ Len(p) \in Nat /\ Len(m) \in Nat
       /\ \A k \in 1..Len(p) : u[k] = p[k]
       /\ \A k \in 1..Len(m) : u[Len(p) + k] = m[k]
  <2>1. Joins(u, p, m) /\ p \in Seq(OpKinds) /\ m \in Seq(OpKinds) BY <1>2, <1>5 DEF Joins
  <2>. HIDE DEF u
  <2>. QED BY <2>1, ConcatAt
<1>. HIDE DEF u
<1>12. /\ w \in Seq(OpKinds) /\ Len(w) = Len(u) + Len(q) /\ Len(u) \in Nat /\ Len(q) \in Nat
       /\ \A k \in 1..Len(u) : w[k] = u[k]
       /\ \A k \in 1..Len(q) : w[Len(u) + k] = q[k]
  <2>1. Joins(w, u, q) /\ u \in Seq(OpKinds) /\ q \in Seq(OpKinds) BY <1>2, <1>11 DEF Joins
  <2>. HIDE DEF w
  <2>. QED BY <2>1, ConcatAt
<1>. HIDE DEF w
<1>13. Len(u) = e /\ Len(w) = L BY <1>1, <1>2, <1>6, <1>9, <1>10, <1>11, <1>12
<1>14. ASSUME NEW k \in 1..L PROVE w[k] = x[k]
  <2>0. k \in Nat /\ 1 <= k /\ k <= L BY <1>1
  <2>1. CASE k < f
    <3>1. k \in 1..Len(p) /\ k \in 1..Len(u) BY <1>2, <1>6, <1>13, <2>0, <2>1
    <3>. QED BY <1>2, <1>11, <1>12, <3>1
  <2>2. CASE f <= k /\ k <= e
    <3>. DEFINE g == (k - f) + 1
    <3>1. g \in 1..Len(m) /\ Len(p) + g = k /\ k \in 1..Len(u) /\ (f + g) - 1 = k
          BY <1>2, <1>6, <1>9, <1>13, <2>0, <2>2
    <3>. HIDE DEF g
    <3>2. w[k] = u[k] /\ u[k] = m[g] /\ m[g] = x[k] BY <1>9, <1>11, <1>12, <3>1
    <3>. QED BY <3>2
  <2>3. CASE e < k
    <3>. DEFINE g == k - e
    <3>1. g \in 1..Len(q) /\ Len(u) + g = k /\ e + g = k BY <1>6, <1>10, <1>13, <2>0, <2>3
    <3>. HIDE DEF g
    <3>2. w[k] = q[g] /\ q[g] = x[k] BY <1>10, <1>12, <3>1
    <3>. QED BY <3>2
  <2>. QED BY <1>2, <1>6, <2>0, <2>1, <2>2, <2>3
<1>15. w = x BY <1>1, <1>12, <1>13, <1>14
<1>. QED BY <1>15 DEF x, w, u, p, m, q

----------------------------------------------------------------------------
\* What steps have done

\* Every step does a sequence of commands.
LEMMA DidOfMaps ==
    ASSUME NEW c
    PROVE  Maps(DidOf(c), AnyStep(c), Seq(OpKinds))
<1>1. ASSUME NEW x \in AnyStep(c) PROVE OneStep(x) \in Seq(OpKinds)
  <2>1. <<"dispatch">> \in Seq(OpKinds) BY DEF OpKinds
  <2>2. <<>> \in Seq(OpKinds) OBVIOUS
  <2>3. x.what \in OpKinds => <<x.what>> \in Seq(OpKinds) OBVIOUS
  <2>. QED BY <2>1, <2>2, <2>3 DEF OneStep
<1>. HIDE DEF OneStep
<1>. QED BY <1>1 DEF Maps, DidOf

\* Joining steps joins what they do.
LEMMA DoneFacts ==
    ASSUME NEW c, NEW x \in Seq(AnyStep(c)), NEW y \in Seq(AnyStep(c)), NEW e \in AnyStep(c)
    PROVE  /\ Done(c, x) \in Seq(OpKinds)
           /\ Done(c, x \o y) = Done(c, x) \o Done(c, y)
           /\ Done(c, <<e>>) = OneStep(e)
           /\ OneStep(e) \in Seq(OpKinds)
<1>. DEFINE D == DidOf(c)   S == AnyStep(c)   R == Seq(OpKinds)
<1>1. Maps(D, S, R) BY DidOfMaps
<1>2. D[e] = OneStep(e) BY DEF DidOf
<1>3. D[e] \in R BY <1>1 DEF Maps
<1>. HIDE DEF D, S
<1>4. Map(D, x) \in Seq(R) /\ Map(D, y) \in Seq(R) BY <1>1, MapType DEF S
<1>5. Map(D, x \o y) = Map(D, x) \o Map(D, y) BY <1>1, MapConcat DEF S
<1>6. FlattenSeq(Map(D, x) \o Map(D, y)) = FlattenSeq(Map(D, x)) \o FlattenSeq(Map(D, y))
  <2>. DEFINE u == Map(D, x)   v == Map(D, y)
  <2>. HIDE DEF u, v
  <2>1. u \in Seq(Seq(OpKinds)) /\ v \in Seq(Seq(OpKinds)) BY <1>4 DEF u, v
  <2>2. FlattenSeq(u \o v) = FlattenSeq(u) \o FlattenSeq(v) BY <2>1, FlattenConcat
  <2>. QED BY <2>2 DEF u, v
<1>7. FlattenSeq(Map(D, x)) \in R BY <1>4, FlattenType
<1>8. Map(D, <<e>>) = <<D[e]>> BY DEF Map
<1>9. FlattenSeq(<<D[e]>>) = D[e] BY <1>3, FlattenOne
<1>. QED BY <1>2, <1>3, <1>5, <1>6, <1>7, <1>8, <1>9 DEF Done, D

\* The steps of a sequence of commands do these commands.
LEMMA OpsDone ==
    ASSUME NEW c, NEW ops \in Seq(OpKinds), NEW i \in Nat
    PROVE  Done(c, OpSteps(ops, i)) = ops
<1>. DEFINE z == OpSteps(ops, i)   D == DidOf(c)
<1>1. /\ z \in Seq(AnyStep(c)) /\ Len(z) = Len(ops) /\ Len(ops) \in Nat
      /\ \A n \in 1..Len(ops) : z[n] = Step(IF ops[n] = "dispatch" THEN "dispatch" ELSE "host", i, ops[n])
      BY OpStepsFacts
<1>2. ASSUME NEW n \in 1..Len(ops) PROVE D[z[n]] = <<ops[n]>>
  <2>1. ops[n] \in OpKinds OBVIOUS
  <2>. DEFINE e == z[n]
  <2>2. e \in AnyStep(c) /\ e.what = ops[n] /\ e.op = (IF ops[n] = "dispatch" THEN "dispatch" ELSE "host")
    <3>1. e \in AnyStep(c) /\ e = Step(IF ops[n] = "dispatch" THEN "dispatch" ELSE "host", i, ops[n])
      <4>. HIDE DEF z
      <4>. QED BY <1>1
    <3>. HIDE DEF e
    <3>. QED BY <3>1 DEF Step
  <2>. HIDE DEF e
  <2>3. OneStep(e) = <<ops[n]>> BY <2>1, <2>2 DEF OneStep
  <2>4. DidOf(c)[e] = OneStep(e) BY <2>2 DEF DidOf
  <2>. QED BY <2>3, <2>4 DEF e
<1>. HIDE DEF z, D
<1>3. Map(D, z) = [n \in 1..Len(ops) |-> <<ops[n]>>] BY <1>1, <1>2 DEF Map
<1>4. FlattenSeq([n \in 1..Len(ops) |-> <<ops[n]>>]) = ops BY FlattenSingles
<1>. QED BY <1>3, <1>4 DEF Done, D, z

\* The steps of a buffer that is not refused do its commands.
LEMMA BufferDone ==
    ASSUME NEW c \in Calls, NEW i \in 1..Len(c.submits), NEW j \in 1..Len(c.submits[i].bufs),
           ~(Graphics(c.submits[i].bufs[j]) /\ Refused(c, i, j))
    PROVE  Done(c, BufferSteps(c, i, j)) = OpsOf(c.submits[i].bufs[j])
<1>. DEFINE b == c.submits[i].bufs[j]
<1>1. b \in Bufs /\ i \in Nat BY BufferForms
<1>2. OpsOf(b) \in Seq(OpKinds) BY <1>1, OpsType
<1>3. CASE ~Graphics(b)
  <2>1. BufferSteps(c, i, j) = OpSteps(OpsOf(b), i) BY <1>3 DEF BufferSteps
  <2>. HIDE DEF b
  <2>2. Done(c, OpSteps(OpsOf(b), i)) = OpsOf(b) BY <1>1, <1>2, OpsDone
  <2>. QED BY <2>1, <2>2 DEF b
<1>4. CASE Graphics(b) /\ ~Refused(c, i, j)
  <2>. DEFINE e == FrameStep(c, i, j)   p == OpSteps(Before(b), i)   q == OpSteps(After(b), i)   f == <<e>>
  <2>1. /\ BufferSteps(c, i, j) = (p \o f) \o q
        /\ e \in AnyStep(c) /\ p \in Seq(AnyStep(c)) /\ q \in Seq(AnyStep(c))
        BY <1>4, BufferForms
  <2>2. Before(b) \in Seq(OpKinds) /\ After(b) \in Seq(OpKinds) BY <1>1, <1>4, BeforeAfter
  <2>3. Done(c, p) = Before(b) /\ Done(c, q) = After(b) BY <1>1, <2>2, OpsDone
  <2>4. OneStep(e) = FrameOps(b)
    <3>1. FrameOps(b) \in Seq(OpKinds) BY <1>1, FrameOpsType
    <3>2. e.op = "frame" /\ e.what.ops = FrameOps(b) BY DEF FrameStep, Step
    <3>. HIDE DEF e
    <3>. QED BY <3>1, <3>2 DEF OneStep
  <2>5. OpsOf(b) = (Before(b) \o FrameOps(b)) \o After(b)
    <3>1. MixedPlan(b) BY <1>4 DEF Refused
    <3>. QED BY <1>1, <1>4, <3>1, AllCommands
  <2>. HIDE DEF e, p, q
  <2>6. f \in Seq(AnyStep(c)) BY <2>1
  <2>. HIDE DEF f
  <2>7. p \o f \in Seq(AnyStep(c)) BY <2>1, <2>6
  <2>8. Done(c, p \o f) = Done(c, p) \o Done(c, f) BY <2>1, <2>6, DoneFacts
  <2>9. Done(c, (p \o f) \o q) = Done(c, p \o f) \o Done(c, q)
    <3>. DEFINE u == p \o f
    <3>. HIDE DEF u
    <3>1. u \in Seq(AnyStep(c)) BY <2>7 DEF u
    <3>2. Done(c, u \o q) = Done(c, u) \o Done(c, q) BY <2>1, <3>1, DoneFacts
    <3>. QED BY <3>2 DEF u
  <2>10. Done(c, f) = OneStep(e) BY <2>1, DoneFacts DEF f
  <2>11. Done(c, BufferSteps(c, i, j)) = (Before(b) \o FrameOps(b)) \o After(b)
    <3>. HIDE DEF b
    <3>. QED BY <2>1, <2>3, <2>4, <2>8, <2>9, <2>10, Zenon
  <2>. QED BY <2>5, <2>11, Zenon
<1>. QED BY <1>3, <1>4

\* One step more does its commands more.
LEMMA ProgressNext ==
    ASSUME NEW c \in Calls, NEW i \in 1..Len(c.submits), NEW n \in Nat,
           n + 1 \in 1..Len(SubmitSteps(c, i))
    PROVE  /\ Progress(c, i, n) \in Seq(OpKinds)
           /\ Progress(c, i, n + 1) = Progress(c, i, n) \o OneStep(SubmitSteps(c, i)[n + 1])
<1>. DEFINE z == SubmitSteps(c, i)   S == AnyStep(c)
<1>1. z \in Seq(S) BY SubmitForm
<1>. HIDE DEF z, S
<1>2. n + 1 \in 1..Len(z) BY DEF z
<1>3. z[n + 1] \in S /\ n <= Len(z) BY <1>1, <1>2
<1>. DEFINE x == Take(z, n)   e == z[n + 1]
<1>4. x \in Seq(S) BY <1>1, <1>3, TakeFacts
<1>5. Take(z, n + 1) = Append(x, e) BY <1>1, <1>2, TakeStep
<1>. HIDE DEF x, e
<1>6. Append(x, e) = x \o <<e>> /\ e \in S BY <1>3, <1>4, AppendIsConcat DEF e
<1>7. <<e>> \in Seq(S) BY <1>6
<1>8. Done(c, x \o <<e>>) = Done(c, x) \o Done(c, <<e>>) /\ Done(c, <<e>>) = OneStep(e)
      /\ Done(c, x) \in Seq(OpKinds)
      BY <1>4, <1>6, <1>7, DoneFacts DEF S
<1>. QED BY <1>5, <1>6, <1>8 DEF Progress, x, e, z

\* The validation and the completion do nothing.
LEMMA ProgressStart ==
    ASSUME NEW c \in Calls, NEW i \in 1..Len(c.submits)
    PROVE  /\ Progress(c, i, 1) = <<>>
           /\ Progress(c, i, Len(SubmitSteps(c, i)) - 1) = Done(c, SubmitSteps(c, i))
<1>. DEFINE z == SubmitSteps(c, i)   L == Len(z)   v == Step("validate", i, None)   e == Step("complete", i, None)
<1>1. /\ z \in Seq(AnyStep(c)) /\ L \in Nat /\ L >= 2 /\ z[1] = v /\ z[L] = e BY SubmitForm
<1>2. OneStep(v) = <<>> /\ OneStep(e) = <<>> BY DEF OneStep, Step
<1>3. Take(z, 0) = <<>> /\ Take(z, L) = z
  <2>. HIDE DEF z
  <2>. QED BY <1>1, TakeFacts
<1>4. Progress(c, i, 0) = <<>>
  <2>1. Map(DidOf(c), <<>>) = <<>> BY DEF Map
  <2>. QED BY <1>3, <2>1, FlattenEmpty DEF Progress, Done
<1>. HIDE DEF v, e
<1>5. Progress(c, i, 1) = <<>>
  <2>1. 0 \in Nat /\ 0 + 1 \in 1..L /\ 0 + 1 = 1 BY <1>1
  <2>2. Progress(c, i, 0 + 1) = Progress(c, i, 0) \o OneStep(z[0 + 1]) BY <2>1, ProgressNext
  <2>3. <<>> \o <<>> = <<>> OBVIOUS
  <2>. HIDE DEF z, L
  <2>4. Progress(c, i, 1) = <<>> \o <<>> BY <1>1, <1>2, <1>4, <2>1, <2>2
  <2>. QED BY <2>3, <2>4
<1>6. Progress(c, i, L - 1) = Done(c, z)
  <2>. DEFINE n == L - 1
  <2>1. n \in Nat /\ n + 1 \in 1..L /\ n + 1 = L BY <1>1
  <2>. HIDE DEF n
  <2>2. /\ Progress(c, i, n + 1) = Progress(c, i, n) \o OneStep(z[n + 1])
        /\ Progress(c, i, n) \in Seq(OpKinds)
        BY <2>1, ProgressNext
  <2>. DEFINE y == Progress(c, i, n)
  <2>. HIDE DEF y, z, L
  <2>3. y \o <<>> = y BY <2>2 DEF y
  <2>4. Progress(c, i, n + 1) = y \o <<>> BY <1>1, <1>2, <2>1, <2>2 DEF y
  <2>5. Progress(c, i, n + 1) = Done(c, z) BY <1>3, <2>1 DEF Progress, z
  <2>. QED BY <2>3, <2>4, <2>5 DEF y, n
<1>. QED BY <1>5, <1>6

\* A VkSubmitInfo without a refusal does what was recorded in its buffers.
LEMMA SubmitDone ==
    ASSUME NEW c \in Calls, NEW i \in 1..Len(c.submits),
           \A k \in 1..(Len(SubmitSteps(c, i)) - 1) : SubmitSteps(c, i)[k].op # "refuse"
    PROVE  Done(c, SubmitSteps(c, i)) = WantedOps(c.submits[i])
<1>. DEFINE s == c.submits[i]   P == Pieces(c, i)   B == Body(c, i)   S == AnyStep(c)   L == Len(s.bufs)
            v == Step("validate", i, None)   e == Step("complete", i, None)   z == SubmitSteps(c, i)
<1>1. /\ P \in Seq(Seq(S)) /\ Len(P) = L /\ \A j \in 1..L : P[j] = BufferSteps(c, i, j)
      /\ B \in Seq(S) /\ Len(B) \in Nat /\ z \in Seq(S) /\ Len(z) = Len(B) + 2
      /\ \A k \in 1..Len(B) : z[1 + k] = B[k]
      BY SubmitForm
<1>2. L \in Nat /\ DOMAIN s.bufs = 1..L BY CallFacts
<1>3. ASSUME NEW j \in 1..L PROVE ~(Graphics(s.bufs[j]) /\ Refused(c, i, j))
  <2>1. SUFFICES ASSUME Graphics(s.bufs[j]), Refused(c, i, j) PROVE FALSE OBVIOUS
  <2>2. BufferSteps(c, i, j) = <<Step("refuse", i, None)>> BY <2>1 DEF BufferSteps
  <2>3. P[j] = <<Step("refuse", i, None)>> /\ j \in 1..Len(P) BY <1>1, <2>2
  <2>4. 1 \in 1..Len(P[j]) /\ P[j][1].op = "refuse" BY <2>3 DEF Step
  <2>. DEFINE k == Start(P, j) + 1
  <2>a. B = FlattenSeq(P) BY DEF Body
  <2>. HIDE DEF P, S, B
  <2>b. k \in 1..Len(FlattenSeq(P)) /\ FlattenSeq(P)[k] = P[j][1]
    <3>1. P \in Seq(Seq(S)) BY <1>1
    <3>2. j \in 1..Len(P) /\ 1 \in 1..Len(P[j]) BY <2>3, <2>4
    <3>3. /\ Start(P, j) + 1 \in 1..Len(FlattenSeq(P))
          /\ FlattenSeq(P)[Start(P, j) + 1] = P[j][1]
      <4>. HIDE DEF k, s, L, v, e, z
      <4>. QED BY <3>1, <3>2, FlattenAt
    <3>. QED BY <3>3
  <2>. HIDE DEF k
  <2>5. k \in 1..Len(B) /\ B[k].op = "refuse" BY <2>4, <2>a, <2>b
  <2>. HIDE DEF z
  <2>6. 1 + k \in 1..(Len(z) - 1) /\ z[1 + k].op = "refuse" BY <1>1, <2>5
  <2>. QED BY <2>6 DEF z
<1>4. \A j \in 1..L : Done(c, P[j]) = OpsOf(s.bufs[j]) BY <1>1, <1>3, BufferDone
<1>5. Done(c, B) = FlattenSeq([j \in 1..L |-> OpsOf(s.bufs[j])])
  <2>. DEFINE D == DidOf(c)
  <2>1. Maps(D, S, Seq(OpKinds)) BY DidOfMaps
  <2>2. \A j \in 1..L : FlattenSeq(Map(D, P[j])) = OpsOf(s.bufs[j]) BY <1>4 DEF Done
  <2>3. B = FlattenSeq(P) BY DEF Body
  <2>. HIDE DEF D, P, S, L, s, B
  <2>4. FlattenSeq(Map(D, FlattenSeq(P))) = FlattenSeq([j \in 1..Len(P) |-> FlattenSeq(Map(D, P[j]))])
    <3>1. P \in Seq(Seq(S)) BY <1>1
    <3>. HIDE DEF v, e, z
    <3>2. \A R : Maps(D, S, Seq(R)) =>
             FlattenSeq(Map(D, FlattenSeq(P))) = FlattenSeq([j \in 1..Len(P) |-> FlattenSeq(Map(D, P[j]))])
          BY <3>1, FlattenMap
    <3>. QED BY <2>1, <3>2
  <2>5. [j \in 1..Len(P) |-> FlattenSeq(Map(D, P[j]))] = [j \in 1..L |-> OpsOf(s.bufs[j])]
        BY <1>1, <2>2
  <2>. QED BY <2>3, <2>4, <2>5 DEF Done, D
<1>6. WantedOps(s) = FlattenSeq([j \in 1..L |-> OpsOf(s.bufs[j])]) BY <1>2 DEF WantedOps
<1>. DEFINE p == <<v>>   q == <<e>>
<1>7. z = (p \o B) \o q
  <2>1. DOMAIN c.submits[i].bufs = 1..Len(c.submits[i].bufs) BY <1>2
  <2>. QED BY <2>1 DEF SubmitSteps, Body, Pieces
<1>8. v \in S /\ e \in S /\ OneStep(v) = <<>> /\ OneStep(e) = <<>>
  <2>1. i \in Nat BY CallFacts
  <2>. QED BY <2>1 DEF Step, AnyStep, StepOps, OneStep
<1>. HIDE DEF v, e, B, S, z, P
<1>9. p \in Seq(S) /\ q \in Seq(S) BY <1>8
<1>10. Done(c, p) = <<>> /\ Done(c, q) = <<>> BY <1>8, <1>9, DoneFacts DEF S
<1>. HIDE DEF p, q
<1>. DEFINE u == p \o B   w == u \o q
<1>11. u \in Seq(S) /\ Done(c, u) = Done(c, p) \o Done(c, B) /\ Done(c, B) \in Seq(OpKinds)
  <2>1. u \in Seq(S) BY <1>1, <1>9
  <2>. QED BY <1>1, <1>8, <1>9, <2>1, DoneFacts DEF S
<1>. HIDE DEF u
<1>12. Done(c, w) = Done(c, u) \o Done(c, q) BY <1>8, <1>9, <1>11, DoneFacts DEF S
<1>13. w = z BY <1>7 DEF u
<1>. HIDE DEF w
<1>. DEFINE d == Done(c, B)
<1>14. Done(c, z) = (<<>> \o d) \o <<>> BY <1>10, <1>11, <1>12, <1>13
<1>. HIDE DEF d
<1>15. (<<>> \o d) \o <<>> = d BY <1>11 DEF d
<1>. QED BY <1>5, <1>6, <1>14, <1>15 DEF d, z

----------------------------------------------------------------------------

\* Where a step of a VkSubmitInfo stands, and that only the first validates
LEMMA StepAt ==
    ASSUME NEW c \in Calls, NEW n, NEW i, NEW m, At(c, n, i, m)
    PROVE  /\ n \in 1..Len(Program(c))
           /\ Program(c)[n] = SubmitSteps(c, i)[m]
           /\ Start(Subs(c), i) \in Nat
           /\ m = 1 <=> SubmitSteps(c, i)[m].op = "validate"
           /\ m = Len(SubmitSteps(c, i)) <=> SubmitSteps(c, i)[m].op = "complete"
<1>1. i \in 1..Len(c.submits) /\ m \in 1..Len(SubmitSteps(c, i)) /\ n = Start(Subs(c), i) + m BY DEF At
<1>2. /\ Subs(c) \in Seq(Seq(AnyStep(c))) /\ i \in 1..Len(Subs(c)) /\ m \in 1..Len(Subs(c)[i])
      /\ Subs(c)[i] = SubmitSteps(c, i)
      /\ Len(Program(c)) = Len(FlattenSeq(Subs(c))) + 1 /\ Len(FlattenSeq(Subs(c))) \in Nat
      /\ \A k \in 1..Len(FlattenSeq(Subs(c))) : Program(c)[k] = FlattenSeq(Subs(c))[k]
      BY <1>1, ProgramForm
<1>3. /\ Start(Subs(c), i) + m \in 1..Len(FlattenSeq(Subs(c)))
      /\ FlattenSeq(Subs(c))[Start(Subs(c), i) + m] = Subs(c)[i][m]
      BY <1>2, FlattenAt
<1>4. Start(Subs(c), i) \in Nat BY <1>2, StartType
<1>5. /\ m = 1 <=> SubmitSteps(c, i)[m].op = "validate"
      /\ m = Len(SubmitSteps(c, i)) <=> SubmitSteps(c, i)[m].op = "complete"
  <2>. DEFINE x == SubmitSteps(c, i)[m]   L == Len(SubmitSteps(c, i))
  <2>1. L \in Nat /\ L >= 2 /\ SubmitSteps(c, i)[1] = Step("validate", i, None)
        /\ SubmitSteps(c, i)[L] = Step("complete", i, None)
        BY <1>1, SubmitForm
  <2>2. m = 1 => x.op = "validate" BY <2>1 DEF Step
  <2>3. m = L => x.op = "complete" BY <2>1 DEF Step
  <2>4. CASE m # 1 /\ m # L
    <3>1. \E j \in 1..Len(c.submits[i].bufs) : \E r \in 1..Len(BufferSteps(c, i, j)) :
             x = BufferSteps(c, i, j)[r]
          BY <1>1, <2>4, SubmitElement
    <3>2. PICK j \in 1..Len(c.submits[i].bufs) : \E r \in 1..Len(BufferSteps(c, i, j)) :
             x = BufferSteps(c, i, j)[r]
          BY <3>1
    <3>3. PICK r \in 1..Len(BufferSteps(c, i, j)) : x = BufferSteps(c, i, j)[r] BY <3>2
    <3>4. StepKind(c, i, j, BufferSteps(c, i, j)[r]) BY <1>1, BufferElement
    <3>5. FrameStep(c, i, j).op = "frame" BY DEF FrameStep, Step
    <3>. HIDE DEF x, L
    <3>6. x.op # "validate" /\ x.op # "complete" BY <3>3, <3>4, <3>5 DEF StepKind
    <3>. QED BY <2>4, <3>6 DEF x, L
  <2>. HIDE DEF x, L
  <2>5. 1 # L BY <2>1
  <2>. QED BY <2>2, <2>3, <2>4, <2>5 DEF x, L
<1>. QED BY <1>1, <1>2, <1>3, <1>4, <1>5

\* The first step of a program owes nothing.
LEMMA DueAtFirst ==
    ASSUME NEW c \in Calls, NEW did
    PROVE  Due(c, 1, did)
<1>1. SUFFICES ASSUME NEW i, NEW m, At(c, 1, i, m), m > 1 PROVE FALSE BY DEF Due
<1>2. Start(Subs(c), i) \in Nat BY <1>1, StepAt
<1>3. m \in Nat /\ 1 = Start(Subs(c), i) + m
  <2>1. i \in 1..Len(c.submits) BY <1>1 DEF At
  <2>2. Len(SubmitSteps(c, i)) \in Nat BY <2>1, SubmitForm
  <2>. QED BY <1>1, <2>2 DEF At
<1>. QED BY <1>1, <1>2, <1>3

\* A step of the program does what it stands for.
LEMMA DueNext ==
    ASSUME NEW c \in Calls, NEW n \in Nat, NEW did, Due(c, n, did), NEW then,
           LET x == Program(c)[n]
           IN  \/ x.op = "validate" /\ then = <<>>
               \/ x.op \notin {"validate", "refuse"} /\ then = did \o OneStep(x)
    PROVE  Due(c, n + 1, then)
<1>1. SUFFICES ASSUME NEW i, NEW m, At(c, n + 1, i, m), m > 1
               PROVE  /\ then = Progress(c, i, m - 1)
                      /\ \A k \in 1..(m - 1) : SubmitSteps(c, i)[k].op # "refuse"
      BY DEF Due
<1>. DEFINE p == m - 1   x == Program(c)[n]
<1>2. i \in 1..Len(c.submits) /\ Len(SubmitSteps(c, i)) \in Nat /\ m \in 1..Len(SubmitSteps(c, i))
      /\ n + 1 = Start(Subs(c), i) + m /\ Start(Subs(c), i) \in Nat
  <2>1. i \in 1..Len(c.submits) /\ m \in 1..Len(SubmitSteps(c, i)) /\ n + 1 = Start(Subs(c), i) + m
        BY <1>1 DEF At
  <2>. QED BY <1>1, <2>1, SubmitForm, StepAt
<1>3. p \in 1..Len(SubmitSteps(c, i)) /\ n = Start(Subs(c), i) + p /\ p \in Nat BY <1>1, <1>2
<1>. HIDE DEF p
<1>4. At(c, n, i, p) BY <1>2, <1>3 DEF At
<1>5. x = SubmitSteps(c, i)[p] /\ (p = 1 <=> x.op = "validate") BY <1>4, StepAt
<1>6. x.op # "refuse"
  <2>1. CASE x.op = "validate" BY <2>1
  <2>. QED BY <2>1
<1>7. CASE p = 1
  <2>1. then = <<>> BY <1>5, <1>7
  <2>2. \A k \in 1..p : k = p BY <1>7
  <2>. QED BY <1>2, <1>5, <1>6, <1>7, <2>1, <2>2, ProgressStart DEF p
<1>8. CASE p # 1
  <2>. DEFINE q == p - 1
  <2>1. p > 1 /\ q \in Nat /\ q + 1 = p BY <1>3, <1>8
  <2>2. did = Progress(c, i, q) /\ \A k \in 1..q : SubmitSteps(c, i)[k].op # "refuse"
        BY <1>4, <2>1 DEF Due
  <2>. HIDE DEF q
  <2>3. Progress(c, i, q + 1) = Progress(c, i, q) \o OneStep(SubmitSteps(c, i)[q + 1])
        BY <1>2, <1>3, <2>1, ProgressNext
  <2>4. then = did \o OneStep(x) BY <1>5, <1>8
  <2>5. then = Progress(c, i, p) BY <1>5, <2>1, <2>2, <2>3, <2>4
  <2>6. \A k \in 1..p : k \in 1..q \/ k = p BY <1>3, <2>1
  <2>. QED BY <1>5, <1>6, <2>2, <2>5, <2>6 DEF p
<1>. QED BY <1>7, <1>8

\* At the completion of a VkSubmitInfo all of its commands are done.
LEMMA DueAtComplete ==
    ASSUME NEW c \in Calls, NEW n \in 1..Len(Program(c)), Program(c)[n].op = "complete",
           NEW did, Due(c, n, did)
    PROVE  did = WantedOps(c.submits[Program(c)[n].sub])
<1>. DEFINE x == Program(c)[n]   i == x.sub   z == SubmitSteps(c, i)
<1>1. n # Len(Program(c))
  <2>1. SUFFICES ASSUME n = Len(Program(c)) PROVE FALSE OBVIOUS
  <2>2. x.op = "end" BY <2>1, StepFacts
  <2>. QED BY <2>2
<1>2. i \in 1..Len(c.submits) BY StepFacts
<1>3. PICK m \in 1..Len(Subs(c)[i]) : n = Start(Subs(c), i) + m /\ x = z[m] BY <1>1, SubmitOf
<1>4. Subs(c)[i] = z BY <1>1, SubmitOf
<1>. HIDE DEF x, i
<1>5. At(c, n, i, m) BY <1>2, <1>3, <1>4 DEF At
<1>6. m = Len(z) BY <1>3, <1>5, StepAt DEF x
<1>7. Len(z) \in Nat /\ Len(z) >= 2 BY <1>2, SubmitForm
<1>8. did = Progress(c, i, Len(z) - 1) /\ \A k \in 1..(Len(z) - 1) : z[k].op # "refuse"
  <2>1. m > 1 BY <1>6, <1>7
  <2>. QED BY <1>5, <1>6, <2>1 DEF Due
<1>9. Progress(c, i, Len(z) - 1) = Done(c, z) BY <1>2, ProgressStart
<1>10. Done(c, z) = WantedOps(c.submits[i]) BY <1>2, <1>8, SubmitDone
<1>. QED BY <1>8, <1>9, <1>10 DEF x, i

----------------------------------------------------------------------------
\* The commands of every running call

\* A call that fails adds nothing; one that goes on adds what it has executed.
LEMMA AddsWhen ==
    ASSUME Core, NEW t \in Threads, run[t].kind = "submit",
           \/ Leave(t)
           \/ /\ Doing(t).op \notin {"validate", "refuse", "end"}
              /\ OneStep(Doing(t)) \in Seq(OpKinds) /\ Onward(t, OneStep(Doing(t)))
    PROVE  Adds(t)
<1>1. CASE Leave(t)
  <2>1. run'[t].kind = "idle" /\ \A u \in Threads \ {t} : run'[u] = run[u] BY <1>1, LeaveKeeps
  <2>. QED BY <2>1 DEF Adds
<1>2. CASE /\ Doing(t).op \notin {"validate", "refuse", "end"}
           /\ OneStep(Doing(t)) \in Seq(OpKinds) /\ Onward(t, OneStep(Doing(t)))
  <2>. DEFINE ops == OneStep(Doing(t))
  <2>1. ops \in Seq(OpKinds) /\ Onward(t, ops) /\ Doing(t).op # "end" BY <1>2
  <2>. HIDE DEF ops
  <2>2. /\ \A u \in Threads \ {t} : run'[u] = run[u]
        /\ run'[t].call = run[t].call /\ run'[t].pc = run[t].pc + 1
        /\ run'[t].did = run[t].did \o ops
        BY <2>1, OnwardKeeps
  <2>. QED BY <1>2, <2>2 DEF Adds, ops
<1>. QED BY <1>1, <1>2

\* A step without a frame adds the command it stands for.
LEMMA PlainStepAdds ==
    ASSUME Core, NEW t \in Threads, PlainStep(t)
    PROVE  Adds(t)
<1>1. run[t].kind = "submit" BY DEF PlainStep, Validate, Refuse, HostOp, Dispatch, Complete, In
<1>2. Fail(t) => Leave(t) BY DEF Fail
<1>3. CASE Validate(t)
  <2>1. Doing(t).op = "validate" BY <1>3 DEF Validate, In
  <2>2. CASE Leave(t) BY <1>1, <2>2, AddsWhen
  <2>3. CASE run' = [run EXCEPT ![t].pc = @ + 1, ![t].did = <<>>]
    <3>1. TypeOK /\ Running /\ Doing(t).op # "end" /\ <<>> \in Seq(OpKinds) BY <2>1 DEF Core
    <3>2. /\ \A u \in Threads \ {t} : run'[u] = run[u]
          /\ run'[t].call = run[t].call /\ run'[t].pc = run[t].pc + 1 /\ run'[t].did = <<>>
          BY <1>1, <2>3, <3>1, OnwardFacts
    <3>. QED BY <1>1, <2>1, <3>2 DEF Adds
  <2>. QED BY <1>3, <2>2, <2>3 DEF Validate
<1>4. CASE Refuse(t) BY <1>1, <1>2, <1>4, AddsWhen DEF Refuse
<1>5. CASE HostOp(t)
  <2>1. Doing(t).op = "host" BY <1>5 DEF HostOp, In
  <2>2. Doing(t).what \in OpKinds
    <3>1. run[t].call \in Calls /\ run[t].pc \in 1..Len(Program(run[t].call))
          /\ Doing(t) = Program(run[t].call)[run[t].pc]
          BY <1>1, RunFacts DEF Core
    <3>. QED BY <2>1, <3>1, StepFacts
  <2>3. OneStep(Doing(t)) = <<Doing(t).what>> /\ <<Doing(t).what>> \in Seq(OpKinds)
        BY <2>1, <2>2 DEF OneStep
  <2>4. Fail(t) \/ Onward(t, <<Doing(t).what>>) BY <1>5 DEF HostOp
  <2>. QED BY <1>1, <1>2, <2>1, <2>3, <2>4, AddsWhen
<1>6. CASE Dispatch(t)
  <2>1. Doing(t).op = "dispatch" /\ (Fail(t) \/ Onward(t, <<"dispatch">>)) BY <1>6 DEF Dispatch, In
  <2>2. OneStep(Doing(t)) = <<"dispatch">> /\ <<"dispatch">> \in Seq(OpKinds) BY <2>1 DEF OneStep, OpKinds
  <2>. QED BY <1>1, <1>2, <2>1, <2>2, AddsWhen
<1>7. CASE Complete(t)
  <2>1. Doing(t).op = "complete" /\ Onward(t, <<>>) BY <1>7 DEF Complete, In
  <2>2. OneStep(Doing(t)) = <<>> /\ <<>> \in Seq(OpKinds) BY <2>1 DEF OneStep
  <2>. QED BY <1>1, <2>1, <2>2, AddsWhen
<1>. QED BY <1>3, <1>4, <1>5, <1>6, <1>7 DEF PlainStep

\* A frame adds its commands.
LEMMA FrameAdds ==
    ASSUME Core, NEW t \in Threads, Frame(t)
    PROVE  Adds(t)
<1>. DEFINE x == Doing(t)
<1>1. run[t].kind = "submit" /\ x.op = "frame" /\ x.what.ops \in Seq(OpKinds) BY FrameForm
<1>2. Fail(t) => Leave(t) BY DEF Fail
<1>3. Leave(t) \/ Onward(t, x.what.ops) BY <1>2 DEF Frame
<1>4. OneStep(x) = x.what.ops BY <1>1 DEF OneStep
<1>. QED BY <1>1, <1>3, <1>4, AddsWhen

\* A step that adds its commands leaves every call with what it owes.
LEMMA AddsKeeps ==
    ASSUME Core, DidInv, NEW t \in Threads, Adds(t)
    PROVE  DidInv'
<1>1. SUFFICES ASSUME NEW u \in Threads, run'[u].kind = "submit"
               PROVE  Due(run'[u].call, run'[u].pc, run'[u].did)
      BY DEF DidInv
<1>2. CASE u # t
  <2>1. run'[u] = run[u] BY <1>2 DEF Adds
  <2>. QED BY <1>1, <2>1 DEF DidInv
<1>3. CASE u = t
  <2>. DEFINE c == run[t].call   n == run[t].pc   x == Doing(t)   did == run[t].did   then == run'[t].did
  <2>1. c \in Calls /\ n \in 1..Len(Program(c)) /\ x = Program(c)[n] /\ Due(c, n, did)
        BY RunFacts DEF Core, Adds, DidInv
  <2>2. run'[t].call = c /\ run'[t].pc = n + 1 BY <1>1, <1>3 DEF Adds
  <2>3. \/ x.op = "validate" /\ then = <<>>
        \/ x.op \notin {"validate", "refuse"} /\ then = did \o OneStep(x)
        BY <1>1, <1>3 DEF Adds
  <2>. HIDE DEF c, n, x, did, then
  <2>4. n \in Nat BY <2>1
  <2>5. Due(c, n + 1, then) BY <2>1, <2>3, <2>4, DueNext
  <2>. QED BY <1>3, <2>2, <2>5 DEF then
<1>. QED BY <1>2, <1>3

\* A step that leaves the calls where they are keeps what they have done.
LEMMA DidKept ==
    ASSUME DidInv, CallsStill
    PROVE  DidInv'
BY DEF DidInv, CallsStill

\* A new call has done nothing.
LEMMA BeginDid ==
    ASSUME Core, NEW t \in Threads, NEW c \in Calls, SubmitBegin(t, c)
    PROVE  DidInv'
<1>1. \A u \in Threads : run'[u].kind = "submit" =>
         u = t /\ run'[u].call = c /\ run'[u].prog = Program(c) /\ run'[u].pc = 1
      BY SubmitBeginStill
<1>2. ASSUME NEW u \in Threads, run'[u].kind = "submit"
      PROVE  Due(run'[u].call, run'[u].pc, run'[u].did)
  <2>1. run'[u].call = c /\ run'[u].pc = 1 BY <1>1, <1>2
  <2>. QED BY <2>1, DueAtFirst
<1>. QED BY <1>2 DEF DidInv

\* A restart of the executor ends waits, and leaves submissions where they are.
LEMMA RestartCalls ==
    ASSUME Core, Restart
    PROVE  CallsStill
<1>1. run' = [u \in Threads |->
                 IF run[u].kind # "wait" THEN run[u]
                 ELSE IF busy.kind = "fences" THEN [run[u] EXCEPT !.kind = "poll"] ELSE Idle]
      BY DEF Restart
<1>2. ASSUME NEW u \in Threads, run[u].kind = "wait" PROVE run'[u].kind # "submit"
  <2>1. run[u] \in {Idle} \cup Waits({"wait", "poll"}, Threads) \cup Submitting BY DEF Core, TypeOK
  <2>2. \A r \in Submitting : r.kind = "submit" BY DEF Submitting
  <2>3. Idle.kind = "idle" BY DEF Idle
  <2>4. run[u] \in Waits({"wait", "poll"}, Threads) BY <1>2, <2>1, <2>2, <2>3
  <2>5. [run[u] EXCEPT !.kind = "poll"].kind = "poll" BY <2>4 DEF Waits
  <2>. QED BY <1>1, <1>2, <2>3, <2>5
<1>. QED BY <1>1, <1>2 DEF CallsStill

\* Every step leaves every running call with the commands it owes.
LEMMA DidNext == Core /\ DidInv /\ [Next]_vars => DidInv'
<1>. SUFFICES ASSUME Core, DidInv, [Next]_vars PROVE DidInv' OBVIOUS
<1>1. CASE UNCHANGED vars
  <2>1. run' = run BY <1>1 DEF vars
  <2>. QED BY <2>1, SameRunStill, DidKept
<1>2. CASE Creates BY <1>2, CreatesStill, DidKept
<1>3. CASE Destroys BY <1>3, DestroyStill, DidKept DEF Destroys
<1>4. CASE HostCalls BY <1>4, HostCallsStill, DidKept DEF FencesKept
<1>5. CASE WaitCalls BY <1>5, WaitCallsStill, DidKept
<1>6. CASE SubmitCalls
  <2>1. ASSUME NEW t \in Threads, PlainStep(t) PROVE DidInv' BY <2>1, PlainStepAdds, AddsKeeps
  <2>2. ASSUME NEW t \in Threads, Frame(t) PROVE DidInv' BY <2>2, FrameAdds, AddsKeeps
  <2>3. ASSUME NEW t \in Threads, SubmitEnd(t) PROVE DidInv' BY <2>3, SubmitEndStill DEF DidInv
  <2>. QED BY <1>6, <2>1, <2>2, <2>3, BeginDid DEF SubmitCalls, PlainStep
<1>7. CASE DeviceRuns
  <2>1. run' = run BY <1>7 DEF DeviceRuns
  <2>. QED BY <2>1, SameRunStill, DidKept
<1>8. CASE Restart BY <1>8, RestartCalls, DidKept
<1>9. CASE Crash
  <2>1. \A u \in Threads : run'[u].kind # "submit" BY <1>9 DEF Crash, Idle
  <2>. QED BY <2>1 DEF DidInv
<1>. QED BY <1>1, <1>2, <1>3, <1>4, <1>5, <1>6, <1>7, <1>8, <1>9, NextSplits

\* When vkQueueSubmit completes the semaphores of a VkSubmitInfo, every command
\* recorded in its buffers has been executed once and in the recorded order,
\* whichever of the two programs, the plan of host operations and the builder
\* of the frame, it went to.
THEOREM CommandsInOrder == Spec => []OrderKept
<1>1. Init => Core /\ DidInv
  <2>1. Init => DidInv BY DEF Init, Idle, DidInv
  <2>. QED BY <2>1, CoreInit
<1>2. Core /\ DidInv /\ [Next]_vars => Core' /\ DidInv' BY CoreNext, DidNext
<1>3. Core /\ DidInv => OrderKept
  <2>1. SUFFICES ASSUME Core, DidInv, NEW t \in Threads, In(t, "complete")
                 PROVE  run[t].did = WantedOps(Info(t))
        BY DEF OrderKept
  <2>. DEFINE c == run[t].call   n == run[t].pc   did == run[t].did
  <2>2. run[t].kind = "submit" /\ Doing(t).op = "complete" BY <2>1 DEF In
  <2>3. /\ c \in Calls /\ n \in 1..Len(Program(c)) /\ Doing(t) = Program(c)[n]
        /\ Info(t) = c.submits[Doing(t).sub] /\ Due(c, n, did)
        BY <2>1, <2>2, RunFacts DEF Core, DidInv
  <2>. HIDE DEF c, n, did
  <2>4. did = WantedOps(c.submits[Program(c)[n].sub]) BY <2>2, <2>3, DueAtComplete
  <2>. QED BY <2>3, <2>4 DEF did
<1>. QED BY <1>1, <1>2, <1>3, PTL DEF Spec

----------------------------------------------------------------------------
\* What the values of semaphores and events say, and what a submission that waits
\* for them can rely on

----------------------------------------------------------------------------
\* Programs: what comes after a completion

\* A program starts with a validation, and after a completion it validates the
\* next VkSubmitInfo or ends.
LEMMA FirstStep ==
    ASSUME NEW c \in Calls
    PROVE  1 \in 1..Len(Program(c)) /\ Program(c)[1].op \in {"validate", "end"}
<1>1. Len(Program(c)) \in Nat /\ 1 \in 1..Len(Program(c))
  <2>1. Len(FlattenSeq(Subs(c))) \in Nat /\ Len(Program(c)) = Len(FlattenSeq(Subs(c))) + 1 BY ProgramForm
  <2>. QED BY <2>1
<1>2. CASE 1 = Len(Program(c)) BY <1>1, <1>2, StepFacts
<1>3. CASE 1 # Len(Program(c))
  <2>1. PICK i \in 1..Len(c.submits) : \E m \in 1..Len(SubmitSteps(c, i)) : 1 = Start(Subs(c), i) + m
    <3>1. ~(1 = Len(Program(c)) /\ Program(c)[1] = Step("end", Len(c.submits), None)) BY <1>3
    <3>. QED BY <1>1, <3>1, ProgramElement
  <2>2. PICK m \in 1..Len(SubmitSteps(c, i)) : 1 = Start(Subs(c), i) + m BY <2>1
  <2>3. At(c, 1, i, m) BY <2>2 DEF At
  <2>4. Start(Subs(c), i) \in Nat /\ Program(c)[1] = SubmitSteps(c, i)[m]
        /\ (m = 1 <=> SubmitSteps(c, i)[m].op = "validate")
        BY <2>3, StepAt
  <2>5. m = 1 BY <2>2, <2>4
  <2>. QED BY <1>1, <2>4, <2>5
<1>. QED BY <1>2, <1>3

\* The place of a step before the last one, with its VkSubmitInfo
LEMMA PlaceOf ==
    ASSUME NEW c \in Calls, NEW n \in 1..Len(Program(c)), n # Len(Program(c))
    PROVE  \E m : At(c, n, Program(c)[n].sub, m)
<1>. DEFINE i == Program(c)[n].sub
<1>1. i \in 1..Len(c.submits) BY StepFacts
<1>2. PICK m \in 1..Len(Subs(c)[i]) : n = Start(Subs(c), i) + m BY SubmitOf
<1>3. Subs(c)[i] = SubmitSteps(c, i) BY SubmitOf
<1>4. At(c, n, i, m) BY <1>1, <1>2, <1>3 DEF At
<1>. QED BY <1>4

\* The step after a completion is no work.
LEMMA AfterComplete ==
    ASSUME NEW c \in Calls, NEW n \in 1..Len(Program(c)), Program(c)[n].op = "complete",
           n + 1 \in 1..Len(Program(c))
    PROVE  Program(c)[n + 1].op \in {"validate", "end"}
<1>. DEFINE k == n + 1
<1>1. CASE k = Len(Program(c)) BY <1>1, StepFacts
<1>2. CASE k # Len(Program(c))
  <2>1. PICK m : At(c, k, Program(c)[k].sub, m) BY <1>2, PlaceOf
  <2>. DEFINE i == Program(c)[k].sub
  <2>2. /\ m \in 1..Len(SubmitSteps(c, i)) /\ k = Start(Subs(c), i) + m /\ i \in 1..Len(c.submits)
        /\ Start(Subs(c), i) \in Nat /\ Program(c)[k] = SubmitSteps(c, i)[m]
        /\ (m = 1 <=> SubmitSteps(c, i)[m].op = "validate")
        BY <2>1, StepAt DEF At
  <2>3. Len(SubmitSteps(c, i)) \in Nat BY <2>2, SubmitForm
  <2>4. CASE m = 1 BY <2>2, <2>4
  <2>5. CASE m # 1
    <3>. DEFINE p == m - 1
    <3>. HIDE DEF i, k
    <3>1. p \in 1..Len(SubmitSteps(c, i)) /\ p # Len(SubmitSteps(c, i)) BY <2>2, <2>3, <2>5
    <3>0. n \in Nat /\ Len(Program(c)) \in Nat
      <4>1. Len(Program(c)) \in Nat BY ProgramForm
      <4>. QED BY <4>1
    <3>2. n = Start(Subs(c), i) + p
      <4>1. n + 1 = Start(Subs(c), i) + m /\ Start(Subs(c), i) \in Nat /\ m \in Nat BY <2>2, <2>3 DEF k
      <4>. QED BY <3>0, <4>1
    <3>. HIDE DEF p
    <3>3. At(c, n, i, p) BY <2>2, <3>1, <3>2 DEF At
    <3>4. Program(c)[n] = SubmitSteps(c, i)[p] /\ SubmitSteps(c, i)[p].op # "complete"
          BY <3>1, <3>3, StepAt
    <3>. QED BY <3>4
  <2>. QED BY <2>4, <2>5
<1>. QED BY <1>1, <1>2

\* A frame with a completion is the last thing its VkSubmitInfo does.
LEMMA CompletionNext ==
    ASSUME NEW c \in Calls, NEW n \in 1..Len(Program(c)),
           Program(c)[n].op = "frame", HasCompletion(Program(c)[n].what.entries)
    PROVE  /\ n + 1 \in 1..Len(Program(c))
           /\ Program(c)[n + 1].op = "complete" /\ Program(c)[n + 1].sub = Program(c)[n].sub
<1>. DEFINE x == Program(c)[n]   i == x.sub   z == SubmitSteps(c, i)   k == n + 1
<1>1. n # Len(Program(c)) BY StepFacts
<1>2. PICK m : At(c, n, i, m) BY <1>1, PlaceOf
<1>3. /\ i \in 1..Len(c.submits) /\ m \in 1..Len(z) /\ n = Start(Subs(c), i) + m
      /\ Start(Subs(c), i) \in Nat /\ x = z[m] /\ (m = Len(z) <=> z[m].op = "complete")
      BY <1>2, StepAt DEF At
<1>4. Len(z) \in Nat BY <1>3, SubmitForm
<1>5. m # Len(z) BY <1>3
<1>. DEFINE q == m + 1
<1>6. q \in 1..Len(z) /\ q # 1 /\ k = Start(Subs(c), i) + q /\ n < k
  <2>. HIDE DEF z, i, x
  <2>. QED BY <1>3, <1>4, <1>5
<1>. HIDE DEF q, k
<1>7. At(c, k, i, q) BY <1>3, <1>6 DEF At
<1>8. k \in 1..Len(Program(c)) /\ Program(c)[k] = z[q] BY <1>7, StepAt
<1>9. \/ z[q] = Step("complete", i, None)
      \/ \E j \in 1..Len(c.submits[i].bufs) : \E r \in 1..Len(BufferSteps(c, i, j)) :
            q = 1 + (Start(Pieces(c, i), j) + r) /\ z[q] = BufferSteps(c, i, j)[r]
  <2>1. LET y == z[q]
        IN  \/ q = 1 /\ y = Step("validate", i, None)
            \/ q = Len(z) /\ y = Step("complete", i, None)
            \/ \E j \in 1..Len(c.submits[i].bufs) : \E r \in 1..Len(BufferSteps(c, i, j)) :
                  q = 1 + (Start(Pieces(c, i), j) + r) /\ y = BufferSteps(c, i, j)[r]
    <3>. HIDE DEF i
    <3>. QED BY <1>3, <1>6, SubmitElement
  <2>. QED BY <1>6, <2>1
<1>10. ASSUME NEW j \in 1..Len(c.submits[i].bufs), NEW r \in 1..Len(BufferSteps(c, i, j)),
              q = 1 + (Start(Pieces(c, i), j) + r), z[q] = BufferSteps(c, i, j)[r]
       PROVE  FALSE
  <2>1. j \in 1..Len(Pieces(c, i)) /\ Pieces(c, i)[j] = BufferSteps(c, i, j) BY <1>3, SubmitForm
  <2>2. InBuffer(c, i, q, z[q], j, r) BY <1>10, <2>1 DEF InBuffer
  <2>3. n < Start(Subs(c), i) + q BY <1>6
  <2>. QED BY <2>2, <2>3, NoBufferLeft
<1>11. z[q] = Step("complete", i, None) BY <1>9, <1>10
<1>12. Step("complete", i, None).op = "complete" /\ Step("complete", i, None).sub = i BY DEF Step
<1>. QED BY <1>8, <1>11, <1>12 DEF k

----------------------------------------------------------------------------
\* Semaphores: what a step leaves of the semaphore s

\* A step that only raises what was really signaled keeps the timelines true.
LEMMA TimelinesNext ==
    ASSUME Core, Core', TimelineTrue, TimelinesKept
    PROVE  TimelineTrue'
<1>. SUFFICES ASSUME NEW s \in Timelines \ tainted', Live(s)'
              PROVE  SemCount(s)' <= truth'[s] /\ obj'[s].value <= truth'[s]
     BY DEF TimelineTrue
<1>1. s \in Objects /\ s \in Sems BY DEF Objects, Sems
<1>2. truth[s] \in Nat /\ truth'[s] \in Nat /\ obj[s].value \in Nat /\ obj'[s].value \in Nat
  <2>1. truth \in [Sems \cup Events -> Nat] /\ obj \in [Objects -> Cells] BY Types
  <2>2. truth' \in [Sems \cup Events -> Nat] /\ obj' \in [Objects -> Cells] BY DEF Core, TypeOK
  <2>. QED BY <1>1, <2>1, <2>2 DEF Cells
<1>3. SemCount(s) \in Nat /\ SemCount(s)' \in Nat
  <2>1. SemCount(s) \in Nat BY PayloadTypes
  <2>2. Registry(semReg', Payloads) BY DEF Core, TypeOK
  <2>3. SemCount(s)' \in Nat BY <2>2 DEF SemCount, Registry, Payloads
  <2>. QED BY <2>1, <2>3
<1>. DEFINE n == SemCount(s)   m == SemCount(s)'
<1>4. CASE Fresh(s)
  <2>1. m = 0 /\ obj'[s].value = 0 BY <1>4 DEF Fresh
  <2>. QED BY <1>2, <2>1
<1>5. CASE TimeKept(s)
  <2>1. s \notin tainted /\ Live(s) BY <1>5 DEF TimeKept, Steady
  <2>2. n <= truth[s] /\ obj[s].value <= truth[s] BY <2>1 DEF TimelineTrue
  <2>3. /\ truth[s] <= truth'[s] /\ (m <= n \/ m <= truth'[s])
        /\ obj'[s].value <= obj[s].value \/ obj'[s].value <= n \/ obj'[s].value <= truth'[s]
        BY <1>5 DEF TimeKept
  <2>. HIDE DEF n, m
  <2>. QED BY <1>2, <1>3, <2>2, <2>3 DEF n, m
<1>. QED BY <1>4, <1>5 DEF TimelinesKept

\* A step that leaves the binary semaphores, and the calls at a completion, alone
\* keeps the binary ones true.
LEMMA BinariesNext ==
    ASSUME BinaryTrue, BinariesKept, \A t \in Threads : In(t, "complete") => run'[t] = run[t]
    PROVE  BinaryTrue'
<1>. SUFFICES ASSUME NEW b \in Binaries \ tainted', Live(b)', obj'[b].signaled
              PROVE  truth'[b] = 1 \/ Consumed(b)'
     BY DEF BinaryTrue
<1>1. BinKept(b) BY DEF BinariesKept, Fresh
<1>2. b \notin tainted /\ Live(b) /\ obj[b].signaled BY <1>1 DEF BinKept, Steady
<1>3. CASE truth[b] = 1 BY <1>1, <1>3 DEF BinKept
<1>4. CASE Consumed(b)
  <2>1. PICK t \in Threads : In(t, "complete") /\ b \in Waited(Info(t)) BY <1>4 DEF Consumed
  <2>2. run'[t] = run[t] BY <2>1
  <2>3. In(t, "complete")' /\ Info(t)' = Info(t) BY <2>1, <2>2 DEF In, Doing, Info
  <2>. QED BY <2>1, <2>3 DEF Consumed, Waited
<1>. QED BY <1>2, <1>3, <1>4 DEF BinaryTrue

\* A step that puts no signal on the device's queue, and no untainted semaphore
\* under the id of one, keeps what is said of the queue.
LEMMA LeftSemsNext ==
    ASSUME LeftSems, LeftSemIds' \subseteq LeftSemIds, LeftSemIds' \subseteq DOMAIN semReg',
           \A s \in Sems : Live(s)' => Steady(s) \/ Fresh(s)
    PROVE  LeftSems'
<1>1. \A s \in Sems : Live(s)' /\ Id(s)' \in LeftSemIds' => s \in tainted'
  <2>. SUFFICES ASSUME NEW s \in Sems, Live(s)', Id(s)' \in LeftSemIds' PROVE s \in tainted' OBVIOUS
  <2>1. CASE Steady(s) BY <2>1 DEF Steady, LeftSems
  <2>2. CASE Fresh(s) BY <2>2 DEF Fresh, LeftSems
  <2>. QED BY <2>1, <2>2
<1>. QED BY <1>1 DEF LeftSems

\* Both kinds of semaphores
LEMMA KeptSteady ==
    ASSUME TimelinesKept, BinariesKept
    PROVE  \A s \in Sems : Live(s)' => Steady(s) \/ Fresh(s)
BY DEF TimelinesKept, BinariesKept, TimeKept, BinKept, Sems

\* A live semaphore that has reached a value keeps it.
LEMMA ReachedNext ==
    ASSUME Core, Core', TimelinesKept, BinariesKept, NEW s \in Sems, Live(s), Live(s)', NEW v \in Nat,
           NEW d, NEW e, d # <<>> => e # <<>>, Reached(s, v, d)
    PROVE  Reached(s, v, e)'
<1>1. truth \in [Sems \cup Events -> Nat] /\ truth' \in [Sems \cup Events -> Nat] BY DEF Core, TypeOK
<1>2. truth[s] \in Nat /\ truth'[s] \in Nat BY <1>1
<1>3. ~Fresh(s) BY DEF Fresh
<1>4. CASE s \in Timelines
  <2>1. TimeKept(s) BY <1>3, <1>4 DEF TimelinesKept
  <2>2. truth[s] <= truth'[s] /\ (s \in tainted => s \in tainted') BY <2>1 DEF TimeKept, Steady
  <2>3. s \notin Binaries BY <1>4, NameAssumption
  <2>4. s \in tainted \/ truth[s] >= v BY <2>3 DEF Reached
  <2>5. truth[s] >= v => truth'[s] >= v BY <1>2, <2>2
  <2>. QED BY <1>4, <2>2, <2>4, <2>5 DEF Reached
<1>5. CASE s \in Binaries
  <2>1. BinKept(s) BY <1>3, <1>5 DEF BinariesKept
  <2>2. truth'[s] = truth[s] /\ (s \in tainted => s \in tainted') BY <2>1 DEF BinKept, Steady
  <2>3. s \notin Timelines BY <1>5, NameAssumption
  <2>. QED BY <1>5, <2>2, <2>3 DEF Reached
<1>. QED BY <1>4, <1>5 DEF Sems

\* The semaphores a running call waits for
LEMMA WaitFacts ==
    ASSUME Core, NEW t \in Threads, run[t].kind = "submit", NEW n \in DOMAIN Info(t).waits
    PROVE  /\ Info(t).waits[n][1] \in Sems /\ Info(t).waits[n][2] \in Nat
           /\ Info(t).waits[n][1] \in UsedBy(run[t].call) \ {None}
           /\ Live(Info(t).waits[n][1])
<1>. DEFINE s == Info(t).waits[n][1]
<1>1. s \in Sems /\ Info(t).waits[n][2] \in Nat
  <2>1. Info(t).waits \in Pairs BY InfoFacts
  <2>. QED BY <2>1, EntriesOfFacts
<1>2. s \in UsedBy(run[t].call) \ {None}
  <2>1. s \in Waited(Info(t)) BY DEF Waited
  <2>2. Doing(t).sub \in 1..Len(run[t].call.submits) /\ run[t].call \in Calls BY InfoFacts
  <2>3. Info(t) = run[t].call.submits[Doing(t).sub] BY DEF Info
  <2>4. s \in UsedBy(run[t].call) BY <2>1, <2>2, <2>3, UsedObjects
  <2>5. s # None BY <1>1, NameAssumption DEF Objects, Sems
  <2>. QED BY <2>4, <2>5
<1>3. Live(s) BY <1>2 DEF Core, UsedLive
<1>. QED BY <1>1, <1>2, <1>3

\* A call that keeps its VkSubmitInfo and has done more keeps what it waited for.
LEMMA CallWaits ==
    ASSUME Core, Core', WaitsMet, TimelinesKept, BinariesKept,
           NEW t \in Threads, Midway(t), run'[t].kind = "submit", run'[t].call = run[t].call,
           Info(t)' = Info(t), run[t].did # <<>> => run'[t].did # <<>>
    PROVE  \A n \in DOMAIN Info(t)'.waits :
              Reached(Info(t).waits[n][1], Info(t).waits[n][2], run[t].did)'
<1>. SUFFICES ASSUME NEW n \in DOMAIN Info(t)'.waits
              PROVE  Reached(Info(t).waits[n][1], Info(t).waits[n][2], run[t].did)'
     OBVIOUS
<1>1. PICK s, v, d, e : s = Info(t).waits[n][1] /\ v = Info(t).waits[n][2]
                        /\ d = run[t].did /\ e = run'[t].did
      OBVIOUS
<1>2. run[t].kind = "submit" /\ n \in DOMAIN Info(t).waits BY DEF Midway
<1>3. s \in Sems /\ v \in Nat /\ s \in UsedBy(run[t].call) \ {None} /\ Live(s) BY <1>1, <1>2, WaitFacts
<1>4. Live(s)' BY <1>3 DEF Core, UsedLive
<1>5. Reached(s, v, d) BY <1>1, <1>2 DEF WaitsMet
<1>6. Reached(s, v, e)' BY <1>1, <1>3, <1>4, <1>5, ReachedNext
<1>7. Info(t)'.waits[n][1] = s /\ Info(t)'.waits[n][2] = v BY <1>1
<1>. QED BY <1>1, <1>6, <1>7 DEF Reached

\* A step that leaves the calls where they are keeps what they have waited for.
LEMMA WaitsNext ==
    ASSUME Core, Core', WaitsMet, TimelinesKept, BinariesKept, CallsStill
    PROVE  WaitsMet'
<1>. SUFFICES ASSUME NEW t \in Threads, Midway(t)'
              PROVE  \A n \in DOMAIN Info(t)'.waits :
                        Reached(Info(t).waits[n][1], Info(t).waits[n][2], run[t].did)'
     BY DEF WaitsMet
<1>1. run'[t] = run[t] /\ run[t].kind = "submit" /\ run'[t].kind = "submit" BY DEF Midway, CallsStill
<1>2. Doing(t)' = Doing(t) /\ Info(t)' = Info(t) BY <1>1 DEF Doing, Info
<1>3. Midway(t) BY <1>1, <1>2 DEF Midway
<1>. QED BY <1>1, <1>2, <1>3, CallWaits

----------------------------------------------------------------------------
\* Steps that are not about semaphores

\* They leave every semaphore as it was.
LEMMA AwayKeeps ==
    ASSUME Core, AwayFromSems
    PROVE  TimelinesKept /\ BinariesKept
<1>1. truth \in [Sems \cup Events -> Nat] /\ obj \in [Objects -> Cells] BY Types
<1>2. ASSUME NEW s \in Sems, Live(s)' PROVE Steady(s) /\ Id(s)' = Id(s)
  BY <1>2 DEF AwayFromSems, Steady, Live, Id
<1>3. ASSUME NEW s \in Sems, Live(s)' PROVE SemCount(s)' = SemCount(s) \/ SemCount(s)' = 0
  <2>1. Id(s)' = Id(s) BY <1>2, <1>3
  <2>2. CASE semReg' = semReg BY <2>1, <2>2 DEF SemCount
  <2>3. CASE semReg' = <<>> BY <2>1, <2>3 DEF SemCount
  <2>. QED BY <2>2, <2>3 DEF AwayFromSems
<1>4. ASSUME NEW s \in Timelines, Live(s)' PROVE TimeKept(s)
  <2>1. s \in Sems /\ s \in Objects BY DEF Sems, Objects
  <2>2. SemCount(s) \in Nat BY PayloadTypes
  <2>3. truth[s] \in Nat /\ obj[s].value \in Nat BY <1>1, <2>1 DEF Cells
  <2>. DEFINE n == SemCount(s)   m == SemCount(s)'
  <2>4. m = n \/ m = 0 BY <1>3, <1>4, <2>1
  <2>5. m <= n
    <3>. HIDE DEF n, m
    <3>. QED BY <2>2, <2>4 DEF n
  <2>6. obj'[s].value <= obj[s].value /\ truth[s] <= truth'[s] BY <2>1, <2>3 DEF AwayFromSems
  <2>7. Steady(s) BY <1>2, <1>4, <2>1
  <2>. QED BY <2>5, <2>6, <2>7 DEF TimeKept
<1>5. ASSUME NEW b \in Binaries, Live(b)' PROVE BinKept(b)
  <2>1. b \in Sems BY DEF Sems
  <2>. QED BY <1>2, <1>5, <2>1 DEF BinKept, AwayFromSems
<1>. QED BY <1>4, <1>5 DEF TimelinesKept, BinariesKept

\* Objects of different kinds are different.
LEMMA KindsApart ==
    /\ \A f \in Fences, s \in Sems : f # s
    /\ \A e \in Events, s \in Sems : e # s
    /\ \A f \in Fences, e \in Events : f # e
    /\ Sems \subseteq Objects /\ Fences \subseteq Objects /\ Events \subseteq Objects
    /\ TheEvent \in Events
BY NameAssumption DEF Objects, Sems, TheEvent

\* Creating a fence or an event is not about semaphores.
LEMMA CreatesAway ==
    ASSUME Core, NEW t \in Threads,
           \/ \E f \in Fences, b \in BOOLEAN : CreateFence(t, f, b)
           \/ \E e \in Events : CreateEvent(t, e)
    PROVE  AwayFromSems
<1>1. obj \in [Objects -> Cells] /\ truth \in [Sems \cup Events -> Nat] BY Types
<1>2. ASSUME NEW f \in Fences, NEW b \in BOOLEAN, CreateFence(t, f, b) PROVE AwayFromSems
  <2>. DEFINE cell == [id |-> generation + 1, signaled |-> b, value |-> 0]
  <2>1. /\ obj' = obj \/ obj' = [obj EXCEPT ![f] = cell]
        /\ tainted' \in {tainted, tainted \cup {f}, tainted \ {f}}
        /\ semReg' = semReg /\ truth' = truth
        BY <1>2 DEF CreateFence
  <2>. HIDE DEF cell
  <2>2. \A s \in Sems : obj'[s] = obj[s] BY <1>1, <2>1, KindsApart
  <2>3. \A s \in Sems : s \in tainted => s \in tainted' BY <2>1, KindsApart
  <2>. QED BY <2>1, <2>2, <2>3 DEF AwayFromSems
<1>3. ASSUME NEW e \in Events, CreateEvent(t, e) PROVE AwayFromSems
  <2>1. /\ obj' = obj \/ \E x : obj' = [obj EXCEPT ![e] = x]
        /\ tainted' \in {tainted, tainted \cup {e}, tainted \ {e}}
        /\ truth' = truth \/ truth' = [truth EXCEPT ![e] = 0]
        /\ semReg' = semReg
        BY <1>3 DEF CreateEvent
  <2>2. \A s \in Sems : obj'[s] = obj[s] BY <1>1, <2>1, KindsApart
  <2>3. \A s \in Sems : s \in tainted => s \in tainted' BY <2>1, KindsApart
  <2>4. \A s \in Sems : truth'[s] = truth[s] BY <1>1, <2>1, KindsApart
  <2>. QED BY <2>1, <2>2, <2>3, <2>4 DEF AwayFromSems
<1>. QED BY <1>2, <1>3

\* The other entries of a registry stay.
LEMMA OtherEntries ==
    ASSUME NEW f, NEW k, NEW v, NEW x, x # k
    PROVE  /\ x \in DOMAIN Put(f, k, v) <=> x \in DOMAIN f
           /\ x \in DOMAIN f => Put(f, k, v)[x] = f[x]
           /\ x \in DOMAIN Cut(f, k) <=> x \in DOMAIN f
           /\ x \in DOMAIN f => Cut(f, k)[x] = f[x]
BY DEF Put, Cut

\* A new semaphore is fresh, and leaves the others alone.
LEMMA CreateSemKeeps ==
    ASSUME Core, NEW t \in Threads, NEW s \in Sems, CreateSem(t, s, 0)
    PROVE  /\ TimelinesKept /\ BinariesKept
           /\ DOMAIN semReg \subseteq DOMAIN semReg'
<1>. DEFINE id == generation + 1   known == id \in DOMAIN semReg   isT == s \in Timelines
            new == NewSem(isT, 0)
            cell == [id |-> id, signaled |-> FALSE, value |-> IF isT THEN semReg'[id].last ELSE 0]
<1>1. s \in Objects /\ id \in Nat /\ generation \in Nat /\ obj \in [Objects -> Cells]
      /\ truth \in [Sems \cup Events -> Nat] /\ \A o \in Objects : Id(o) # id
      BY Types, KindsApart
<1>2. ~Live(s) BY DEF CreateSem, NextToCreate
<1>3. CASE UNCHANGED <<obj, semReg, tainted, truth>>
  <2>1. AwayFromSems BY <1>3 DEF AwayFromSems
  <2>. QED BY <1>3, <2>1, AwayKeeps
<1>4. CASE /\ semReg' = IF known THEN semReg ELSE Put(semReg, id, new)
           /\ obj' = [obj EXCEPT ![s] = cell]
           /\ tainted' = IF known THEN tainted \cup {s} ELSE tainted \ {s}
           /\ truth' = [truth EXCEPT ![s] = 0]
  <2>1. cell.id = id /\ cell.signaled = FALSE /\ (~isT => cell.value = 0)
        /\ (isT => cell.value = semReg'[id].last)
        OBVIOUS
  <2>2. new.count = 0 /\ new.last = 0 BY DEF NewSem
  <2>3. ~known => id \in DOMAIN semReg' /\ semReg'[id] = new BY <1>4 DEF Put
  <2>. HIDE DEF cell, new
  <2>4. obj'[s] = cell /\ \A x \in Sems \ {s} : obj'[x] = obj[x] /\ truth'[x] = truth[x]
        BY <1>1, <1>4, KindsApart
  <2>5. Fresh(s)
    <3>1. Id(s)' = id BY <2>1, <2>4 DEF Id
    <3>2. known => s \in tainted' BY <1>4
    <3>3. ~known => SemCount(s)' = 0 /\ obj'[s].value = 0 BY <2>1, <2>2, <2>3, <2>4, <3>1 DEF SemCount
    <3>. QED BY <1>2, <2>1, <2>4, <3>1, <3>2, <3>3 DEF Fresh
  <2>6. ASSUME NEW x \in Sems \ {s}, Live(x)'
        PROVE  Steady(x) /\ SemCount(x)' = SemCount(x)
    <3>1. Id(x)' = Id(x) /\ Live(x) BY <2>4, <2>6 DEF Live, Id
    <3>2. Id(x) # id BY <1>1, KindsApart
    <3>3. /\ Id(x) \in DOMAIN semReg' <=> Id(x) \in DOMAIN semReg
          /\ Id(x) \in DOMAIN semReg => semReg'[Id(x)] = semReg[Id(x)]
      <4>1. CASE semReg' = semReg BY <4>1
      <4>2. CASE semReg' = Put(semReg, id, new) BY <3>2, <4>2, OtherEntries
      <4>. QED BY <1>4, <4>1, <4>2
    <3>4. SemCount(x)' = SemCount(x) BY <3>1, <3>3 DEF SemCount
    <3>5. x \in tainted => x \in tainted' BY <1>4
    <3>. QED BY <3>1, <3>4, <3>5 DEF Steady
  <2>7. \A x \in Sems \ {s} : SemCount(x) \in Nat /\ truth[x] \in Nat /\ obj[x].value \in Nat
        BY <1>1, PayloadTypes, KindsApart DEF Cells
  <2>8. TimelinesKept
    <3>. SUFFICES ASSUME NEW x \in Timelines \ {s}, Live(x)' PROVE TimeKept(x)
         BY <2>5 DEF TimelinesKept
    <3>1. x \in Sems \ {s} BY DEF Sems
    <3>2. Steady(x) /\ SemCount(x)' = SemCount(x) /\ obj'[x] = obj[x] /\ truth'[x] = truth[x]
          /\ SemCount(x) \in Nat /\ truth[x] \in Nat /\ obj[x].value \in Nat
          BY <2>4, <2>6, <2>7, <3>1
    <3>. QED BY <3>2 DEF TimeKept
  <2>9. BinariesKept
    <3>. SUFFICES ASSUME NEW x \in Binaries \ {s}, Live(x)' PROVE BinKept(x)
         BY <2>5 DEF BinariesKept
    <3>1. x \in Sems \ {s} BY DEF Sems
    <3>. QED BY <2>4, <2>6, <3>1 DEF BinKept
  <2>10. DOMAIN semReg \subseteq DOMAIN semReg' BY <1>4 DEF Put
  <2>. QED BY <2>8, <2>9, <2>10
<1>. QED BY <1>3, <1>4 DEF CreateSem

\* A destroyed semaphore is gone; the others stay.
LEMMA DestroyKeeps ==
    ASSUME Core, NEW t \in Threads, NEW o \in Objects, Destroy(t, o)
    PROVE  TimelinesKept /\ BinariesKept
<1>1. /\ obj' = [obj EXCEPT ![o] = Dead] /\ tainted' = tainted \ {o} /\ truth' = truth
      /\ semReg' = IF o \in Sems THEN Cut(semReg, Id(o)) ELSE semReg
      /\ Live(o)
      BY DEF Destroy
<1>2. obj \in [Objects -> Cells] /\ truth \in [Sems \cup Events -> Nat] BY Types
<1>3. ASSUME NEW s \in Sems, Live(s)'
      PROVE  /\ Steady(s) /\ obj'[s] = obj[s] /\ SemCount(s)' = SemCount(s)
             /\ SemCount(s) \in Nat /\ truth[s] \in Nat /\ obj[s].value \in Nat
  <2>1. s \in Objects BY KindsApart
  <2>2. s # o BY <1>1, <1>2, <1>3, <2>1 DEF Live, Id, Dead
  <2>3. obj'[s] = obj[s] /\ Id(s)' = Id(s) /\ Live(s) BY <1>1, <1>2, <1>3, <2>1, <2>2 DEF Live, Id
  <2>4. Id(s) # Id(o) BY <2>1, <2>2, <2>3 DEF Core, IdsApart
  <2>5. SemCount(s)' = SemCount(s)
    <3>1. CASE semReg' = semReg BY <2>3, <3>1 DEF SemCount
    <3>2. CASE semReg' = Cut(semReg, Id(o))
      <4>1. /\ Id(s) \in DOMAIN semReg' <=> Id(s) \in DOMAIN semReg
            /\ Id(s) \in DOMAIN semReg => semReg'[Id(s)] = semReg[Id(s)]
            BY <2>4, <3>2, OtherEntries
      <4>. QED BY <2>3, <4>1 DEF SemCount
    <3>. QED BY <1>1, <3>1, <3>2
  <2>6. SemCount(s) \in Nat /\ truth[s] \in Nat /\ obj[s].value \in Nat
        BY <1>2, <2>1, PayloadTypes DEF Cells
  <2>7. s \in tainted => s \in tainted' BY <1>1, <2>2
  <2>. QED BY <2>3, <2>5, <2>6, <2>7 DEF Steady
<1>4. ASSUME NEW s \in Timelines, Live(s)' PROVE TimeKept(s)
  <2>1. s \in Sems BY DEF Sems
  <2>. QED BY <1>1, <1>3, <1>4, <2>1 DEF TimeKept
<1>5. ASSUME NEW b \in Binaries, Live(b)' PROVE BinKept(b)
  <2>1. b \in Sems BY DEF Sems
  <2>. QED BY <1>1, <1>3, <1>5, <2>1 DEF BinKept
<1>. QED BY <1>4, <1>5 DEF TimelinesKept, BinariesKept

\* A destroyed semaphore is forgotten by the frames on the queue.
LEMMA DestroyLeftSems ==
    ASSUME Core, LeftSems, NEW t \in Threads, NEW o \in Objects, Destroy(t, o)
    PROVE  LeftSems'
<1>1. /\ device' = Forgotten(o)
      /\ semReg' = IF o \in Sems THEN Cut(semReg, Id(o)) ELSE semReg
  BY DEF Destroy
<1>2. device \in Seq(Seq(Held)) BY Types
<1>3. ASSUME NEW n \in DOMAIN device', NEW id \in SignalIds(device'[n]), id # 0
      PROVE  n \in DOMAIN device /\ id \in SignalIds(device[n]) /\ (o \in Sems => id # Id(o))
  <2>1. n \in DOMAIN device BY <1>1, <1>3 DEF Forgotten
  <2>2. device[n] \in Seq(Held) BY <1>2, <2>1
  <2>3. device'[n] = [m \in DOMAIN device[n] |->
                        IF Names(device[n][m], o) THEN [device[n][m] EXCEPT !.id = 0] ELSE device[n][m]]
        BY <1>1, <2>1 DEF Forgotten
  <2>4. PICK m \in DOMAIN device'[n] : device'[n][m].type = "signal" /\ device'[n][m].id = id
        BY <1>3 DEF SignalIds, IdsOf, OfType
  <2>. DEFINE e == device[n][m]
  <2>5. m \in DOMAIN device[n] /\ e \in Held BY <2>2, <2>3, <2>4
  <2>6. device'[n][m] = IF Names(e, o) THEN [e EXCEPT !.id = 0] ELSE e BY <2>3, <2>5
  <2>7. [e EXCEPT !.id = 0].id = 0 BY <2>5 DEF Held
  <2>. HIDE DEF e
  <2>8. ~Names(e, o) /\ e.type = "signal" /\ e.id = id BY <1>3, <2>4, <2>6, <2>7
  <2>9. o \in Sems => id # Id(o) BY <2>8 DEF Names
  <2>10. e \in OfType(device[n], "signal") BY <2>5, <2>8 DEF e, OfType
  <2>11. id \in SignalIds(device[n]) BY <2>8, <2>10 DEF SignalIds, IdsOf
  <2>. QED BY <2>1, <2>9, <2>11
<1>4. LeftSemIds' \subseteq LeftSemIds /\ (o \in Sems => Id(o) \notin LeftSemIds')
  <2>1. ASSUME NEW id \in LeftSemIds' PROVE id \in LeftSemIds /\ (o \in Sems => id # Id(o))
    <3>1. PICK n \in DOMAIN device' : id \in SignalIds(device'[n]) BY <2>1 DEF LeftSemIds
    <3>2. id # 0 BY <2>1 DEF LeftSemIds
    <3>3. n \in DOMAIN device /\ id \in SignalIds(device[n]) /\ (o \in Sems => id # Id(o))
          BY <1>3, <3>1, <3>2
    <3>. QED BY <3>2, <3>3 DEF LeftSemIds
  <2>. QED BY <2>1
<1>5. LeftSemIds' \subseteq DOMAIN semReg' BY <1>1, <1>4 DEF Cut, LeftSems
<1>. QED BY <1>4, <1>5, DestroyKeeps, KeptSteady, LeftSemsNext

\* The count of a semaphore, when the counts of the registry stay
LEMMA CountsStay ==
    ASSUME DOMAIN semReg' = DOMAIN semReg, \A id \in DOMAIN semReg : semReg'[id].count = semReg[id].count,
           NEW s, Id(s)' = Id(s)
    PROVE  SemCount(s)' = SemCount(s)
BY DEF SemCount

\* Asking for the counter of a semaphore copies it.
LEMMA SemCounterKeeps ==
    ASSUME Core, NEW t \in Threads, NEW s \in Timelines, SemCounter(t, s)
    PROVE  TimelinesKept /\ BinariesKept
<1>1. /\ Live(s) /\ Id(s) \in DOMAIN semReg
      /\ obj' = [obj EXCEPT ![s].value = SemCount(s)]
      /\ semReg' = [semReg EXCEPT ![Id(s)].last = SemCount(s)]
      /\ UNCHANGED <<truth, tainted>>
      BY DEF SemCounter
<1>2. obj \in [Objects -> Cells] /\ truth \in [Sems \cup Events -> Nat] /\ s \in Objects /\ s \in Sems
      BY Types DEF Objects, Sems
<1>3. DOMAIN semReg' = DOMAIN semReg /\ \A id \in DOMAIN semReg : semReg'[id].count = semReg[id].count
  <2>1. \A id \in DOMAIN semReg : semReg[id] \in Payloads BY PayloadTypes
  <2>. QED BY <1>1, <2>1 DEF Payloads
<1>4. ASSUME NEW x \in Sems, Live(x)'
      PROVE  /\ Steady(x) /\ obj'[x].signaled = obj[x].signaled
             /\ obj'[x].value = obj[x].value \/ obj'[x].value = SemCount(x)
             /\ SemCount(x)' = SemCount(x)
             /\ SemCount(x) \in Nat /\ truth[x] \in Nat /\ obj[x].value \in Nat
  <2>1. x \in Objects BY KindsApart
  <2>0. obj[x] \in Cells /\ obj[s] \in Cells
        /\ obj'[x] = IF x = s THEN [obj[s] EXCEPT !.value = SemCount(s)] ELSE obj[x]
        BY <1>1, <1>2, <2>1
  <2>2. /\ obj'[x].id = obj[x].id /\ obj'[x].signaled = obj[x].signaled
        /\ obj'[x].value = obj[x].value \/ obj'[x].value = SemCount(x)
    <3>1. CASE x = s BY <2>0, <3>1 DEF Cells
    <3>2. CASE x # s BY <2>0, <3>2
    <3>. QED BY <3>1, <3>2
  <2>3. SemCount(x)' = SemCount(x)
    <3>1. Id(x)' = Id(x) BY <2>2 DEF Id
    <3>. QED BY <1>3, <3>1, CountsStay
  <2>4. SemCount(x) \in Nat /\ truth[x] \in Nat /\ obj[x].value \in Nat
        BY <1>2, <2>1, PayloadTypes DEF Cells
  <2>5. Steady(x) BY <1>1, <1>4, <2>2 DEF Steady, Live, Id
  <2>. QED BY <2>2, <2>3, <2>4, <2>5
<1>5. ASSUME NEW x \in Timelines, Live(x)' PROVE TimeKept(x)
  <2>1. x \in Sems BY DEF Sems
  <2>. QED BY <1>1, <1>4, <1>5, <2>1 DEF TimeKept
<1>6. ASSUME NEW b \in Binaries, Live(b)' PROVE BinKept(b)
  <2>1. b \in Sems BY DEF Sems
  <2>. QED BY <1>1, <1>4, <1>6, <2>1 DEF BinKept
<1>. QED BY <1>5, <1>6 DEF TimelinesKept, BinariesKept

\* A signal from the host is recorded.
LEMMA SignalSemKeeps ==
    ASSUME Core, NEW t \in Threads, NEW s \in Timelines, NEW v \in 1..MaxValue, SignalSem(t, s, v)
    PROVE  TimelinesKept /\ BinariesKept
<1>1. /\ Live(s) /\ Id(s) \in DOMAIN semReg
      /\ obj' = [obj EXCEPT ![s].value = v]
      /\ semReg' = [semReg EXCEPT ![Id(s)].count = v, ![Id(s)].last = v]
      /\ truth' = [truth EXCEPT ![s] = IF v > @ THEN v ELSE @]
      /\ tainted' = tainted
      BY DEF SignalSem
<1>2. obj \in [Objects -> Cells] /\ truth \in [Sems \cup Events -> Nat] /\ s \in Objects /\ s \in Sems
      BY Types DEF Objects, Sems
<1>3. v \in Nat BY BoundAssumption
<1>4. \A id \in DOMAIN semReg : semReg[id] \in Payloads BY PayloadTypes
<1>5. DOMAIN semReg' = DOMAIN semReg /\ semReg'[Id(s)].count = v
      /\ \A id \in DOMAIN semReg \ {Id(s)} : semReg'[id] = semReg[id]
      BY <1>1, <1>4 DEF Payloads
<1>6. \A x \in Sems : SemCount(x) \in Nat /\ truth[x] \in Nat /\ obj[x].value \in Nat
      BY <1>2, PayloadTypes, KindsApart DEF Cells
<1>7. TimeKept(s)
  <2>1. Id(s)' = Id(s) /\ obj'[s].value = v BY <1>1, <1>2 DEF Id, Cells
  <2>2. SemCount(s)' = v BY <1>1, <1>5, <2>1 DEF SemCount
  <2>3. truth'[s] = IF v > truth[s] THEN v ELSE truth[s] BY <1>1, <1>2
  <2>4. v <= truth'[s] /\ truth[s] <= truth'[s] BY <1>2, <1>3, <1>6, <2>3
  <2>. QED BY <1>1, <2>1, <2>2, <2>4 DEF TimeKept, Steady
<1>8. ASSUME NEW x \in Sems \ {s}, Live(x)'
      PROVE  Steady(x) /\ obj'[x] = obj[x] /\ SemCount(x)' = SemCount(x) /\ truth'[x] = truth[x]
  <2>1. x \in Objects BY KindsApart
  <2>2. obj'[x] = obj[x] /\ truth'[x] = truth[x] BY <1>1, <1>2, <2>1
  <2>3. Id(x)' = Id(x) /\ Live(x) BY <1>8, <2>2 DEF Live, Id
  <2>4. Id(x) # Id(s) BY <1>2, <2>1, <2>3 DEF Core, IdsApart
  <2>5. SemCount(x)' = SemCount(x) BY <1>5, <2>3, <2>4 DEF SemCount
  <2>. QED BY <1>1, <2>2, <2>3, <2>5 DEF Steady
<1>9. ASSUME NEW x \in Timelines \ {s}, Live(x)' PROVE TimeKept(x)
  <2>1. x \in Sems \ {s} BY DEF Sems
  <2>. QED BY <1>6, <1>8, <1>9, <2>1 DEF TimeKept
<1>10. ASSUME NEW b \in Binaries, Live(b)' PROVE BinKept(b)
  <2>1. b \in Sems \ {s} BY NameAssumption DEF Sems
  <2>. QED BY <1>8, <1>10, <2>1 DEF BinKept
<1>. QED BY <1>7, <1>9, <1>10 DEF TimelinesKept, BinariesKept

\* The other host calls are not about semaphores.
LEMMA HostAway ==
    ASSUME Core, NEW t \in Threads,
           \/ \E f \in Fences : ResetFence(t, f) \/ FenceStatus(t, f)
           \/ \E e \in Events : EventStatus(t, e) \/ \E on \in BOOLEAN : WriteEvent(t, e, on)
    PROVE  AwayFromSems
<1>1. obj \in [Objects -> Cells] /\ truth \in [Sems \cup Events -> Nat] BY Types
<1>2. ASSUME NEW f \in Fences, ResetFence(t, f) \/ FenceStatus(t, f) PROVE AwayFromSems
  <2>1. (\E x : obj' = [obj EXCEPT ![f].signaled = x]) /\ UNCHANGED <<semReg, truth, tainted>>
        BY <1>2 DEF ResetFence, FenceStatus
  <2>2. \A s \in Sems : obj'[s] = obj[s] BY <1>1, <2>1, KindsApart
  <2>. QED BY <2>1, <2>2 DEF AwayFromSems
<1>3. ASSUME NEW e \in Events, EventStatus(t, e) \/ \E on \in BOOLEAN : WriteEvent(t, e, on)
      PROVE  AwayFromSems
  <2>1. /\ \E x : obj' = [obj EXCEPT ![e].signaled = x]
        /\ truth' = truth \/ \E x : truth' = [truth EXCEPT ![e] = x]
        /\ UNCHANGED <<semReg, tainted>>
        BY <1>3 DEF EventStatus, WriteEvent
  <2>2. \A s \in Sems : obj'[s] = obj[s] /\ truth'[s] = truth[s] BY <1>1, <2>1, KindsApart
  <2>. QED BY <2>1, <2>2 DEF AwayFromSems
<1>. QED BY <1>2, <1>3

----------------------------------------------------------------------------
\* What is true of the semaphores and of the calls that wait for them

\* Up to its completion the next step belongs to the same VkSubmitInfo.
LEMMA SameSubmit ==
    ASSUME NEW c \in Calls, NEW n \in 1..Len(Program(c)), n + 1 \in 1..Len(Program(c)),
           Program(c)[n].op \notin {"complete", "end"}
    PROVE  Program(c)[n + 1].sub = Program(c)[n].sub
<1>. DEFINE x == Program(c)[n]   i == x.sub   z == SubmitSteps(c, i)   k == n + 1
<1>1. n # Len(Program(c)) BY StepFacts
<1>2. PICK m : At(c, n, i, m) BY <1>1, PlaceOf
<1>3. /\ i \in 1..Len(c.submits) /\ m \in 1..Len(z) /\ n = Start(Subs(c), i) + m
      /\ Start(Subs(c), i) \in Nat /\ x = z[m] /\ (m = Len(z) <=> z[m].op = "complete")
      BY <1>2, StepAt DEF At
<1>4. Len(z) \in Nat BY <1>3, SubmitForm
<1>5. m # Len(z) BY <1>3
<1>. DEFINE q == m + 1
<1>6. q \in 1..Len(z) /\ k = Start(Subs(c), i) + q
  <2>. HIDE DEF z, i, x
  <2>. QED BY <1>3, <1>4, <1>5
<1>. HIDE DEF q, k
<1>7. At(c, k, i, q) BY <1>3, <1>6 DEF At
<1>8. Program(c)[k] = z[q] BY <1>7, StepAt
<1>9. z[q].sub = i
  <2>. HIDE DEF i
  <2>1. \/ z[q] = Step("validate", i, None)
        \/ z[q] = Step("complete", i, None)
        \/ \E j \in 1..Len(c.submits[i].bufs) : \E r \in 1..Len(BufferSteps(c, i, j)) :
              z[q] = BufferSteps(c, i, j)[r]
    BY <1>3, <1>6, SubmitElement, ZenonT(60)
  <2>2. ASSUME NEW j \in 1..Len(c.submits[i].bufs), NEW r \in 1..Len(BufferSteps(c, i, j)),
               z[q] = BufferSteps(c, i, j)[r]
        PROVE  z[q].sub = i
    <3>1. StepKind(c, i, j, BufferSteps(c, i, j)[r]) BY <1>3, BufferElement
    <3>. QED BY <2>2, <3>1 DEF StepKind
  <2>. QED BY <2>1, <2>2 DEF Step
<1>. QED BY <1>8, <1>9 DEF k

\* A queue that stays, while no semaphore is forgotten
LEMMA QueueStays ==
    ASSUME LeftSems, TimelinesKept, BinariesKept, device' = device, DOMAIN semReg \subseteq DOMAIN semReg'
    PROVE  LeftSems'
<1>1. LeftSemIds' = LeftSemIds BY DEF LeftSemIds
<1>2. LeftSemIds' \subseteq DOMAIN semReg' BY <1>1 DEF LeftSems
<1>. QED BY <1>1, <1>2, KeptSteady, LeftSemsNext

\* A step that keeps the semaphores and leaves the calls where they are
LEMMA QuietSems ==
    ASSUME Core, Core', SemsTrue, LeftSems', TimelinesKept, BinariesKept, CallsStill,
           \A t \in Threads : In(t, "complete") => run'[t] = run[t]
    PROVE  SemsTrue'
<1>1. LeftSems /\ TimelineTrue /\ BinaryTrue /\ WaitsMet BY DEF SemsTrue
<1>3. TimelineTrue' BY <1>1, TimelinesNext
<1>4. BinaryTrue' BY <1>1, BinariesNext
<1>5. WaitsMet' BY <1>1, WaitsNext
<1>. QED BY <1>3, <1>4, <1>5 DEF SemsTrue

\* A step of a call, at no validation or completion, that keeps the semaphores
\* keeps what the call has waited for.
LEMMA StepWaits ==
    ASSUME Core, Core', WaitsMet, TimelinesKept, BinariesKept, NEW t \in Threads, Adds(t),
           Doing(t).op \notin {"validate", "complete"}
    PROVE  WaitsMet'
<1>. SUFFICES ASSUME NEW u \in Threads, Midway(u)'
              PROVE  \A n \in DOMAIN Info(u)'.waits :
                        Reached(Info(u).waits[n][1], Info(u).waits[n][2], run[u].did)'
     BY DEF WaitsMet
<1>1. run[t].kind = "submit" /\ run'[u].kind = "submit" BY DEF Adds, Midway
<1>2. u = t
  <2>1. u # t => run'[u] = run[u] BY DEF Adds
  <2>. QED BY <1>1, <2>1 DEF Core, OneAtATime
<1>3. run'[t].call = run[t].call /\ run'[t].pc = run[t].pc + 1
      /\ run'[t].did = run[t].did \o OneStep(Doing(t))
      BY <1>1, <1>2 DEF Adds
<1>. DEFINE c == run[t].call   n == run[t].pc
<1>4. c \in Calls /\ n \in 1..Len(Program(c)) /\ Doing(t) = Program(c)[n]
      /\ Info(t) = c.submits[Doing(t).sub] /\ run[t].did \in Seq(OpKinds)
      BY <1>1, RunFacts DEF Core
<1>5. n + 1 \in 1..Len(Program(c)) /\ Doing(t)' = Program(c)[n + 1]
      /\ Info(t)' = c.submits[Doing(t)'.sub]
  <2>1. run'[t].prog = Program(c) /\ run'[t].pc \in 1..Len(Program(c))
        BY <1>1, <1>2, <1>3 DEF Core, Running
  <2>. QED BY <1>3, <2>1 DEF Doing, Info
<1>6. Doing(t).op # "end"
  <2>1. Doing(t).op = "end" => n = Len(Program(c)) BY <1>4, StepFacts
  <2>2. n # Len(Program(c))
    <3>. HIDE DEF c, n
    <3>1. Len(Program(c)) \in Nat BY <1>4, ProgramForm
    <3>. QED BY <1>4, <1>5, <3>1
  <2>. QED BY <2>1, <2>2
<1>7. Midway(t) BY <1>1, <1>6 DEF Midway
<1>8. Doing(t)'.sub = Doing(t).sub BY <1>4, <1>5, <1>6, SameSubmit
<1>9. Info(t)' = Info(t) BY <1>4, <1>5, <1>8
<1>10. run[t].did # <<>> => run'[t].did # <<>>
  <2>1. Doing(t) \in AnyStep(c) BY <1>4, StepFacts
  <2>2. OneStep(Doing(t)) \in Seq(OpKinds)
    <3>1. <<>> \in Seq(AnyStep(c)) OBVIOUS
    <3>. QED BY <2>1, <3>1, DoneFacts
  <2>. QED BY <1>3, <1>4, <2>2
<1>. QED BY <1>1, <1>2, <1>3, <1>7, <1>9, <1>10, CallWaits

\* Such a step keeps all that is true of the semaphores.
LEMMA StepSems ==
    ASSUME Core, Core', SemsTrue, LeftSems', TimelinesKept, BinariesKept, NEW t \in Threads, Adds(t),
           Doing(t).op \notin {"validate", "complete"}
    PROVE  SemsTrue'
<1>1. LeftSems /\ TimelineTrue /\ BinaryTrue /\ WaitsMet BY DEF SemsTrue
<1>3. TimelineTrue' BY <1>1, TimelinesNext
<1>4. ASSUME NEW u \in Threads, In(u, "complete") PROVE run'[u] = run[u]
  <2>1. run[u].kind = "submit" /\ run[t].kind = "submit" BY <1>4 DEF In, Adds
  <2>2. u = t BY <2>1 DEF Core, OneAtATime
  <2>. QED BY <1>4, <2>2 DEF In
<1>5. BinaryTrue' BY <1>1, <1>4, BinariesNext
<1>6. WaitsMet' BY <1>1, StepWaits
<1>. QED BY <1>3, <1>5, <1>6 DEF SemsTrue

----------------------------------------------------------------------------
\* Waits

\* A wait for fences is not about semaphores.
LEMMA FenceWaitAway ==
    ASSUME Core, NEW S \in SUBSET Fences, obj' = obj \/ obj' = AfterFenceWait(S),
           UNCHANGED <<semReg, truth, tainted>>
    PROVE  AwayFromSems
<1>1. obj \in [Objects -> Cells] BY Types
<1>2. ASSUME NEW s \in Sems PROVE obj'[s] = obj[s]
  <2>1. s \in Objects /\ s \notin S BY KindsApart
  <2>2. CASE obj' = obj BY <2>2
  <2>3. CASE obj' = AfterFenceWait(S) BY <2>1, <2>3 DEF AfterFenceWait
  <2>. QED BY <2>2, <2>3
<1>. QED BY <1>2 DEF AwayFromSems

\* A wait for semaphores raises a copy to what the executor counts, unless it
\* says so.
LEMMA SemWaitKeeps ==
    ASSUME Core, NEW S, NEW ids, NEW v \in Nat, truth' = truth,
           semReg' = semReg \/ semReg' = AfterSemWaitReg(ids),
           \/ obj' = obj /\ tainted' = tainted
           \/ obj' = AfterSemWait(S, v) /\ tainted' = tainted \cup Overstated(S, v)
    PROVE  TimelinesKept /\ BinariesKept /\ DOMAIN semReg' = DOMAIN semReg
<1>1. obj \in [Objects -> Cells] /\ truth \in [Sems \cup Events -> Nat] BY Types
<1>2. DOMAIN semReg' = DOMAIN semReg /\ \A id \in DOMAIN semReg : semReg'[id].count = semReg[id].count
  BY AfterSemWaitRegFacts
<1>3. ASSUME NEW s \in Sems, Live(s)'
      PROVE  /\ Steady(s) /\ obj'[s].signaled = obj[s].signaled
             /\ SemCount(s)' = SemCount(s)
             /\ s \notin tainted' => obj'[s].value <= obj[s].value \/ obj'[s].value <= SemCount(s)
             /\ SemCount(s) \in Nat /\ truth[s] \in Nat
  <2>1. s \in Objects BY KindsApart
  <2>2. obj[s] \in Cells /\ SemCount(s) \in Nat /\ truth[s] \in Nat BY <1>1, <2>1, PayloadTypes
  <2>3. \/ obj'[s] = obj[s]
        \/ obj'[s] = [obj[s] EXCEPT !.value = v] /\ s \in S /\ tainted' = tainted \cup Overstated(S, v)
    <3>1. CASE obj' = obj BY <3>1
    <3>2. CASE obj' = AfterSemWait(S, v) /\ tainted' = tainted \cup Overstated(S, v)
      BY <2>1, <3>2 DEF AfterSemWait
    <3>. QED BY <3>1, <3>2
  <2>4. /\ obj'[s].id = obj[s].id /\ obj'[s].signaled = obj[s].signaled
        /\ \/ obj'[s].value = obj[s].value
           \/ obj'[s].value = v /\ s \in S /\ tainted' = tainted \cup Overstated(S, v)
    BY <2>2, <2>3 DEF Cells
  <2>5. s \notin tainted' => obj'[s].value <= obj[s].value \/ obj'[s].value <= SemCount(s)
    <3>1. obj[s].value \in Nat BY <2>2 DEF Cells
    <3>2. CASE obj'[s].value = obj[s].value BY <3>1, <3>2
    <3>3. CASE obj'[s].value = v /\ s \in S /\ tainted' = tainted \cup Overstated(S, v)
      <4>1. s \notin tainted' => ~(SemCount(s) < v) BY <3>3 DEF Overstated
      <4>2. ~(SemCount(s) < v) => v <= SemCount(s)
        <5>1. PICK n \in Nat : n = SemCount(s) BY <2>2
        <5>. QED BY <5>1
      <4>. QED BY <3>3, <4>1, <4>2
    <3>. QED BY <2>4, <3>2, <3>3
  <2>6. Id(s)' = Id(s) BY <2>4 DEF Id
  <2>7. SemCount(s)' = SemCount(s) BY <1>2, <2>6, CountsStay
  <2>8. s \in tainted => s \in tainted' OBVIOUS
  <2>9. Steady(s) BY <1>3, <2>6, <2>8 DEF Steady, Live, Id
  <2>. QED BY <2>2, <2>4, <2>5, <2>7, <2>9
<1>4. ASSUME NEW x \in Timelines, Live(x)' PROVE TimeKept(x)
  <2>1. x \in Sems BY DEF Sems
  <2>. QED BY <1>3, <1>4, <2>1 DEF TimeKept
<1>5. ASSUME NEW b \in Binaries, Live(b)' PROVE BinKept(b)
  <2>1. b \in Sems BY DEF Sems
  <2>. QED BY <1>3, <1>5, <2>1 DEF BinKept
<1>. QED BY <1>2, <1>4, <1>5 DEF TimelinesKept, BinariesKept

\* A thread that is not submitting moves no submission.
LEMMA OthersMove ==
    ASSUME NEW t, run[t].kind # "submit", \A u \in Threads \ {t} : run'[u] = run[u]
    PROVE  \A u \in Threads : In(u, "complete") => run'[u] = run[u]
BY DEF In

\* A thread that waits keeps waiting while another one holds or frees nothing.
LEMMA WaiterNext ==
    ASSUME Core, WaiterWaits, busy' = busy,
           \A u \in Threads : run[u].kind = "wait" => run'[u].kind = "wait"
    PROVE  WaiterWaits'
<1>. SUFFICES ASSUME busy # Free
              PROVE  /\ busy.thread # None => run'[busy.thread].kind = "wait"
                     /\ busy.kind = "fences" => busy.objs \subseteq Fences
     BY DEF WaiterWaits
<1>1. busy.thread \in Threads \cup {None} BY DEF Core, TypeOK, Waits
<1>. QED BY <1>1 DEF WaiterWaits

\* A wait of one of the threads
LEMMA WaitFencesKeeps ==
    ASSUME Core, WaiterWaits, NEW t \in Threads, NEW S \in SUBSET Fences, NEW mode \in {"all", "any"},
           WaitFences(t, S, mode)
    PROVE  /\ AwayFromSems /\ WaiterWaits' /\ semReg' = semReg
           /\ \A u \in Threads : In(u, "complete") => run'[u] = run[u]
<1>1. run[t] = Idle /\ busy = Free /\ UNCHANGED <<semReg, truth, tainted>>
      /\ (obj' = obj \/ obj' = AfterFenceWait(S))
      BY DEF WaitFences, Ready, Serving
<1>2. \/ run' = run /\ busy' = busy
      \/ /\ run' = [run EXCEPT ![t] = WaitRecord("wait", t, S, mode, 0)]
         /\ busy' = WaitRecord("fences", t, S, mode, 0)
      \/ busy' = busy /\ run' = [run EXCEPT ![t] = WaitRecord("poll", t, S, mode, 0)]
      BY DEF WaitFences
<1>3. DOMAIN run = Threads /\ run[t].kind = "idle" BY <1>1 DEF Core, TypeOK, Idle
<1>4. AwayFromSems BY <1>1, FenceWaitAway
<1>5. \A u \in Threads \ {t} : run'[u] = run[u] BY <1>2, <1>3
<1>6. \A u \in Threads : In(u, "complete") => run'[u] = run[u] BY <1>3, <1>5, OthersMove
<1>7. WaiterWaits'
  <2>1. CASE busy' = busy BY <1>1, <2>1 DEF WaiterWaits
  <2>2. CASE /\ run' = [run EXCEPT ![t] = WaitRecord("wait", t, S, mode, 0)]
             /\ busy' = WaitRecord("fences", t, S, mode, 0)
    <3>1. run'[t].kind = "wait" BY <1>3, <2>2 DEF WaitRecord
    <3>2. busy'.thread = t /\ busy'.objs = S BY <2>2 DEF WaitRecord
    <3>. QED BY <3>1, <3>2 DEF WaiterWaits
  <2>. QED BY <1>2, <2>1, <2>2
<1>. QED BY <1>1, <1>4, <1>6, <1>7

\* The same of semaphores
LEMMA WaitSemsKeeps ==
    ASSUME Core, WaiterWaits, NEW t \in Threads, NEW S \in SUBSET Timelines, NEW mode \in {"all", "any"},
           NEW v \in 1..MaxValue, WaitSems(t, S, mode, v)
    PROVE  /\ TimelinesKept /\ BinariesKept /\ WaiterWaits' /\ DOMAIN semReg' = DOMAIN semReg
           /\ \A u \in Threads : In(u, "complete") => run'[u] = run[u]
<1>1. run[t] = Idle /\ busy = Free /\ truth' = truth
      BY DEF WaitSems, Ready, Serving
<1>2. \/ /\ run' = run /\ busy' = busy /\ obj' = AfterSemWait(S, v)
         /\ semReg' = AfterSemWaitReg(Ids(S)) /\ tainted' = tainted \cup Overstated(S, v)
      \/ /\ run' = [run EXCEPT ![t] = WaitRecord("wait", t, S, mode, 0)]
         /\ busy' = WaitRecord("sems", t, S, mode, v)
         /\ obj' = obj /\ semReg' = semReg /\ tainted' = tainted
      BY DEF WaitSems
<1>3. DOMAIN run = Threads /\ run[t].kind = "idle" BY <1>1 DEF Core, TypeOK, Idle
<1>4. v \in Nat BY BoundAssumption
<1>5. TimelinesKept /\ BinariesKept /\ DOMAIN semReg' = DOMAIN semReg BY <1>1, <1>2, <1>4, SemWaitKeeps
<1>6. \A u \in Threads \ {t} : run'[u] = run[u] BY <1>2, <1>3
<1>7. \A u \in Threads : In(u, "complete") => run'[u] = run[u] BY <1>3, <1>6, OthersMove
<1>8. WaiterWaits'
  <2>1. CASE busy' = busy BY <1>1, <2>1 DEF WaiterWaits
  <2>2. CASE /\ run' = [run EXCEPT ![t] = WaitRecord("wait", t, S, mode, 0)]
             /\ busy' = WaitRecord("sems", t, S, mode, v)
    <3>1. run'[t].kind = "wait" BY <1>3, <2>2 DEF WaitRecord
    <3>2. busy'.thread = t /\ busy'.kind = "sems" BY <2>2 DEF WaitRecord
    <3>. QED BY <3>1, <3>2 DEF WaiterWaits
  <2>. QED BY <1>2, <2>1, <2>2
<1>. QED BY <1>5, <1>7, <1>8

\* The end of a wait, on behalf of a thread or of a dead process
LEMMA WaitEndsKeeps ==
    ASSUME Core, WaiterWaits, WaitEnds
    PROVE  /\ TimelinesKept /\ BinariesKept /\ WaiterWaits' /\ DOMAIN semReg' = DOMAIN semReg
           /\ \A u \in Threads : In(u, "complete") => run'[u] = run[u]
<1>1. busy # Free /\ busy' = Free /\ truth' = truth BY DEF WaitEnds
<1>2. busy \in Waits({"fences", "sems"}, Threads \cup {None}) BY <1>1 DEF Core, TypeOK
<1>3. WaiterWaits' BY <1>1 DEF WaiterWaits
<1>4. TimelinesKept /\ BinariesKept /\ DOMAIN semReg' = DOMAIN semReg
  <2>1. CASE busy.kind = "fences"
    <3>1. UNCHANGED <<semReg, tainted>> /\ (obj' = obj \/ obj' = AfterFenceWait(busy.objs))
          BY <2>1 DEF WaitEnds
    <3>2. busy.objs \in SUBSET Fences BY <1>1, <2>1 DEF WaiterWaits
    <3>3. AwayFromSems BY <1>1, <3>1, <3>2, FenceWaitAway
    <3>. QED BY <3>1, <3>3, AwayKeeps
  <2>2. CASE busy.kind = "sems"
    <3>1. /\ semReg' = AfterSemWaitReg(busy.ids)
          /\ \/ obj' = obj /\ tainted' = tainted
             \/ /\ obj' = AfterSemWait(busy.objs, busy.value)
                /\ tainted' = tainted \cup Overstated(busy.objs, busy.value)
          BY <2>2 DEF WaitEnds
    <3>2. busy.value \in Nat BY <1>2 DEF Waits
    <3>. QED BY <1>1, <3>1, <3>2, SemWaitKeeps
  <2>. QED BY <1>2, <2>1, <2>2 DEF Waits
<1>5. \A u \in Threads : In(u, "complete") => run'[u] = run[u]
  <2>1. CASE busy.thread = None BY <2>1 DEF WaitEnds
  <2>2. CASE busy.thread # None
    <3>1. run[busy.thread].kind = "wait" BY <1>1, <2>2 DEF WaiterWaits
    <3>2. run' = [run EXCEPT ![busy.thread] = Idle] BY <2>2 DEF WaitEnds
    <3>3. DOMAIN run = Threads BY DEF Core, TypeOK
    <3>4. \A u \in Threads \ {busy.thread} : run'[u] = run[u] BY <3>2, <3>3
    <3>. QED BY <3>1, <3>4, OthersMove
  <2>. QED BY <2>1, <2>2
<1>. QED BY <1>3, <1>4, <1>5

\* Waiting keeps what is true of the semaphores.
LEMMA WaitCallsSems ==
    ASSUME Core, Core', SemsTrue, WaiterWaits, WaitCalls
    PROVE  SemsTrue' /\ WaiterWaits'
<1>1. CallsStill /\ device' = device BY WaitCallsStill
<1>2. LeftSems BY DEF SemsTrue
<1>3. /\ TimelinesKept /\ BinariesKept /\ WaiterWaits' /\ DOMAIN semReg \subseteq DOMAIN semReg'
      /\ \A u \in Threads : In(u, "complete") => run'[u] = run[u]
  <2>1. ASSUME NEW t \in Threads, NEW S \in SUBSET Fences, NEW mode \in {"all", "any"},
               WaitFences(t, S, mode)
        PROVE  <1>3!:
    BY <2>1, WaitFencesKeeps, AwayKeeps
  <2>2. ASSUME NEW t \in Threads, NEW S \in SUBSET Timelines, NEW mode \in {"all", "any"},
               NEW v \in 1..MaxValue, WaitSems(t, S, mode, v)
        PROVE  <1>3!:
    BY <2>2, WaitSemsKeeps
  <2>3. ASSUME NEW t \in Threads, PollFences(t) PROVE <1>3!:
    <3>1. /\ run[t].kind = "poll" /\ run' = [run EXCEPT ![t] = Idle]
          /\ UNCHANGED <<obj, semReg, busy, truth, tainted>>
          BY <2>3 DEF PollFences
    <3>2. AwayFromSems BY <3>1 DEF AwayFromSems
    <3>3. DOMAIN run = Threads BY DEF Core, TypeOK
    <3>4. \A u \in Threads \ {t} : run'[u] = run[u] BY <3>1, <3>3
    <3>5. \A u \in Threads : In(u, "complete") => run'[u] = run[u] BY <3>1, <3>4, OthersMove
    <3>6. \A u \in Threads : run[u].kind = "wait" => run'[u].kind = "wait" BY <3>1, <3>4
    <3>7. WaiterWaits' BY <3>1, <3>6, WaiterNext
    <3>. QED BY <3>1, <3>2, <3>5, <3>7, AwayKeeps
  <2>4. CASE WaitEnds BY <2>4, WaitEndsKeeps
  <2>. QED BY <2>1, <2>2, <2>3, <2>4 DEF WaitCalls
<1>4. LeftSems' BY <1>1, <1>2, <1>3, QueueStays
<1>. QED BY <1>1, <1>3, <1>4, QuietSems

\* So do the host calls,
LEMMA HostCallsSems ==
    ASSUME Core, Core', SemsTrue, WaiterWaits, HostCalls
    PROVE  SemsTrue' /\ WaiterWaits'
<1>1. CallsStill /\ device' = device BY HostCallsStill DEF FencesKept
<1>2. run' = run /\ busy' = busy
  BY DEF HostCalls, ResetFence, FenceStatus, SemCounter, SignalSem, WriteEvent, EventStatus
<1>3. WaiterWaits' BY <1>2, WaiterNext
<1>4. TimelinesKept /\ BinariesKept
  <2>1. ASSUME NEW t \in Threads, NEW s \in Timelines, SemCounter(t, s) PROVE TimelinesKept /\ BinariesKept
    BY <2>1, SemCounterKeeps
  <2>2. ASSUME NEW t \in Threads, NEW s \in Timelines, NEW v \in 1..MaxValue, SignalSem(t, s, v)
        PROVE  TimelinesKept /\ BinariesKept
    BY <2>2, SignalSemKeeps
  <2>3. ASSUME NEW t \in Threads,
               \/ \E f \in Fences : ResetFence(t, f) \/ FenceStatus(t, f)
               \/ \E e \in Events : EventStatus(t, e) \/ \E on \in BOOLEAN : WriteEvent(t, e, on)
        PROVE  TimelinesKept /\ BinariesKept
    BY <2>3, HostAway, AwayKeeps
  <2>. QED BY <2>1, <2>2, <2>3 DEF HostCalls
<1>5. DOMAIN semReg' = DOMAIN semReg BY HostCallsDomains DEF DomainsKept
<1>6. LeftSems' BY <1>1, <1>4, <1>5, QueueStays DEF SemsTrue
<1>. QED BY <1>1, <1>2, <1>3, <1>4, <1>6, QuietSems

\* the creation of an object,
LEMMA CreatesSems ==
    ASSUME Core, Core', SemsTrue, WaiterWaits, Creates
    PROVE  SemsTrue' /\ WaiterWaits'
<1>1. CallsStill /\ device' = device BY CreatesStill
<1>2. run' = run /\ busy' = busy
  BY DEF Creates, CreateFence, CreateSem, CreateEvent
<1>3. WaiterWaits' BY <1>2, WaiterNext
<1>4. TimelinesKept /\ BinariesKept /\ DOMAIN semReg \subseteq DOMAIN semReg'
  <2>1. ASSUME NEW t \in Threads, NEW s \in Sems, CreateSem(t, s, 0) PROVE <1>4!:
    BY <2>1, CreateSemKeeps
  <2>2. ASSUME NEW t \in Threads,
               \/ \E f \in Fences, b \in BOOLEAN : CreateFence(t, f, b)
               \/ \E e \in Events : CreateEvent(t, e)
        PROVE  <1>4!:
    <3>1. semReg' = semReg BY <2>2 DEF CreateFence, CreateEvent
    <3>. QED BY <2>2, <3>1, CreatesAway, AwayKeeps
  <2>. QED BY <2>1, <2>2 DEF Creates
<1>6. LeftSems' BY <1>1, <1>4, QueueStays DEF SemsTrue
<1>. QED BY <1>1, <1>2, <1>3, <1>4, <1>6, QuietSems

\* and its end.
LEMMA DestroysSems ==
    ASSUME Core, Core', SemsTrue, WaiterWaits, Destroys
    PROVE  SemsTrue' /\ WaiterWaits'
<1>1. PICK t \in Threads, o \in Objects : Destroy(t, o) BY DEF Destroys
<1>2. run' = run /\ busy' = busy BY <1>1 DEF Destroy
<1>3. WaiterWaits' BY <1>2, WaiterNext
<1>4. TimelinesKept /\ BinariesKept BY <1>1, DestroyKeeps
<1>5. LeftSems' BY <1>1, DestroyLeftSems DEF SemsTrue
<1>6. CallsStill BY <1>2 DEF CallsStill
<1>. QED BY <1>2, <1>3, <1>4, <1>5, <1>6, QuietSems

----------------------------------------------------------------------------
\* The steps of a submission

\* A submission does not wait for the executor's answer to a wait.
LEMMA SubmitWaiter ==
    ASSUME Core, WaiterWaits, SubmitCalls
    PROVE  WaiterWaits'
<1>1. PICK t \in Threads : \/ \E c \in Calls : SubmitBegin(t, c)
                           \/ PlainStep(t) \/ Frame(t) \/ SubmitEnd(t)
      BY SMTT(40) DEF SubmitCalls, PlainStep
<1>2. busy' = busy
  BY <1>1 DEF SubmitBegin, PlainStep, Validate, Refuse, HostOp, Dispatch, Frame, Complete, SubmitEnd
<1>3. run[t].kind # "wait" /\ \A u \in Threads \ {t} : run'[u] = run[u]
  <2>0. DOMAIN run = Threads BY DEF Core, TypeOK
  <2>1. ASSUME NEW c \in Calls, SubmitBegin(t, c) PROVE <1>3!:
    <3>1. run[t] = Idle /\ \E r : run' = [run EXCEPT ![t] = r] BY <2>1 DEF SubmitBegin
    <3>. QED BY <2>0, <3>1 DEF Idle
  <2>2. CASE PlainStep(t) BY <2>2, PlainStepAdds DEF Adds
  <2>3. CASE Frame(t) BY <2>3, FrameAdds DEF Adds
  <2>4. CASE SubmitEnd(t)
    <3>1. run[t].kind = "submit" /\ Leave(t) BY <2>4 DEF SubmitEnd, In
    <3>. QED BY <3>1, LeaveKeeps
  <2>. QED BY <1>1, <2>1, <2>2, <2>3, <2>4
<1>. QED BY <1>2, <1>3, WaiterNext

\* The beginning of a submission is not about semaphores, and it waits for
\* nothing before its validation.
LEMMA BeginSems ==
    ASSUME Core, Core', SemsTrue, NEW t \in Threads, NEW c \in Calls, SubmitBegin(t, c)
    PROVE  SemsTrue'
<1>1. LeftSems /\ TimelineTrue /\ BinaryTrue BY DEF SemsTrue
<1>2. AwayFromSems
  <2>1. c.fence \in Fences \cup {None} BY CallFacts
  <2>2. ASSUME NEW s \in Sems PROVE obj'[s] = obj[s]
    <3>1. s \in Objects /\ s # c.fence BY <2>1, KindsApart, NameAssumption
    <3>2. obj' = [o \in Objects |-> IF o = c.fence THEN [obj[o] EXCEPT !.signaled = FALSE] ELSE obj[o]]
          BY DEF SubmitBegin
    <3>. QED BY <3>1, <3>2
  <2>3. UNCHANGED <<semReg, truth, tainted>> BY DEF SubmitBegin
  <2>. QED BY <2>2, <2>3 DEF AwayFromSems
<1>3. TimelinesKept /\ BinariesKept BY <1>2, AwayKeeps
<1>4. device' = device /\ semReg' = semReg /\ \A u \in Threads : run[u].kind # "submit"
      BY DEF SubmitBegin, ValidUse, Quiet
<1>5. LeftSems' BY <1>1, <1>3, <1>4, QueueStays
<1>6. TimelineTrue' BY <1>1, <1>3, TimelinesNext
<1>7. BinaryTrue'
  <2>1. \A u \in Threads : ~In(u, "complete") BY <1>4 DEF In
  <2>. QED BY <1>1, <1>3, <2>1, BinariesNext
<1>8. ASSUME NEW u \in Threads, Midway(u)' PROVE FALSE
  <2>0. run'[u].kind = "submit" BY <1>8 DEF Midway
  <2>a. run' = [run EXCEPT ![t] = [kind |-> "submit", call |-> c, prog |-> Program(c),
                                   pc |-> 1, did |-> <<>>]]
        BY DEF SubmitBegin
  <2>b. DOMAIN run = Threads BY DEF Core, TypeOK
  <2>c. u = t BY <1>4, <2>0, <2>a, <2>b
  <2>1. run'[u].prog = Program(c) /\ run'[u].pc = 1 BY <2>a, <2>b, <2>c
  <2>2. Doing(u)' = Program(c)[1] BY <2>1 DEF Doing
  <2>3. Program(c)[1].op \in {"validate", "end"} BY FirstStep
  <2>. QED BY <1>8, <2>2, <2>3 DEF Midway
<1>9. WaitsMet' BY <1>8 DEF WaitsMet
<1>. QED BY <1>5, <1>6, <1>7, <1>9 DEF SemsTrue

\* What a validation finds satisfied has really been signaled.
LEMMA ValidateSems ==
    ASSUME Core, Core', SemsTrue, NEW t \in Threads, Validate(t)
    PROVE  SemsTrue'
<1>1. LeftSems /\ TimelineTrue /\ BinaryTrue BY DEF SemsTrue
<1>2. /\ run[t].kind = "submit" /\ Doing(t).op = "validate"
      /\ UNCHANGED <<obj, semReg, truth, tainted, device>>
      BY DEF Validate, In, Quiet
<1>3. AwayFromSems BY <1>2 DEF AwayFromSems
<1>4. TimelinesKept /\ BinariesKept BY <1>3, AwayKeeps
<1>5. LeftSems' BY <1>1, <1>2, <1>4, QueueStays
<1>6. TimelineTrue' BY <1>1, <1>4, TimelinesNext
<1>7. ASSUME NEW u \in Threads, In(u, "complete") PROVE FALSE
  <2>1. u = t BY <1>2, <1>7 DEF In, Core, OneAtATime
  <2>. QED BY <1>2, <1>7, <2>1 DEF In
<1>8. BinaryTrue' BY <1>1, <1>4, <1>7, BinariesNext
<1>9. WaitsMet'
  <2>. SUFFICES ASSUME NEW u \in Threads, Midway(u)'
                PROVE  \A n \in DOMAIN Info(u)'.waits :
                          Reached(Info(u).waits[n][1], Info(u).waits[n][2], run[u].did)'
       BY DEF WaitsMet
  <2>1. Adds(t) BY PlainStepAdds DEF PlainStep
  <2>2. u = t
    <3>1. u # t => run'[u] = run[u] BY <2>1 DEF Adds
    <3>. QED BY <1>2, <3>1 DEF Core, OneAtATime, Midway
  <2>3. run'[t].kind = "submit" /\ run'[t].call = run[t].call /\ run'[t].pc = run[t].pc + 1
    BY <2>1, <2>2 DEF Adds, Midway
  <2>. DEFINE c == run[t].call   n == run[t].pc
  <2>4. c \in Calls /\ n \in 1..Len(Program(c)) /\ Doing(t) = Program(c)[n]
        /\ Info(t) = c.submits[Doing(t).sub]
        BY <1>2, RunFacts DEF Core
  <2>5. n + 1 \in 1..Len(Program(c)) /\ Doing(t)' = Program(c)[n + 1]
        /\ Info(t)' = c.submits[Doing(t)'.sub]
    <3>1. run'[t].prog = Program(c) /\ run'[t].pc \in 1..Len(Program(c))
          BY <2>3 DEF Core, Running
    <3>. QED BY <2>3, <3>1 DEF Doing, Info
  <2>6. Doing(t)'.sub = Doing(t).sub BY <1>2, <2>4, <2>5, SameSubmit
  <2>7. Info(t)' = Info(t) BY <2>4, <2>5, <2>6
  <2>8. \A k \in DOMAIN Info(t).waits : Satisfied(Info(t).waits[k][1], Info(t).waits[k][2])
    <3>1. ~Leave(t) BY <2>3, LeaveKeeps
    <3>. QED BY <3>1 DEF Validate
  <2>9. ASSUME NEW k \in DOMAIN Info(t).waits
        PROVE  Reached(Info(t).waits[k][1], Info(t).waits[k][2], run[t].did)'
    <3>1. PICK s, v : s = Info(t).waits[k][1] /\ v = Info(t).waits[k][2] OBVIOUS
    <3>2. s \in Sems /\ v \in Nat /\ Live(s) BY <1>2, <3>1, WaitFacts
    <3>3. Satisfied(s, v) BY <2>8, <3>1
    <3>4. truth[s] \in Nat /\ obj[s].value \in Nat
      <4>1. s \in Objects BY <3>2, KindsApart
      <4>. QED BY <3>2, <4>1, Types DEF Cells
    <3>5. s \in tainted \/ (s \in Timelines /\ truth[s] >= v) \/ (s \in Binaries /\ truth[s] = 1)
      <4>1. CASE s \in Timelines \ tainted
        <5>1. obj[s].value >= v /\ obj[s].value <= truth[s]
              BY <1>1, <3>2, <3>3, <4>1 DEF Satisfied, TimelineTrue
        <5>. QED BY <3>2, <3>4, <4>1, <5>1
      <4>2. CASE s \in Binaries \ tainted
        <5>1. obj[s].signaled BY <3>3, <4>2, NameAssumption DEF Satisfied
        <5>. QED BY <1>1, <1>7, <3>2, <4>2, <5>1 DEF BinaryTrue, Consumed
      <4>. QED BY <3>2, <4>1, <4>2 DEF Sems
    <3>6. Info(t)'.waits[k][1] = s /\ Info(t)'.waits[k][2] = v BY <2>7, <3>1
    <3>. QED BY <1>2, <3>5, <3>6 DEF Reached
  <2>. QED BY <2>2, <2>7, <2>9
<1>. QED BY <1>5, <1>6, <1>8, <1>9 DEF SemsTrue

\* Steps of the ICD alone are not about semaphores.
LEMMA PlainSems ==
    ASSUME Core, Core', SemsTrue, NEW t \in Threads, Refuse(t) \/ HostOp(t) \/ Dispatch(t)
    PROVE  SemsTrue'
<1>1. Adds(t) /\ device' = device BY PlainStepAdds, PlainStepStill DEF PlainStep
<1>2. Doing(t).op \in {"refuse", "host", "dispatch"} BY DEF Refuse, HostOp, Dispatch, In
<1>3. semReg' = semReg BY DEF Refuse, HostOp, Dispatch
<1>4. AwayFromSems
  <2>1. Fail(t) => tainted \subseteq tainted' BY DEF Fail
  <2>2. tainted \subseteq tainted' BY <2>1 DEF Refuse, HostOp, Dispatch
  <2>3. /\ obj' = obj \/ \E x : obj' = [obj EXCEPT ![TheEvent].signaled = x]
        /\ truth' = truth \/ \E x : truth' = [truth EXCEPT ![TheEvent] = x]
        BY DEF Refuse, HostOp, Dispatch
  <2>4. obj \in [Objects -> Cells] /\ truth \in [Sems \cup Events -> Nat] BY Types
  <2>5. \A s \in Sems : obj'[s] = obj[s] /\ truth'[s] = truth[s] BY <2>3, <2>4, KindsApart
  <2>. QED BY <1>3, <2>2, <2>5 DEF AwayFromSems
<1>5. TimelinesKept /\ BinariesKept BY <1>4, AwayKeeps
<1>6. LeftSems' BY <1>1, <1>3, <1>5, QueueStays DEF SemsTrue
<1>. QED BY <1>1, <1>2, <1>5, <1>6, StepSems

\* So is the end of the call.
LEMMA EndSems ==
    ASSUME Core, Core', SemsTrue, NEW t \in Threads, SubmitEnd(t)
    PROVE  SemsTrue'
<1>1. run[t].kind = "submit" /\ Doing(t).op = "end" /\ UNCHANGED <<semReg, truth, tainted, device>>
      BY DEF SubmitEnd, In, Quiet
<1>2. AwayFromSems
  <2>1. run[t].call.fence \in Fences \cup {None} BY <1>1, RunFacts, CallFacts DEF Core
  <2>2. ASSUME NEW s \in Sems PROVE obj'[s] = obj[s]
    <3>1. s \in Objects /\ s # run[t].call.fence BY <2>1, KindsApart, NameAssumption
    <3>2. obj' = [o \in Objects |-> IF o = run[t].call.fence THEN [obj[o] EXCEPT !.signaled = TRUE]
                                                             ELSE obj[o]]
          BY DEF SubmitEnd
    <3>. QED BY <3>1, <3>2
  <2>. QED BY <1>1, <2>2 DEF AwayFromSems
<1>3. TimelinesKept /\ BinariesKept BY <1>2, AwayKeeps
<1>4. LeftSems' BY <1>1, <1>3, QueueStays DEF SemsTrue
<1>5. CallsStill BY SubmitEndStill DEF CallsStill
<1>6. ASSUME NEW u \in Threads, In(u, "complete") PROVE FALSE
  <2>1. u = t BY <1>1, <1>6 DEF In, Core, OneAtATime
  <2>. QED BY <1>1, <1>6, <2>1 DEF In
<1>. QED BY <1>3, <1>4, <1>5, <1>6, QuietSems

----------------------------------------------------------------------------
\* What the device does to the counts of semaphores

\* A signaled semaphore counts its value, another one what it did or nothing.
LEMMA SignaledCounts ==
    ASSUME NEW sr, Registry(sr, Payloads), NEW es, NEW id \in DOMAIN sr
    PROVE  /\ DOMAIN SignaledSems(sr, es) = DOMAIN sr
           /\ id \in SignalIds(es) => SignaledSems(sr, es)[id].count = SignalValue(es, id)
           /\ id \notin SignalIds(es) => SignaledSems(sr, es)[id].count \in {sr[id].count, 0}
<1>1. sr[id] \in Payloads BY DEF Registry
<1>. DEFINE v == SignalValue(es, id)   I == IdsOf(OfType(es, "signal"))   W == IdsOf(OfType(es, "wait"))
<1>2. DOMAIN SignaledSems(sr, es) = DOMAIN sr BY DEF SignaledSems
<1>3. SignaledSems(sr, es)[id] =
        IF id \in I THEN [sr[id] EXCEPT !.count = v,
                                        !.last = IF sr[id].timeline /\ @ < v THEN v ELSE @]
        ELSE IF id \in W /\ ~sr[id].timeline THEN [sr[id] EXCEPT !.count = 0] ELSE sr[id]
      BY DEF SignaledSems
<1>. HIDE DEF v, I, W
<1>4. id \in I => SignaledSems(sr, es)[id].count = v BY <1>1, <1>3 DEF Payloads
<1>5. id \notin I => SignaledSems(sr, es)[id].count \in {sr[id].count, 0} BY <1>1, <1>3 DEF Payloads
<1>. QED BY <1>2, <1>4, <1>5 DEF SignalIds, I, v

\* A frame left on the device says nothing false of an untainted semaphore.
LEMMA DeviceSems ==
    ASSUME Core, Core', SemsTrue, WaiterWaits, DeviceRuns
    PROVE  SemsTrue' /\ WaiterWaits'
<1>. DEFINE es == Head(device)
<1>1. /\ device # <<>> /\ device' = Tail(device) /\ semReg' = SignaledSems(semReg, es)
      /\ UNCHANGED <<obj, busy, run, truth, tainted>>
      BY DEF DeviceRuns
<1>2. device \in Seq(Seq(Held)) /\ Registry(semReg, Payloads) /\ truth \in [Sems \cup Events -> Nat]
      /\ obj \in [Objects -> Cells]
      BY Types
<1>3. LeftSems BY DEF SemsTrue
<1>4. SignalIds(es) \subseteq LeftSemIds \cup {0}
  <2>1. 1 \in DOMAIN device /\ es = device[1] BY <1>1, <1>2
  <2>2. \A id \in SignalIds(es) : id # 0 => id \in LeftSemIds
    <3>. HIDE DEF es
    <3>. QED BY <2>1 DEF LeftSemIds
  <2>. QED BY <2>2
<1>. HIDE DEF es
<1>5. DOMAIN semReg' = DOMAIN semReg BY <1>1 DEF SignaledSems
<1>6. ASSUME NEW s \in Sems, Live(s)' PROVE Live(s) /\ Id(s)' = Id(s) /\ Steady(s) /\ obj'[s] = obj[s]
  BY <1>1, <1>6 DEF Live, Id, Steady
<1>7. LeftSems'
  <2>1. \A n \in DOMAIN device' : n + 1 \in DOMAIN device /\ device'[n] = device[n + 1] BY <1>1, <1>2
  <2>2. LeftSemIds' \subseteq LeftSemIds BY <2>1 DEF LeftSemIds
  <2>3. LeftSemIds' \subseteq DOMAIN semReg' BY <1>3, <1>5, <2>2 DEF LeftSems
  <2>. QED BY <1>3, <1>6, <2>2, <2>3, LeftSemsNext
<1>8. ASSUME NEW s \in Timelines, Live(s)' PROVE TimeKept(s)
  <2>1. s \in Sems /\ s \in Objects BY KindsApart DEF Sems
  <2>2. Steady(s) /\ Live(s) /\ Id(s)' = Id(s) /\ obj'[s] = obj[s] /\ truth'[s] = truth[s]
        BY <1>1, <1>6, <1>8, <2>1
  <2>3. truth[s] \in Nat /\ obj[s].value \in Nat /\ SemCount(s) \in Nat
        BY <1>2, <2>1, PayloadTypes DEF Cells
  <2>4. ASSUME s \notin tainted' PROVE SemCount(s)' <= SemCount(s)
    <3>0. s \notin tainted /\ Id(s) # 0 BY <1>1, <2>2, <2>4 DEF Live, Id
    <3>1. Id(s) \notin LeftSemIds /\ Id(s) # 0 BY <1>3, <2>1, <2>2, <3>0 DEF LeftSems
    <3>2. Id(s) \notin SignalIds(es) BY <1>4, <3>1
    <3>3. SemCount(s)' = SemCount(s) \/ SemCount(s)' = 0
      <4>1. CASE Id(s) \in DOMAIN semReg
        <5>1. semReg'[Id(s)].count \in {semReg[Id(s)].count, 0} BY <1>1, <1>2, <3>2, <4>1, SignaledCounts
        <5>. QED BY <1>5, <2>2, <4>1, <5>1 DEF SemCount
      <4>2. CASE Id(s) \notin DOMAIN semReg BY <1>5, <2>2, <4>2 DEF SemCount
      <4>. QED BY <4>1, <4>2
    <3>4. PICK n, m : n = SemCount(s) /\ m = SemCount(s)' OBVIOUS
    <3>. QED BY <2>3, <3>3, <3>4
  <2>. QED BY <2>2, <2>3, <2>4 DEF TimeKept
<1>9. ASSUME NEW b \in Binaries, Live(b)' PROVE BinKept(b)
  <2>1. b \in Sems BY DEF Sems
  <2>. QED BY <1>1, <1>6, <1>9, <2>1 DEF BinKept
<1>10. TimelinesKept /\ BinariesKept BY <1>8, <1>9 DEF TimelinesKept, BinariesKept
<1>11. CallsStill BY <1>1 DEF CallsStill
<1>12. WaiterWaits' BY <1>1, WaiterNext
<1>. QED BY <1>1, <1>7, <1>10, <1>11, <1>12, QuietSems

\* Neither semaphores nor calls depend on an executor that restarts,
LEMMA RestartSems ==
    ASSUME Core, Core', SemsTrue, Restart
    PROVE  SemsTrue' /\ WaiterWaits'
<1>1. /\ semReg' = <<>> /\ device' = <<>> /\ busy' = Free /\ UNCHANGED <<obj, truth, tainted>>
      BY DEF Restart
<1>2. AwayFromSems BY <1>1 DEF AwayFromSems
<1>3. TimelinesKept /\ BinariesKept BY <1>2, AwayKeeps
<1>4. LeftSems'
  <2>1. LeftSemIds' = {} BY <1>1 DEF LeftSemIds
  <2>. QED BY <2>1 DEF LeftSems
<1>5. CallsStill BY RestartCalls
<1>6. \A u \in Threads : In(u, "complete") => run'[u] = run[u] BY DEF Restart, In
<1>7. WaiterWaits' BY <1>1 DEF WaiterWaits
<1>. QED BY <1>3, <1>4, <1>5, <1>6, <1>7, QuietSems

\* and nothing is said of a client that has died.
LEMMA CrashSems ==
    ASSUME Core, Core', SemsTrue, WaiterWaits, Crash
    PROVE  SemsTrue' /\ WaiterWaits'
<1>1. /\ obj' = [o \in Objects |-> Dead] /\ run' = [t \in Threads |-> Idle] /\ UNCHANGED <<semReg, device>>
      /\ busy' = IF busy = Free THEN Free ELSE [busy EXCEPT !.thread = None]
      BY DEF Crash
<1>2. \A s \in Sems : ~Live(s)' BY <1>1, KindsApart DEF Live, Id, Dead
<1>3. LeftSems'
  <2>1. LeftSemIds' = LeftSemIds BY <1>1 DEF LeftSemIds
  <2>. QED BY <1>1, <1>2, <2>1 DEF SemsTrue, LeftSems
<1>4. TimelineTrue' /\ BinaryTrue' BY <1>2 DEF TimelineTrue, BinaryTrue, Sems
<1>5. WaitsMet' BY <1>1 DEF WaitsMet, Midway, Idle
<1>6. WaiterWaits'
  <2>1. CASE busy = Free BY <1>1, <2>1 DEF WaiterWaits
  <2>2. CASE busy # Free
    <3>1. busy \in Waits({"fences", "sems"}, Threads \cup {None}) BY <2>2 DEF Core, TypeOK
    <3>2. busy' = [busy EXCEPT !.thread = None] BY <1>1, <2>2
    <3>3. busy'.thread = None /\ busy'.kind = busy.kind /\ busy'.objs = busy.objs
          BY <3>1, <3>2, SMTT(40) DEF Waits
    <3>. QED BY <2>2, <3>3 DEF WaiterWaits
  <2>. QED BY <2>1, <2>2
<1>. QED BY <1>3, <1>4, <1>5, <1>6 DEF SemsTrue

----------------------------------------------------------------------------
\* What a submission signals, when all its work is done

\* No semaphore is signaled twice by one VkSubmitInfo.
LEMMA SignalsApart ==
    ASSUME Core, NEW t \in Threads, run[t].kind = "submit",
           NEW m \in DOMAIN Info(t).signals, NEW n \in DOMAIN Info(t).signals,
           Info(t).signals[m][1] = Info(t).signals[n][1]
    PROVE  m = n
<1>1. run[t].call \in Calls /\ Doing(t).sub \in DOMAIN run[t].call.submits
  BY InfoFacts, CallFacts
<1>. QED BY <1>1, CallAssumption DEF Info

\* Timelines grow to what is signaled, signaled binary semaphores are set, and what
\* is neither signaled nor waited for stays.
LEMMA RaisedFacts ==
    ASSUME Core, NEW t \in Threads, run[t].kind = "submit"
    PROVE  LET s == Info(t)
               R == Raised(s)
           IN  /\ \A x \in Timelines : truth[x] <= R[x]
               /\ \A n \in DOMAIN s.signals :
                     /\ s.signals[n][1] \in Timelines => s.signals[n][2] <= R[s.signals[n][1]]
                     /\ s.signals[n][1] \in Binaries => R[s.signals[n][1]] = 1
               /\ \A b \in Binaries : b \notin Signals(s) \cup Waited(s) => R[b] = truth[b]
               /\ \A e \in Events : R[e] = truth[e]
<1>. DEFINE s == Info(t)   R == Raised(s)
<1>1. truth \in [Sems \cup Events -> Nat] BY Types
<1>2. s.signals \in Pairs /\ (\A n \in DOMAIN s.signals : s.signals[n][1] \in Sems /\ s.signals[n][2] \in Nat)
      BY InfoFacts
<1>3. \A m, n \in DOMAIN s.signals : s.signals[m][1] = s.signals[n][1] => m = n BY SignalsApart
<1>. HIDE DEF s
<1>4. ASSUME NEW n \in DOMAIN s.signals
      PROVE  R[s.signals[n][1]] = IF s.signals[n][1] \in Binaries THEN 1
                                  ELSE IF s.signals[n][2] > truth[s.signals[n][1]] THEN s.signals[n][2]
                                                                                    ELSE truth[s.signals[n][1]]
  <2>. DEFINE o == s.signals[n][1]   k == CHOOSE m \in DOMAIN s.signals : s.signals[m][1] = o
  <2>1. k = n BY <1>3
  <2>2. o \in DOMAIN truth BY <1>1, <1>2
  <2>3. R[o] = IF o \in Binaries THEN 1
               ELSE IF s.signals[k][2] > truth[o] THEN s.signals[k][2] ELSE truth[o]
        BY <2>2 DEF Raised
  <2>. QED BY <2>1, <2>3
<1>5. ASSUME NEW x \in Sems \cup Events, x \notin Signals(s)
      PROVE  R[x] = IF x \in Binaries \cap Waited(s) THEN 0 ELSE truth[x]
  <2>1. x \in DOMAIN truth /\ ~\E n \in DOMAIN s.signals : s.signals[n][1] = x BY <1>1, <1>5 DEF Signals
  <2>. QED BY <2>1 DEF Raised
<1>6. ASSUME NEW x \in Timelines PROVE truth[x] <= R[x]
  <2>1. x \in Sems /\ x \notin Binaries /\ truth[x] \in Nat BY <1>1, NameAssumption DEF Sems
  <2>2. CASE x \in Signals(s)
    <3>1. PICK n \in DOMAIN s.signals : x = s.signals[n][1] BY <2>2 DEF Signals
    <3>2. PICK v \in Nat : v = s.signals[n][2] BY <1>2, <3>1
    <3>3. R[x] = IF v > truth[x] THEN v ELSE truth[x] BY <1>4, <2>1, <3>1, <3>2
    <3>. QED BY <2>1, <3>2, <3>3
  <2>3. CASE x \notin Signals(s)
    <3>1. R[x] = truth[x] BY <1>5, <2>1, <2>3
    <3>. QED BY <2>1, <3>1
  <2>. QED BY <2>2, <2>3
<1>7. ASSUME NEW n \in DOMAIN s.signals
      PROVE  /\ s.signals[n][1] \in Timelines => s.signals[n][2] <= R[s.signals[n][1]]
             /\ s.signals[n][1] \in Binaries => R[s.signals[n][1]] = 1
  <2>1. PICK x \in Sems, v \in Nat : x = s.signals[n][1] /\ v = s.signals[n][2] BY <1>2
  <2>2. truth[x] \in Nat BY <1>1
  <2>3. R[x] = IF x \in Binaries THEN 1 ELSE IF v > truth[x] THEN v ELSE truth[x] BY <1>4, <2>1
  <2>4. x \in Timelines => x \notin Binaries BY NameAssumption
  <2>5. x \in Timelines => v <= R[x] BY <2>1, <2>2, <2>3, <2>4
  <2>. QED BY <2>1, <2>3, <2>5
<1>8. ASSUME NEW b \in Binaries, b \notin Signals(s) \cup Waited(s) PROVE R[b] = truth[b]
  BY <1>5, <1>8 DEF Sems
<1>9. ASSUME NEW e \in Events PROVE R[e] = truth[e]
  <2>1. e \notin Sems BY KindsApart
  <2>2. Signals(s) \subseteq Sems BY <1>2 DEF Signals
  <2>. QED BY <1>5, <2>1, <2>2 DEF Sems
<1>. QED BY <1>6, <1>7, <1>8, <1>9 DEF s

\* The signals of a frame are those of its VkSubmitInfo.
LEMMA FrameSignals ==
    ASSUME Core, NEW t \in Threads, Frame(t), NEW s \in Sems, Live(s),
           Id(s) \in SignalIds(WithIds(Doing(t).what.entries))
    PROVE  LET es == WithIds(Doing(t).what.entries)
           IN  /\ s \in ObjsOf(es) /\ s \in Signals(Info(t))
               /\ s \in Timelines => SignalValue(es, Id(s)) <= Raised(Info(t))[s]
<1>. DEFINE en == Doing(t).what.entries   es == WithIds(en)
            X == CHOOSE x \in OfType(es, "signal") : x.id = Id(s)
<1>1. en \in Seq(EntryType) /\ run[t].kind = "submit" BY FrameForm
<1>2. /\ OfType(es, "signal") = {Tagged(e) : e \in {x \in Els(en) : x.type = "signal"}}
      /\ ObjsOf(es) = {e.obj : e \in Els(en)}
      BY <1>1, WithIdsFacts DEF Core
<1>3. X \in OfType(es, "signal") /\ X.id = Id(s)
  <2>1. \E x \in OfType(es, "signal") : x.id = Id(s) BY DEF SignalIds, IdsOf
  <2>. QED BY <2>1
<1>4. SignalValue(es, Id(s)) = IF X.obj \in Timelines THEN X.value ELSE 1 BY DEF SignalValue
<1>. HIDE DEF X, es
<1>5. PICK e \in Els(en) : e.type = "signal" /\ X = Tagged(e) BY <1>2, <1>3
<1>6. X.obj = e.obj /\ X.value = e.value /\ Id(e.obj) = Id(s) BY <1>3, <1>5 DEF Tagged
<1>7. e.obj = s
  <2>1. e.obj \in Objects /\ s \in Objects BY FrameObjects, KindsApart
  <2>. QED BY <1>6, <2>1 DEF Core, IdsApart
<1>8. PICK m \in DOMAIN Info(t).signals :
          e = Entry("signal", Info(t).signals[m][1], Info(t).signals[m][2])
  <2>1. /\ run[t].call \in Calls /\ run[t].pc \in 1..Len(Program(run[t].call))
        /\ Doing(t).op = "frame" /\ Doing(t) = Program(run[t].call)[run[t].pc]
        /\ Info(t) = run[t].call.submits[Doing(t).sub]
        BY FrameForm
  <2>. DEFINE c == run[t].call   n == run[t].pc
  <2>2. \A x \in Els(Program(c)[n].what.entries) : x.type = "signal" =>
           \E m \in DOMAIN c.submits[Program(c)[n].sub].signals :
              x = Entry("signal", c.submits[Program(c)[n].sub].signals[m][1],
                                  c.submits[Program(c)[n].sub].signals[m][2])
    <3>1. c \in Calls /\ n \in 1..Len(Program(c)) /\ Program(c)[n].op = "frame" BY <2>1
    <3>. HIDE DEF c, n
    <3>. QED BY <3>1, StepEntries
  <2>3. Els(Program(c)[n].what.entries) = Els(en) /\ c.submits[Program(c)[n].sub] = Info(t) BY <2>1
  <2>. QED BY <1>5, <2>2, <2>3
<1>9. s = Info(t).signals[m][1] /\ e.value = Info(t).signals[m][2] BY <1>7, <1>8 DEF Entry
<1>10. s \in ObjsOf(es) /\ s \in Signals(Info(t)) BY <1>2, <1>5, <1>7, <1>9 DEF Signals
<1>11. s \in Timelines => SignalValue(es, Id(s)) <= Raised(Info(t))[s]
  BY <1>1, <1>4, <1>6, <1>7, <1>9, RaisedFacts
<1>. QED BY <1>10, <1>11 DEF es

\* Resolving keeps what every live semaphore counts.
LEMMA ResolvedCounts ==
    ASSUME Core, NEW es \in Seq(Held), NEW id \in DOMAIN ResolvedSems(es)
    PROVE  /\ id \in DOMAIN semReg => ResolvedSems(es)[id].count = semReg[id].count
           /\ id \notin DOMAIN semReg => ResolvedSems(es)[id].count = 0
<1>1. DOMAIN ResolvedSems(es) = DOMAIN semReg \cup Made(es) BY ResolvedFacts
<1>. DEFINE isT == \E n \in DOMAIN es : es[n].id = id /\ es[n].obj \in Timelines
<1>2. ResolvedSems(es)[id] = IF id \in DOMAIN semReg THEN semReg[id] ELSE NewSem(isT, 0)
      BY <1>1 DEF ResolvedSems
<1>3. NewSem(isT, 0).count = 0 BY DEF NewSem
<1>. HIDE DEF isT
<1>. QED BY <1>2, <1>3

\* A frame that resolves has an entry for every semaphore it signals.
LEMMA ResolvedSignals ==
    ASSUME Core, NEW es \in Seq(Held), Resolves(es)
    PROVE  SignalIds(es) \subseteq DOMAIN ResolvedSems(es)
<1>1. DOMAIN ResolvedSems(es) = DOMAIN semReg \cup Made(es) BY ResolvedFacts
<1>2. WaitsKnown(es) /\ Fits(es, Len(es)) BY DEF Resolves
<1>3. Len(es) \in 0..Len(es) /\ SubSeq(es, 1, Len(es)) = es OBVIOUS
<1>4. MissingBy(es, Len(es)) \subseteq Made(es)
  <2>1. Made(es) = UNION {MissingBy(es, m) : m \in {k \in 0..Len(es) : Fits(es, k)}} BY <1>2 DEF Made
  <2>. QED BY <1>2, <1>3, <2>1
<1>5. MissingBy(es, Len(es)) = SignalIds(es) \ DOMAIN semReg BY <1>3 DEF MissingBy, SignalIds
<1>. QED BY <1>1, <1>4, <1>5

----------------------------------------------------------------------------
\* A frame

\* Once a frame with a completion is done, the submit has done all its work and
\* is about to complete.
LEMMA FrameLast ==
    ASSUME Core, Core', DidInv, NEW t \in Threads, Frame(t), HasCompletion(Doing(t).what.entries)
    PROVE  /\ run[t].did \o Doing(t).what.ops = WantedOps(Info(t))
           /\ Onward(t, Doing(t).what.ops) => In(t, "complete")' /\ Info(t)' = Info(t)
<1>. DEFINE c == run[t].call   n == run[t].pc   x == Doing(t)   did == run[t].did
<1>1. /\ run[t].kind = "submit" /\ x.op = "frame" /\ c \in Calls /\ n \in 1..Len(Program(c))
      /\ x = Program(c)[n] /\ Info(t) = c.submits[x.sub] /\ x.what.ops \in Seq(OpKinds)
      BY FrameForm
<1>2. n \in Nat
  <2>. HIDE DEF c, n
  <2>1. Len(Program(c)) \in Nat BY <1>1, ProgramForm
  <2>. QED BY <1>1, <2>1
<1>3. /\ n + 1 \in 1..Len(Program(c))
      /\ Program(c)[n + 1].op = "complete" /\ Program(c)[n + 1].sub = x.sub
  <2>1. Program(c)[n].op = "frame" /\ HasCompletion(Program(c)[n].what.entries) BY <1>1
  <2>2. n + 1 \in 1..Len(Program(c))
        /\ Program(c)[n + 1].op = "complete" /\ Program(c)[n + 1].sub = Program(c)[n].sub
    <3>. HIDE DEF c, n, x
    <3>. QED BY <1>1, <2>1, CompletionNext
  <2>. QED BY <1>1, <2>2
<1>4. OneStep(x) = x.what.ops BY <1>1 DEF OneStep
<1>5. Due(c, n, did) BY <1>1 DEF DidInv
<1>. DEFINE then == did \o x.what.ops
<1>6. Due(c, n + 1, then)
  <2>1. Program(c)[n].op \notin {"validate", "refuse"} /\ then = did \o OneStep(Program(c)[n])
        BY <1>1, <1>4
  <2>. HIDE DEF c, n, did, then, x
  <2>. QED BY <1>1, <1>2, <1>5, <2>1, DueNext
<1>7. then = WantedOps(Info(t))
  <2>. HIDE DEF c, n, did, then, x
  <2>1. then = WantedOps(c.submits[Program(c)[n + 1].sub]) BY <1>1, <1>3, <1>6, DueAtComplete
  <2>. QED BY <1>1, <1>3, <2>1
<1>8. ASSUME Onward(t, x.what.ops) PROVE In(t, "complete")' /\ Info(t)' = Info(t)
  <2>1. run'[t].kind = "submit" /\ run'[t].call = c /\ run'[t].prog = run[t].prog
        /\ run'[t].pc = n + 1
        BY <1>1, <1>8, OnwardKeeps
  <2>2. run[t].prog = Program(c) BY <1>1, RunFacts DEF Core
  <2>3. Doing(t)' = Program(c)[n + 1] BY <2>1, <2>2 DEF Doing
  <2>. QED BY <1>1, <1>3, <2>1, <2>3, SMTT(40) DEF In, Info
<1>. QED BY <1>7, <1>8

\* What a frame may do to the semaphores: stop on the way, do work, or complete
\* its submission.
LEMMA FrameOutcomes ==
    ASSUME Core, Core', DidInv, NEW t \in Threads, Frame(t)
    PROVE  LET es == WithIds(Doing(t).what.entries)
           IN  FrameStops(t, es) \/ FrameWorks(t, es) \/ FrameCompletes(t, es)
<1>. DEFINE en == Doing(t).what.entries   es == WithIds(en)   ops == Doing(t).what.ops   i == Info(t)
<1>1. en \in Seq(EntryType) /\ es \in Seq(Held) BY FrameForm
<1>2. HasCompletion(es) <=> HasCompletion(en) BY DEF WithIds, HasCompletion
<1>3. ~HasCompletion(es) => SignalIds(es) = {} BY DEF HasCompletion, SignalIds, IdsOf, OfType
<1>4. HasCompletion(en) => /\ run[t].did \o ops = WantedOps(i)
                           /\ Onward(t, ops) => In(t, "complete")' /\ Info(t)' = Info(t)
      BY FrameLast
<1>5. Fail(t) => tainted \subseteq tainted' BY DEF Fail
<1>6. Resolves(es) => SignalIds(es) \subseteq DOMAIN ResolvedSems(es) BY <1>1, ResolvedSignals
<1>7. \/ /\ Fail(t) /\ UNCHANGED <<device, truth>>
         /\ semReg' = semReg \/ semReg' = ResolvedSems(es)
      \/ /\ Resolves(es) /\ device' = Append(device, es) /\ semReg' = ResolvedSems(es)
         /\ tainted' = tainted \cup ObjsOf(es) \cup (Binaries \cap Waited(i)) /\ UNCHANGED truth
      \/ /\ Resolves(es) /\ semReg' = SignaledSems(ResolvedSems(es), es) /\ UNCHANGED device
         /\ truth' = IF HasCompletion(es) /\ run[t].did \o ops = WantedOps(i) THEN Raised(i) ELSE truth
         /\ \/ Onward(t, ops) /\ UNCHANGED tainted
            \/ Leave(t) /\ tainted' = tainted \cup (Binaries \cap (ObjsOf(es) \cup Waited(i)))
  <2>. HIDE DEF es
  <2>. QED BY DEF Frame, es
<1>. HIDE DEF es, en, ops, i
<1>8. CASE /\ Fail(t) /\ UNCHANGED <<device, truth>>
           /\ semReg' = semReg \/ semReg' = ResolvedSems(es)
  BY <1>5, <1>8 DEF FrameStops, es, en
<1>9. CASE /\ Resolves(es) /\ device' = Append(device, es) /\ semReg' = ResolvedSems(es)
           /\ tainted' = tainted \cup ObjsOf(es) \cup (Binaries \cap Waited(i)) /\ UNCHANGED truth
  <2>1. tainted \subseteq tainted' /\ ObjsOf(es) \subseteq tainted' /\ SignalIds(es) \subseteq DOMAIN semReg'
    BY <1>6, <1>9
  <2>. QED BY <1>9, <2>1 DEF FrameStops, es, en
<1>10. CASE /\ Resolves(es) /\ semReg' = SignaledSems(ResolvedSems(es), es) /\ UNCHANGED device
            /\ truth' = IF HasCompletion(es) /\ run[t].did \o ops = WantedOps(i) THEN Raised(i) ELSE truth
            /\ \/ Onward(t, ops) /\ UNCHANGED tainted
               \/ Leave(t) /\ tainted' = tainted \cup (Binaries \cap (ObjsOf(es) \cup Waited(i)))
  <2>1. tainted \subseteq tainted' /\ (Leave(t) /\ ~Onward(t, ops) => Binaries \cap Waited(i) \subseteq tainted')
    BY <1>10
  <2>2. CASE HasCompletion(es)
    <3>1. truth' = Raised(i) BY <1>2, <1>4, <1>10, <2>2
    <3>2. \/ In(t, "complete")' /\ Info(t)' = Info(t)
          \/ Leave(t) /\ Binaries \cap Waited(i) \subseteq tainted'
      BY <1>2, <1>4, <1>10, <2>2
    <3>. QED BY <1>6, <1>10, <2>1, <3>1, <3>2 DEF FrameCompletes, es, en, i
  <2>3. CASE ~HasCompletion(es) BY <1>3, <1>10, <2>1, <2>3 DEF FrameWorks, es, en
  <2>. QED BY <2>2, <2>3
<1>. QED BY <1>7, <1>8, <1>9, <1>10

\* What a live semaphore counts after a frame
LEMMA FrameCounts ==
    ASSUME Core, NEW es \in Seq(Held), NEW s, Id(s)' = Id(s),
           \/ semReg' = semReg \/ semReg' = ResolvedSems(es)
           \/ semReg' = SignaledSems(ResolvedSems(es), es)
    PROVE  \/ SemCount(s)' = SemCount(s) \/ SemCount(s)' = 0
           \/ Id(s) \in SignalIds(es) /\ SemCount(s)' = SignalValue(es, Id(s))
<1>. DEFINE rs == ResolvedSems(es)   id == Id(s)
<1>1. SemCount(s) = IF id \in DOMAIN semReg THEN semReg[id].count ELSE 0 BY DEF SemCount
<1>2. SemCount(s)' = IF id \in DOMAIN semReg' THEN semReg'[id].count ELSE 0 BY DEF SemCount
<1>3. Registry(rs, Payloads) /\ DOMAIN rs = DOMAIN semReg \cup Made(es) BY ResolvedFacts
<1>4. id \in DOMAIN rs => /\ id \in DOMAIN semReg => rs[id].count = semReg[id].count
                          /\ id \notin DOMAIN semReg => rs[id].count = 0
  BY ResolvedCounts
<1>5. DOMAIN SignaledSems(rs, es) = DOMAIN rs BY DEF SignaledSems
<1>6. id \in DOMAIN rs => /\ id \in SignalIds(es) => SignaledSems(rs, es)[id].count = SignalValue(es, id)
                          /\ id \notin SignalIds(es) => SignaledSems(rs, es)[id].count \in {rs[id].count, 0}
  BY <1>3, SignaledCounts
<1>. HIDE DEF rs, id
<1>7. CASE semReg' = semReg BY <1>1, <1>2, <1>7
<1>8. CASE semReg' = rs BY <1>1, <1>2, <1>3, <1>4, <1>8
<1>9. CASE semReg' = SignaledSems(rs, es)
  <2>1. CASE id \in DOMAIN rs
    <3>1. SemCount(s)' = SignaledSems(rs, es)[id].count BY <1>2, <1>5, <1>9, <2>1
    <3>2. rs[id].count = SemCount(s) BY <1>1, <1>4, <2>1
    <3>. QED BY <1>6, <2>1, <3>1, <3>2 DEF id
  <2>2. CASE id \notin DOMAIN rs BY <1>2, <1>5, <1>9, <2>2
  <2>. QED BY <2>1, <2>2
<1>. QED BY <1>7, <1>8, <1>9 DEF rs

\* A frame keeps the timelines: what it signals has been raised.
LEMMA FrameTimelines ==
    ASSUME Core, NEW t \in Threads, Frame(t), NEW es, es = WithIds(Doing(t).what.entries),
           FrameStops(t, es) \/ FrameWorks(t, es) \/ FrameCompletes(t, es)
    PROVE  TimelinesKept /\ \A s \in Sems : Live(s)' => Steady(s)
<1>0. /\ obj' = obj /\ tainted \subseteq tainted'
      /\ \/ semReg' = semReg \/ semReg' = ResolvedSems(es)
         \/ semReg' = SignaledSems(ResolvedSems(es), es)
  BY DEF Frame, FrameStops, FrameWorks, FrameCompletes
<1>1. es \in Seq(Held) /\ run[t].kind = "submit" BY FrameForm
<1>2. ASSUME NEW s \in Sems, Live(s)' PROVE Live(s) /\ Id(s)' = Id(s) /\ Steady(s) /\ obj'[s] = obj[s]
  BY <1>0, <1>2 DEF Live, Id, Steady
<1>3. ASSUME NEW s \in Timelines, Live(s)' PROVE TimeKept(s)
  <2>1. s \in Sems /\ s \in Objects BY KindsApart DEF Sems
  <2>2. Live(s) /\ Id(s)' = Id(s) /\ Steady(s) /\ obj'[s] = obj[s] BY <1>2, <1>3, <2>1
  <2>3. truth[s] \in Nat /\ obj[s].value \in Nat /\ SemCount(s) \in Nat
        BY <2>1, Types, PayloadTypes DEF Cells
  <2>4. PICK n, m : n = SemCount(s) /\ m = SemCount(s)' OBVIOUS
  <2>5. m = n \/ m = 0 \/ (Id(s) \in SignalIds(es) /\ m = SignalValue(es, Id(s)))
        BY <1>0, <1>1, <2>2, <2>4, FrameCounts
  <2>6. truth[s] <= truth'[s] /\ (m <= n \/ m <= truth'[s])
    <3>1. CASE truth' = truth /\ ~(Id(s) \in SignalIds(es) /\ m = SignalValue(es, Id(s)))
      BY <2>3, <2>4, <2>5, <3>1
    <3>2. CASE truth' = Raised(Info(t))
      <4>1. truth[s] <= truth'[s] BY <1>1, <3>2, RaisedFacts
      <4>2. Id(s) \in SignalIds(es) => SignalValue(es, Id(s)) <= truth'[s]
            BY <2>1, <2>2, <3>2, FrameSignals
      <4>. QED BY <2>3, <2>4, <2>5, <4>1, <4>2
    <3>3. CASE FrameStops(t, es)
      <4>1. truth' = truth BY <3>3 DEF FrameStops
      <4>2. CASE semReg' = semReg
        <5>1. m = n BY <2>2, <2>4, <4>2 DEF SemCount
        <5>. QED BY <2>3, <2>4, <4>1, <5>1
      <4>3. CASE semReg' = ResolvedSems(es)
        <5>1. m = IF Id(s) \in DOMAIN semReg' THEN semReg'[Id(s)].count ELSE 0
              BY <2>2, <2>4 DEF SemCount
        <5>2. n = IF Id(s) \in DOMAIN semReg THEN semReg[Id(s)].count ELSE 0 BY <2>4 DEF SemCount
        <5>3. Id(s) \in DOMAIN semReg' => /\ Id(s) \in DOMAIN semReg => semReg'[Id(s)].count = semReg[Id(s)].count
                                          /\ Id(s) \notin DOMAIN semReg => semReg'[Id(s)].count = 0
              BY <1>1, <4>3, ResolvedCounts
        <5>4. m = n \/ m = 0 BY <5>1, <5>2, <5>3
        <5>. QED BY <2>3, <2>4, <4>1, <5>4
      <4>. QED BY <3>3, <4>2, <4>3 DEF FrameStops
    <3>. QED BY <3>1, <3>2, <3>3 DEF FrameWorks, FrameCompletes
  <2>. QED BY <2>2, <2>3, <2>4, <2>6 DEF TimeKept
<1>. QED BY <1>2, <1>3 DEF TimelinesKept

\* A frame left on the device leaves the semaphores it will signal tainted.
LEMMA FrameLeft ==
    ASSUME Core, LeftSems, NEW t \in Threads, Frame(t), NEW es, es = WithIds(Doing(t).what.entries),
           FrameStops(t, es) \/ FrameWorks(t, es) \/ FrameCompletes(t, es)
    PROVE  LeftSems'
<1>1. es \in Seq(Held) /\ device \in Seq(Seq(Held)) BY FrameForm, Types
<1>2. /\ obj' = obj /\ tainted \subseteq tainted' /\ DOMAIN semReg \subseteq DOMAIN semReg'
      /\ \/ device' = device
         \/ /\ device' = Append(device, es) /\ SignalIds(es) \subseteq DOMAIN semReg'
            /\ ObjsOf(es) \subseteq tainted'
  <2>1. DOMAIN ResolvedSems(es) = DOMAIN semReg \cup Made(es) BY <1>1, ResolvedFacts
  <2>2. DOMAIN SignaledSems(ResolvedSems(es), es) = DOMAIN ResolvedSems(es) BY DEF SignaledSems
  <2>3. obj' = obj BY DEF Frame
  <2>. QED BY <2>1, <2>2, <2>3 DEF FrameStops, FrameWorks, FrameCompletes
<1>3. \A s \in Sems : Live(s)' = Live(s) /\ Id(s)' = Id(s) BY <1>2 DEF Live, Id
<1>4. LeftSemIds' \subseteq LeftSemIds \/ /\ LeftSemIds' \subseteq LeftSemIds \cup SignalIds(es)
                                          /\ SignalIds(es) \subseteq DOMAIN semReg'
                                          /\ ObjsOf(es) \subseteq tainted'
  <2>1. CASE device' = device BY <2>1 DEF LeftSemIds
  <2>2. CASE device' # device
    <3>. DEFINE S == Seq(Held)
    <3>1. device \in Seq(S) /\ es \in S BY <1>1
    <3>. HIDE DEF S
    <3>2. device' = Append(device, es) BY <1>2, <2>2
    <3>3. /\ DOMAIN device' = DOMAIN device \cup {Len(device) + 1}
          /\ \A n \in DOMAIN device : device'[n] = device[n]
          /\ device'[Len(device) + 1] = es
          BY <3>1, <3>2, AppendProperties
    <3>4. LeftSemIds' \subseteq LeftSemIds \cup SignalIds(es) BY <3>3 DEF LeftSemIds
    <3>. QED BY <1>2, <2>2, <3>4
  <2>. QED BY <2>1, <2>2
<1>5. LeftSemIds' \subseteq DOMAIN semReg' BY <1>2, <1>4 DEF LeftSems
<1>6. ASSUME NEW s \in Sems, Live(s)', Id(s)' \in LeftSemIds' PROVE s \in tainted'
  <2>1. Live(s) /\ Id(s) \in LeftSemIds' BY <1>3, <1>6
  <2>2. CASE Id(s) \in LeftSemIds BY <1>2, <2>1, <2>2 DEF LeftSems
  <2>3. CASE Id(s) \in SignalIds(es) /\ ObjsOf(es) \subseteq tainted'
    <3>1. s \in ObjsOf(es) BY <2>1, <2>3, FrameSignals
    <3>. QED BY <2>3, <3>1
  <2>. QED BY <1>4, <2>1, <2>2, <2>3
<1>. QED BY <1>5, <1>6 DEF LeftSems

\* A frame keeps what is true of the semaphores.
LEMMA FrameSems ==
    ASSUME Core, Core', DidInv, SemsTrue, NEW t \in Threads, Frame(t)
    PROVE  SemsTrue'
<1>0. PICK es : es = WithIds(Doing(t).what.entries) OBVIOUS
<1>1. FrameStops(t, es) \/ FrameWorks(t, es) \/ FrameCompletes(t, es) BY <1>0, FrameOutcomes
<1>2. LeftSems /\ TimelineTrue /\ BinaryTrue BY DEF SemsTrue
<1>3. TimelinesKept /\ \A s \in Sems : Live(s)' => Steady(s) BY <1>0, <1>1, FrameTimelines
<1>4. LeftSems' BY <1>0, <1>1, <1>2, FrameLeft
<1>5. obj' = obj /\ run[t].kind = "submit" /\ Doing(t).op = "frame" BY FrameForm DEF Frame
<1>6. Adds(t) BY FrameAdds
<1>7. CASE truth' = truth
  <2>1. BinariesKept
    <3>. SUFFICES ASSUME NEW b \in Binaries, Live(b)' PROVE BinKept(b) BY DEF BinariesKept
    <3>1. Steady(b) BY <1>3 DEF Sems
    <3>. QED BY <1>5, <1>7, <3>1 DEF BinKept
  <2>. QED BY <1>3, <1>4, <1>5, <1>6, <2>1, StepSems
<1>8. CASE FrameCompletes(t, es)
  <2>1. TimelineTrue' BY <1>2, <1>3, TimelinesNext
  <2>2. In(t, "complete")' \/ run'[t].kind # "submit"
    <3>1. Leave(t) => run'[t].kind = "idle" BY LeaveKeeps
    <3>. QED BY <1>8, <3>1 DEF FrameCompletes
  <2>3. \A u \in Threads \ {t} : run'[u].kind # "submit"
    <3>1. \A u \in Threads \ {t} : run'[u] = run[u] BY <1>6 DEF Adds
    <3>. QED BY <1>5, <3>1 DEF Core, OneAtATime
  <2>4. WaitsMet'
    <3>1. \A u \in Threads : ~Midway(u)' BY <2>2, <2>3 DEF Midway, In
    <3>. QED BY <3>1 DEF WaitsMet
  <2>5. BinaryTrue'
    <3>. SUFFICES ASSUME NEW b \in Binaries \ tainted', Live(b)', obj'[b].signaled
                  PROVE  truth'[b] = 1 \/ Consumed(b)'
         BY DEF BinaryTrue
    <3>1. b \notin tainted /\ Live(b) /\ obj[b].signaled
      <4>1. Live(b) BY <1>5 DEF Live, Id
      <4>. QED BY <1>5, <1>8, <4>1 DEF FrameCompletes
    <3>2. truth' = Raised(Info(t)) BY <1>8 DEF FrameCompletes
    <3>3. CASE b \in Signals(Info(t))
      <4>1. PICK n \in DOMAIN Info(t).signals : b = Info(t).signals[n][1] BY <3>3 DEF Signals
      <4>. QED BY <1>5, <3>2, <4>1, RaisedFacts
    <3>4. CASE b \in Waited(Info(t))
      <4>1. In(t, "complete")' /\ Info(t)' = Info(t) BY <1>8, <3>4 DEF FrameCompletes
      <4>2. b \in Waited(Info(t))' BY <3>4, <4>1 DEF Waited
      <4>. QED BY <4>1, <4>2 DEF Consumed
    <3>5. CASE b \notin Signals(Info(t)) \cup Waited(Info(t))
      <4>1. truth'[b] = truth[b] BY <1>5, <3>2, <3>5, RaisedFacts
      <4>2. ~Consumed(b)
        <5>1. \A u \in Threads : ~In(u, "complete")
          <6>1. \A u \in Threads : run[u].kind = "submit" => u = t BY <1>5 DEF Core, OneAtATime
          <6>. QED BY <1>5, <6>1 DEF In
        <5>. QED BY <5>1 DEF Consumed
      <4>. QED BY <1>2, <3>1, <4>1, <4>2 DEF BinaryTrue
    <3>. QED BY <3>3, <3>4, <3>5
  <2>. QED BY <1>4, <2>1, <2>4, <2>5 DEF SemsTrue
<1>. QED BY <1>1, <1>7, <1>8 DEF FrameStops, FrameWorks

----------------------------------------------------------------------------
\* A completion

\* The copies of the signaled semaphores are raised or set, those of the binary
\* ones waited for are reset.
LEMMA CompletedCopies ==
    ASSUME Core, NEW t \in Threads, Complete(t)
    PROVE  LET s == Info(t)
           IN  /\ \A n \in DOMAIN s.signals : s.signals[n][1] \in Timelines =>
                     obj'[s.signals[n][1]].value \in {obj[s.signals[n][1]].value, s.signals[n][2]}
               /\ \A x \in Sems : x \notin Signals(s) => obj'[x].value = obj[x].value
               /\ \A b \in Binaries : b \notin Signals(s) =>
                     /\ b \in Waited(s) => ~obj'[b].signaled
                     /\ b \notin Waited(s) => obj'[b].signaled = obj[b].signaled
<1>. DEFINE s == Info(t)   Signal(o) == CHOOSE n \in DOMAIN s.signals : s.signals[n][1] = o
<1>1. /\ run[t].kind = "submit"
      /\ obj' = [o \in Objects |->
                IF \E n \in DOMAIN s.signals : s.signals[n][1] = o
                THEN IF o \in Timelines
                     THEN [obj[o] EXCEPT !.value = IF @ < s.signals[Signal(o)][2]
                                                   THEN s.signals[Signal(o)][2] ELSE @]
                     ELSE [obj[o] EXCEPT !.signaled = TRUE]
                ELSE IF o \in Binaries \cap Waited(s)
                     THEN [obj[o] EXCEPT !.signaled = FALSE] ELSE obj[o]]
  BY DEF Complete, In
<1>2. \A m, n \in DOMAIN s.signals : s.signals[m][1] = s.signals[n][1] => m = n BY <1>1, SignalsApart
<1>3. \A n \in DOMAIN s.signals : s.signals[n][1] \in Sems BY <1>1, InfoFacts
<1>. HIDE DEF s
<1>4. \A o \in Objects : obj[o] \in Cells BY Types
<1>5. ASSUME NEW n \in DOMAIN s.signals, s.signals[n][1] \in Timelines
      PROVE  obj'[s.signals[n][1]].value \in {obj[s.signals[n][1]].value, s.signals[n][2]}
  <2>1. PICK o, v : o = s.signals[n][1] /\ v = s.signals[n][2] OBVIOUS
  <2>2. Signal(o) = n BY <1>2, <2>1
  <2>3. o \in Objects BY <1>3, <2>1, KindsApart, SMTT(40)
  <2>4. obj'[o] = [obj[o] EXCEPT !.value = IF @ < v THEN v ELSE @]
    <3>1. obj'[o] = [obj[o] EXCEPT !.value = IF @ < s.signals[Signal(o)][2]
                                             THEN s.signals[Signal(o)][2] ELSE @]
          BY <1>1, <1>5, <2>1, <2>3
    <3>. QED BY <2>1, <2>2, <3>1
  <2>5. obj'[o].value \in {obj[o].value, v} BY <1>4, <2>3, <2>4 DEF Cells
  <2>. QED BY <2>1, <2>5
<1>6. ASSUME NEW x \in Sems, x \notin Signals(s)
      PROVE  /\ obj'[x].value = obj[x].value
             /\ x \in Binaries \cap Waited(s) => ~obj'[x].signaled
             /\ x \notin Binaries \cap Waited(s) => obj'[x].signaled = obj[x].signaled
  <2>1. x \in Objects /\ ~\E n \in DOMAIN s.signals : s.signals[n][1] = x BY <1>6, KindsApart DEF Signals
  <2>2. obj[x] \in Cells BY <1>4, <2>1
  <2>3. obj'[x] = IF x \in Binaries \cap Waited(s) THEN [obj[x] EXCEPT !.signaled = FALSE] ELSE obj[x]
        BY <1>1, <2>1
  <2>4. [obj[x] EXCEPT !.signaled = FALSE].value = obj[x].value
        /\ [obj[x] EXCEPT !.signaled = FALSE].signaled = FALSE
        BY <2>2 DEF Cells
  <2>. QED BY <2>3, <2>4
<1>7. Binaries \subseteq Sems BY DEF Sems
<1>. QED BY <1>5, <1>6, <1>7 DEF s

\* A completion keeps what is true of the semaphores: all the work of the submit
\* is done.
LEMMA CompleteSems ==
    ASSUME Core, Core', DidInv, SemsTrue, NEW t \in Threads, Complete(t)
    PROVE  SemsTrue'
<1>. DEFINE s == Info(t)
<1>1. /\ run[t].kind = "submit" /\ Doing(t).op = "complete"
      /\ UNCHANGED <<semReg, tainted, device>>
      BY DEF Complete, In, Quiet
<1>2. LeftSems /\ TimelineTrue /\ BinaryTrue BY DEF SemsTrue
<1>. DEFINE c == run[t].call   n == run[t].pc
<1>3. /\ c \in Calls /\ n \in 1..Len(Program(c)) /\ Doing(t) = Program(c)[n]
      /\ s = c.submits[Doing(t).sub] /\ run[t].prog = Program(c)
      BY <1>1, RunFacts DEF Core
<1>4. truth' = Raised(s)
  <2>1. Due(c, n, run[t].did) BY <1>1 DEF DidInv
  <2>2. Program(c)[n].op = "complete" BY <1>1, <1>3
  <2>3. run[t].did = WantedOps(c.submits[Program(c)[n].sub])
    <3>. HIDE DEF c, n
    <3>. QED BY <1>3, <2>1, <2>2, DueAtComplete
  <2>4. run[t].did = WantedOps(Info(t)) BY <1>3, <2>3
  <2>. QED BY <2>4 DEF Complete
<1>5. IdsKept BY CompleteCore
<1>6. ASSUME NEW x \in Sems, Live(x)' PROVE Live(x) /\ Id(x)' = Id(x) /\ Steady(x)
  <2>1. x \in Objects BY KindsApart
  <2>2. Id(x)' = Id(x) BY <1>5, <2>1 DEF IdsKept, Id
  <2>. QED BY <1>1, <1>6, <2>2 DEF Steady, Live, Id
<1>7. LeftSems'
  <2>1. LeftSemIds' = LeftSemIds BY <1>1 DEF LeftSemIds
  <2>. QED BY <1>1, <1>2, <1>6, <2>1 DEF LeftSems, Steady
<1>8. TimelineTrue'
  <2>1. ASSUME NEW x \in Timelines, Live(x)' PROVE TimeKept(x)
    <3>1. x \in Sems /\ x \in Objects BY KindsApart DEF Sems
    <3>2. Steady(x) /\ Live(x) /\ Id(x)' = Id(x) BY <1>6, <2>1, <3>1
    <3>3. truth[x] \in Nat /\ obj[x].value \in Nat /\ SemCount(x) \in Nat
          BY <3>1, Types, PayloadTypes DEF Cells
    <3>4. truth[x] <= truth'[x] BY <1>1, <1>4, RaisedFacts
    <3>5. SemCount(x)' = SemCount(x) BY <1>1, <3>2 DEF SemCount
    <3>6. obj'[x].value <= obj[x].value \/ obj'[x].value <= truth'[x]
      <4>1. CASE x \in Signals(s)
        <5>1. PICK k \in DOMAIN s.signals : x = s.signals[k][1] BY <4>1 DEF Signals
        <5>2. obj'[x].value \in {obj[x].value, s.signals[k][2]} BY <5>1, CompletedCopies
        <5>3. s.signals[k][2] <= truth'[x] BY <1>1, <1>4, <5>1, RaisedFacts
        <5>. QED BY <3>3, <5>2, <5>3
      <4>2. CASE x \notin Signals(s)
        <5>1. obj'[x].value = obj[x].value BY <3>1, <4>2, CompletedCopies
        <5>. QED BY <3>3, <5>1
      <4>. QED BY <4>1, <4>2
    <3>. QED BY <3>2, <3>3, <3>4, <3>5, <3>6 DEF TimeKept
  <2>2. TimelinesKept BY <2>1 DEF TimelinesKept
  <2>. QED BY <1>2, <2>2, TimelinesNext
<1>9. BinaryTrue'
  <2>. SUFFICES ASSUME NEW b \in Binaries \ tainted', Live(b)', obj'[b].signaled
                PROVE  truth'[b] = 1
       BY DEF BinaryTrue
  <2>1. b \in Sems /\ b \notin tainted /\ Live(b) BY <1>1, <1>6 DEF Sems
  <2>2. CASE b \in Signals(s)
    <3>1. PICK k \in DOMAIN s.signals : b = s.signals[k][1] BY <2>2 DEF Signals
    <3>. QED BY <1>1, <1>4, <3>1, RaisedFacts
  <2>3. CASE b \notin Signals(s)
    <3>1. b \notin Waited(s) /\ obj[b].signaled BY <2>3, CompletedCopies
    <3>2. truth'[b] = truth[b] BY <1>1, <1>4, <2>3, <3>1, RaisedFacts
    <3>3. ~Consumed(b)
      <4>1. \A u \in Threads : run[u].kind = "submit" => u = t BY <1>1 DEF Core, OneAtATime
      <4>. QED BY <3>1, <4>1 DEF Consumed, In
    <3>. QED BY <1>2, <2>1, <3>1, <3>2, <3>3 DEF BinaryTrue
  <2>. QED BY <2>2, <2>3
<1>10. WaitsMet'
  <2>1. Adds(t) BY PlainStepAdds DEF PlainStep
  <2>2. ASSUME NEW u \in Threads, Midway(u)' PROVE FALSE
    <3>1. u = t
      <4>1. u # t => run'[u] = run[u] BY <2>1 DEF Adds
      <4>. QED BY <1>1, <2>2, <4>1 DEF Core, OneAtATime, Midway
    <3>2. run'[t].kind = "submit" /\ run'[t].call = c /\ run'[t].pc = n + 1
          BY <2>1, <2>2, <3>1 DEF Adds, Midway
    <3>3. run'[t].prog = Program(c) /\ run'[t].pc \in 1..Len(Program(c)) BY <3>2 DEF Core, Running
    <3>4. Doing(t)' = Program(c)[n + 1] /\ n + 1 \in 1..Len(Program(c)) BY <3>2, <3>3 DEF Doing
    <3>5. Program(c)[n + 1].op \in {"validate", "end"}
      <4>1. Program(c)[n].op = "complete" BY <1>1, <1>3
      <4>. HIDE DEF c, n
      <4>. QED BY <1>3, <3>4, <4>1, AfterComplete
    <3>. QED BY <2>2, <3>1, <3>4, <3>5 DEF Midway
  <2>. QED BY <2>2 DEF WaitsMet
<1>. QED BY <1>7, <1>8, <1>9, <1>10 DEF SemsTrue

\* Every step keeps what is true of the semaphores.
LEMMA SemsNext ==
    ASSUME Core, Core', DidInv, SemsTrue, WaiterWaits, [Next]_vars
    PROVE  SemsTrue' /\ WaiterWaits'
<1>1. CASE UNCHANGED vars
  <2>1. UNCHANGED <<obj, semReg, device, busy, run, truth, tainted>> BY <1>1 DEF vars
  <2>2. AwayFromSems BY <2>1 DEF AwayFromSems
  <2>3. TimelinesKept /\ BinariesKept BY <2>2, AwayKeeps
  <2>4. LeftSems' BY <2>1, <2>3, QueueStays DEF SemsTrue
  <2>5. CallsStill BY <2>1 DEF CallsStill
  <2>6. WaiterWaits' BY <2>1, WaiterNext
  <2>. QED BY <2>1, <2>3, <2>4, <2>5, <2>6, QuietSems
<1>2. CASE Creates BY <1>2, CreatesSems
<1>3. CASE Destroys BY <1>3, DestroysSems
<1>4. CASE HostCalls BY <1>4, HostCallsSems
<1>5. CASE WaitCalls BY <1>5, WaitCallsSems
<1>6. CASE SubmitCalls
  <2>1. WaiterWaits' BY <1>6, SubmitWaiter
  <2>2. ASSUME NEW t \in Threads, NEW c \in Calls, SubmitBegin(t, c) PROVE SemsTrue'
        BY <2>2, BeginSems
  <2>3. ASSUME NEW t \in Threads, Validate(t) PROVE SemsTrue' BY <2>3, ValidateSems
  <2>4. ASSUME NEW t \in Threads, Refuse(t) \/ HostOp(t) \/ Dispatch(t) PROVE SemsTrue'
        BY <2>4, PlainSems
  <2>5. ASSUME NEW t \in Threads, Frame(t) PROVE SemsTrue' BY <2>5, FrameSems
  <2>6. ASSUME NEW t \in Threads, Complete(t) PROVE SemsTrue' BY <2>6, CompleteSems
  <2>7. ASSUME NEW t \in Threads, SubmitEnd(t) PROVE SemsTrue' BY <2>7, EndSems
  <2>. QED BY <1>6, <2>1, <2>2, <2>3, <2>4, <2>5, <2>6, <2>7 DEF SubmitCalls
<1>7. CASE DeviceRuns BY <1>7, DeviceSems
<1>8. CASE Restart BY <1>8, RestartSems
<1>9. CASE Crash BY <1>9, CrashSems
<1>. QED BY <1>1, <1>2, <1>3, <1>4, <1>5, <1>6, <1>7, <1>8, <1>9, NextSplits

----------------------------------------------------------------------------
\* Events: what a step leaves of the event e

\* An event that is left as it is, or that says what was done to it, is true.
LEMMA EventsNext ==
    ASSUME EventTrue, \A e \in Events : e \in tainted' \/ EventKept(e) \/ Sets(e)'
    PROVE  EventTrue'
<1>. SUFFICES ASSUME NEW e \in Events \ tainted' PROVE Sets(e)' BY DEF EventTrue, Sets
<1>1. CASE EventKept(e)
  <2>1. e \in Events \ tainted BY <1>1 DEF EventKept
  <2>2. Sets(e) BY <2>1 DEF EventTrue, Sets
  <2>. QED BY <1>1, <2>2 DEF EventKept, Sets, Live, Id
<1>. QED BY <1>1

\* A step that is not about events
LEMMA EventsAloneNext ==
    ASSUME EventTrue, EventsAlone
    PROVE  EventTrue'
<1>1. ASSUME NEW e \in Events PROVE EventKept(e)
  <2>1. Id(e)' = Id(e) BY DEF EventsAlone, Id
  <2>. QED BY <2>1 DEF EventsAlone, EventKept
<1>. QED BY <1>1, EventsNext

\* Objects are created: an event under an id that the executor knows is tainted,
LEMMA CreatesEvents ==
    ASSUME Core, EventTrue, Creates
    PROVE  EventTrue'
<1>0. /\ obj \in [Objects -> Cells] /\ truth \in [Sems \cup Events -> Nat]
      /\ Registry(eventReg, BOOLEAN) /\ generation \in Nat
      /\ \A o \in Objects : Id(o) \in Nat /\ Id(o) <= generation
      BY Types
<1>1. ASSUME NEW t \in Threads, NEW f \in Fences, NEW b \in BOOLEAN, CreateFence(t, f, b) PROVE EventTrue'
  <2>1. /\ obj' = obj \/ \E x : obj' = [obj EXCEPT ![f] = x]
        /\ tainted' \in {tainted, tainted \cup {f}, tainted \ {f}}
        /\ eventReg' = eventReg /\ truth' = truth
        BY <1>1 DEF CreateFence
  <2>2. EventsAlone BY <1>0, <2>1, KindsApart DEF EventsAlone
  <2>. QED BY <2>2, EventsAloneNext
<1>2. ASSUME NEW t \in Threads, NEW s \in Sems, CreateSem(t, s, 0) PROVE EventTrue'
  <2>1. /\ obj' = obj \/ \E x : obj' = [obj EXCEPT ![s] = x]
        /\ tainted' \in {tainted, tainted \cup {s}, tainted \ {s}}
        /\ truth' = truth \/ truth' = [truth EXCEPT ![s] = 0]
        /\ eventReg' = eventReg
        BY <1>2 DEF CreateSem
  <2>2. EventsAlone BY <1>0, <2>1, KindsApart DEF EventsAlone
  <2>. QED BY <2>2, EventsAloneNext
<1>3. ASSUME NEW t \in Threads, NEW e \in Events, CreateEvent(t, e) PROVE EventTrue'
  <2>. DEFINE id == generation + 1   known == id \in DOMAIN eventReg   p == Put(eventReg, id, FALSE)
              cell == [id |-> id, signaled |-> eventReg'[id], value |-> 0]
  <2>1. \/ UNCHANGED <<obj, eventReg, tainted, truth>>
        \/ /\ eventReg' = IF known THEN eventReg ELSE p
           /\ obj' = [obj EXCEPT ![e] = cell]
           /\ tainted' = IF known THEN tainted \cup {e} ELSE tainted \ {e}
           /\ truth' = [truth EXCEPT ![e] = 0]
    BY <1>3 DEF CreateEvent
  <2>2. CASE UNCHANGED <<obj, eventReg, tainted, truth>>
    <3>1. EventsAlone BY <2>2 DEF EventsAlone
    <3>. QED BY <3>1, EventsAloneNext
  <2>3. CASE /\ eventReg' = IF known THEN eventReg ELSE p
             /\ obj' = [obj EXCEPT ![e] = cell]
             /\ tainted' = IF known THEN tainted \cup {e} ELSE tainted \ {e}
             /\ truth' = [truth EXCEPT ![e] = 0]
    <3>0. id \in Nat /\ e \in Objects BY <1>0, KindsApart
    <3>1. DOMAIN p = DOMAIN eventReg \cup {id} /\ p[id] = FALSE
          /\ \A x \in DOMAIN eventReg : x # id => p[x] = eventReg[x]
      <4>. HIDE DEF id
      <4>. QED BY DEF Put
    <3>2. obj'[e] = cell /\ \A x \in Events \ {e} : obj'[x] = obj[x] /\ truth'[x] = truth[x]
          BY <1>0, <2>3, <3>0, KindsApart
    <3>3. cell.id = id /\ cell.signaled = eventReg'[id] OBVIOUS
    <3>. HIDE DEF p, cell
    <3>4. e \in tainted' \/ Sets(e)'
      <4>1. CASE known BY <2>3, <4>1
      <4>2. CASE ~known
        <5>1. eventReg'[id] = FALSE BY <2>3, <3>1, <4>2
        <5>2. Id(e)' = id /\ obj'[e].signaled = FALSE BY <3>2, <3>3, <5>1 DEF Id
        <5>. QED BY <5>1, <5>2 DEF Sets
      <4>. QED BY <4>1, <4>2
    <3>5. ASSUME NEW x \in Events \ {e} PROVE EventKept(x)
      <4>1. Id(x) # id /\ Id(x)' = Id(x) /\ x \in Objects BY <1>0, <3>2, KindsApart DEF Id
      <4>2. Id(x) \in DOMAIN eventReg' => Id(x) \in DOMAIN eventReg /\ eventReg'[Id(x)] = eventReg[Id(x)]
            BY <2>3, <3>1, <4>1
      <4>3. x \in tainted => x \in tainted' BY <2>3
      <4>. QED BY <3>2, <4>1, <4>2, <4>3 DEF EventKept
    <3>. QED BY <3>4, <3>5, EventsNext
  <2>. QED BY <2>1, <2>2, <2>3
<1>. QED BY <1>1, <1>2, <1>3 DEF Creates

\* and destroyed: the event's entry goes with it.
LEMMA DestroysEvents ==
    ASSUME Core, EventTrue, Destroys
    PROVE  EventTrue'
<1>0. obj \in [Objects -> Cells] /\ Registry(eventReg, BOOLEAN) BY Types
<1>1. PICK t \in Threads, o \in Objects : Destroy(t, o) BY DEF Destroys
<1>2. /\ Live(o) /\ obj' = [obj EXCEPT ![o] = Dead] /\ tainted' = tainted \ {o} /\ truth' = truth
      /\ eventReg' = IF o \in Events THEN Cut(eventReg, Id(o)) ELSE eventReg
      BY <1>1 DEF Destroy
<1>3. ASSUME NEW e \in Events, e = o PROVE Sets(e)'
  <2>1. obj'[e] = Dead BY <1>0, <1>2, <1>3, KindsApart
  <2>2. ~Live(e)' /\ obj'[e].signaled = FALSE BY <2>1 DEF Live, Id, Dead
  <2>. QED BY <2>2 DEF Sets
<1>4. ASSUME NEW e \in Events, e # o PROVE EventKept(e)
  <2>1. obj'[e] = obj[e] /\ (e \in tainted => e \in tainted') /\ e \in Objects
        BY <1>0, <1>2, <1>4, KindsApart
  <2>2. Id(e)' = Id(e) BY <2>1 DEF Id
  <2>3. ASSUME Live(e), Id(e) \in DOMAIN eventReg'
        PROVE  Id(e) \in DOMAIN eventReg /\ eventReg'[Id(e)] = eventReg[Id(e)]
    <3>1. Id(e) # Id(o) BY <1>2, <1>4, <2>1 DEF Core, IdsApart
    <3>2. \A x : x \in DOMAIN Cut(eventReg, Id(o)) /\ x # Id(o) =>
                 x \in DOMAIN eventReg /\ Cut(eventReg, Id(o))[x] = eventReg[x]
          BY DEF Cut
    <3>. QED BY <1>2, <2>3, <3>1, <3>2
  <2>. QED BY <1>2, <2>1, <2>2, <2>3 DEF EventKept
<1>. QED BY <1>3, <1>4, EventsNext

\* Host calls write what they say, and read what the executor says.
LEMMA HostCallsEvents ==
    ASSUME Core, EventTrue, HostCalls
    PROVE  EventTrue'
<1>0. /\ obj \in [Objects -> Cells] /\ truth \in [Sems \cup Events -> Nat]
      /\ Registry(eventReg, BOOLEAN) /\ \A o \in Objects : Id(o) \in Nat
      BY Types
<1>1. ASSUME NEW t \in Threads, NEW f \in Fences, ResetFence(t, f) \/ FenceStatus(t, f) PROVE EventTrue'
  <2>1. (\E x : obj' = [obj EXCEPT ![f].signaled = x]) /\ UNCHANGED <<eventReg, truth, tainted>>
        BY <1>1 DEF ResetFence, FenceStatus
  <2>2. EventsAlone BY <1>0, <2>1, KindsApart DEF EventsAlone
  <2>. QED BY <2>2, EventsAloneNext
<1>2. ASSUME NEW t \in Threads, NEW s \in Timelines,
             SemCounter(t, s) \/ \E v \in 1..MaxValue : SignalSem(t, s, v)
      PROVE  EventTrue'
  <2>1. /\ \E x : obj' = [obj EXCEPT ![s].value = x]
        /\ truth' = truth \/ \E x : truth' = [truth EXCEPT ![s] = x]
        /\ UNCHANGED <<eventReg, tainted>>
        BY <1>2 DEF SemCounter, SignalSem
  <2>2. s \in Sems BY DEF Sems
  <2>3. EventsAlone BY <1>0, <2>1, <2>2, KindsApart DEF EventsAlone
  <2>. QED BY <2>3, EventsAloneNext
<1>3. ASSUME NEW t \in Threads, NEW e \in Events, NEW on \in BOOLEAN, WriteEvent(t, e, on) PROVE EventTrue'
  <2>1. /\ eventReg' = Put(eventReg, Id(e), on) /\ obj' = [obj EXCEPT ![e].signaled = on]
        /\ truth' = [truth EXCEPT ![e] = IF on THEN 1 ELSE 0] /\ tainted' = tainted
        /\ Live(e) /\ Id(e) \in DOMAIN eventReg
        BY <1>3 DEF WriteEvent
  <2>2. e \in Objects /\ Id(e) \in Nat BY <1>0, KindsApart
  <2>3. /\ DOMAIN eventReg' = DOMAIN eventReg
        /\ eventReg'[Id(e)] = on /\ \A x \in DOMAIN eventReg : x # Id(e) => eventReg'[x] = eventReg[x]
        BY <2>1 DEF Put
  <2>4. obj'[e].id = obj[e].id /\ obj'[e].signaled = on /\ truth'[e] = IF on THEN 1 ELSE 0
        BY <1>0, <2>1, <2>2 DEF Cells
  <2>5. Sets(e)' BY <2>3, <2>4 DEF Sets, Id
  <2>6. ASSUME NEW x \in Events, x # e PROVE EventKept(x)
    <3>1. obj'[x] = obj[x] /\ truth'[x] = truth[x] /\ x \in Objects BY <1>0, <2>1, <2>6, KindsApart
    <3>2. Live(x) => Id(x) # Id(e) BY <2>2, <2>6, <3>1 DEF Core, IdsApart
    <3>3. Id(x)' = Id(x) BY <3>1 DEF Id
    <3>. QED BY <2>1, <2>3, <3>1, <3>2, <3>3 DEF EventKept
  <2>. QED BY <2>5, <2>6, EventsNext
<1>4. ASSUME NEW t \in Threads, NEW e \in Events, EventStatus(t, e) PROVE EventTrue'
  <2>1. /\ obj' = [obj EXCEPT ![e].signaled = eventReg[Id(e)]]
        /\ UNCHANGED <<eventReg, truth, tainted>> /\ Live(e) /\ Id(e) \in DOMAIN eventReg
        BY <1>4 DEF EventStatus
  <2>2. e \in Objects BY KindsApart
  <2>3. obj'[e].id = obj[e].id /\ obj'[e].signaled = eventReg[Id(e)] BY <1>0, <2>1, <2>2 DEF Cells
  <2>4. e \in tainted' \/ Sets(e)'
    <3>1. CASE e \in tainted BY <2>1, <3>1
    <3>2. CASE e \notin tainted
      <4>1. Sets(e) BY <3>2 DEF EventTrue, Sets
      <4>2. Id(e)' = Id(e) BY <2>3 DEF Id
      <4>. QED BY <2>1, <2>3, <4>1, <4>2 DEF Sets
    <3>. QED BY <3>1, <3>2
  <2>5. ASSUME NEW x \in Events, x # e PROVE EventKept(x)
    <3>1. obj'[x] = obj[x] BY <1>0, <2>1, <2>5, KindsApart
    <3>2. Id(x)' = Id(x) BY <3>1 DEF Id
    <3>. QED BY <2>1, <3>1, <3>2 DEF EventKept
  <2>. QED BY <2>4, <2>5, EventsNext
<1>. QED BY <1>1, <1>2, <1>3, <1>4 DEF HostCalls

\* The steps of a call write the event that recorded commands are about, and
\* leave the others alone.
LEMMA HostOpEvents ==
    ASSUME Core, EventTrue, NEW t \in Threads, HostOp(t)
    PROVE  EventTrue'
<1>0. obj \in [Objects -> Cells] /\ truth \in [Sems \cup Events -> Nat] BY Types
<1>. DEFINE e == TheEvent   what == Doing(t).what
<1>1. eventReg' = eventReg BY DEF HostOp
<1>2. \/ Fail(t) /\ UNCHANGED <<obj, truth>>
      \/ /\ obj' = IF what \in {"set", "reset"} THEN [obj EXCEPT ![e].signaled = (what = "set")] ELSE obj
         /\ truth' = IF what \in {"set", "reset"}
                     THEN [truth EXCEPT ![e] = IF what = "set" THEN 1 ELSE 0] ELSE truth
         /\ tainted' = IF what = "reset" /\ Id(e) \in DOMAIN eventReg /\ eventReg[Id(e)]
                       THEN tainted \cup {e} ELSE tainted
      BY DEF HostOp
<1>3. CASE Fail(t) /\ UNCHANGED <<obj, truth>>
  <2>1. tainted \subseteq tainted' BY <1>3 DEF Fail
  <2>2. EventsAlone BY <1>1, <1>3, <2>1 DEF EventsAlone
  <2>. QED BY <2>2, EventsAloneNext
<1>4. CASE /\ obj' = IF what \in {"set", "reset"} THEN [obj EXCEPT ![e].signaled = (what = "set")] ELSE obj
           /\ truth' = IF what \in {"set", "reset"}
                       THEN [truth EXCEPT ![e] = IF what = "set" THEN 1 ELSE 0] ELSE truth
           /\ tainted' = IF what = "reset" /\ Id(e) \in DOMAIN eventReg /\ eventReg[Id(e)]
                         THEN tainted \cup {e} ELSE tainted
  <2>0. tainted \subseteq tainted' BY <1>4
  <2>1. CASE what \notin {"set", "reset"}
    <3>1. EventsAlone BY <1>1, <1>4, <2>1 DEF EventsAlone
    <3>. QED BY <3>1, EventsAloneNext
  <2>2. CASE what \in {"set", "reset"}
    <3>0. e \in Events /\ e \in Objects BY KindsApart
    <3>. HIDE DEF e, what
    <3>1. obj'[e].id = obj[e].id /\ obj'[e].signaled = (what = "set")
          /\ truth'[e] = IF what = "set" THEN 1 ELSE 0
          BY <1>0, <1>4, <2>2, <3>0 DEF Cells
    <3>2. Id(e)' = Id(e) BY <3>1 DEF Id, e
    <3>3. e \in tainted' \/ Sets(e)'
      <4>1. CASE what = "set" BY <3>1, <4>1 DEF Sets, e
      <4>2. CASE what = "reset" BY <1>1, <1>4, <3>1, <3>2, <4>2 DEF Sets, e
      <4>. QED BY <2>2, <4>1, <4>2
    <3>4. ASSUME NEW x \in Events, x # e PROVE EventKept(x)
      <4>1. obj'[x] = obj[x] /\ truth'[x] = truth[x] BY <1>0, <1>4, <2>2, <3>4, KindsApart
      <4>2. Id(x)' = Id(x) BY <4>1 DEF Id
      <4>. QED BY <1>1, <2>0, <4>1, <4>2 DEF EventKept
    <3>. QED BY <3>3, <3>4, EventsNext
  <2>. QED BY <2>1, <2>2
<1>. HIDE DEF e, what
<1>. QED BY <1>2, <1>3, <1>4

\* So do the other steps of a call.
LEMMA SubmitEvents ==
    ASSUME Core, EventTrue, SubmitCalls
    PROVE  EventTrue'
<1>0. obj \in [Objects -> Cells] /\ truth \in [Sems \cup Events -> Nat] BY Types
<1>1. ASSUME NEW t \in Threads, NEW c \in Calls, SubmitBegin(t, c) PROVE EventTrue'
  <2>1. /\ obj' = [o \in Objects |-> IF o = c.fence THEN [obj[o] EXCEPT !.signaled = FALSE] ELSE obj[o]]
        /\ UNCHANGED <<truth, tainted, eventReg>>
        BY <1>1 DEF SubmitBegin
  <2>2. c.fence \in Fences \cup {None} BY CallFacts
  <2>3. \A e \in Events : obj'[e] = obj[e] BY <2>1, <2>2, KindsApart, NameAssumption
  <2>4. EventsAlone BY <2>1, <2>3 DEF EventsAlone
  <2>. QED BY <2>4, EventsAloneNext
<1>2. ASSUME NEW t \in Threads, Validate(t) \/ Refuse(t) \/ Dispatch(t) PROVE EventTrue'
  <2>1. Fail(t) => tainted \subseteq tainted' BY DEF Fail
  <2>2. UNCHANGED <<obj, truth, eventReg>> /\ tainted \subseteq tainted'
        BY <1>2, <2>1 DEF Validate, Refuse, Dispatch
  <2>3. EventsAlone BY <2>2 DEF EventsAlone
  <2>. QED BY <2>3, EventsAloneNext
<1>3. ASSUME NEW t \in Threads, Frame(t) PROVE EventTrue'
  <2>1. run[t].kind = "submit" BY <1>3 DEF Frame, In
  <2>2. UNCHANGED <<obj, eventReg>> /\ (truth' = truth \/ truth' = Raised(Info(t)))
        BY <1>3 DEF Frame
  <2>3. tainted \subseteq tainted'
    <3>1. Fail(t) => tainted \subseteq tainted' BY DEF Fail
    <3>. QED BY <1>3, <3>1 DEF Frame
  <2>4. \A e \in Events : truth'[e] = truth[e] BY <2>1, <2>2, RaisedFacts
  <2>5. EventsAlone BY <2>2, <2>3, <2>4 DEF EventsAlone
  <2>. QED BY <2>5, EventsAloneNext
<1>4. ASSUME NEW t \in Threads, Complete(t) PROVE EventTrue'
  <2>1. run[t].kind = "submit" /\ UNCHANGED <<eventReg, tainted>>
        /\ (truth' = truth \/ truth' = Raised(Info(t)))
        BY <1>4 DEF Complete, In
  <2>2. \A e \in Events : truth'[e] = truth[e] BY <2>1, RaisedFacts
  <2>3. ASSUME NEW e \in Events PROVE obj'[e] = obj[e]
    <3>1. e \notin Signals(Info(t)) /\ e \notin Waited(Info(t)) BY <2>1, InfoFacts, KindsApart
    <3>2. ~\E n \in DOMAIN Info(t).signals : Info(t).signals[n][1] = e BY <3>1 DEF Signals
    <3>3. e \in Objects BY KindsApart
    <3>. QED BY <1>4, <3>1, <3>2, <3>3 DEF Complete
  <2>4. EventsAlone BY <2>1, <2>2, <2>3 DEF EventsAlone
  <2>. QED BY <2>4, EventsAloneNext
<1>5. ASSUME NEW t \in Threads, SubmitEnd(t) PROVE EventTrue'
  <2>1. run[t].kind = "submit" /\ UNCHANGED <<truth, tainted, eventReg>>
        /\ obj' = [o \in Objects |-> IF o = run[t].call.fence THEN [obj[o] EXCEPT !.signaled = TRUE]
                                                              ELSE obj[o]]
        BY <1>5 DEF SubmitEnd, In
  <2>2. run[t].call.fence \in Fences \cup {None} BY <2>1, RunFacts, CallFacts DEF Core
  <2>3. \A e \in Events : obj'[e] = obj[e] BY <2>1, <2>2, KindsApart, NameAssumption
  <2>4. EventsAlone BY <2>1, <2>3 DEF EventsAlone
  <2>. QED BY <2>4, EventsAloneNext
<1>. QED BY <1>1, <1>2, <1>3, <1>4, <1>5, HostOpEvents DEF SubmitCalls

\* Waits are not about events.
LEMMA WaitCallsEvents ==
    ASSUME Core, WaiterWaits, EventTrue, WaitCalls
    PROVE  EventTrue'
<1>1. UNCHANGED <<eventReg, truth>> /\ tainted \subseteq tainted'
  BY DEF WaitCalls, WaitFences, WaitSems, PollFences, WaitEnds
<1>2. \/ obj' = obj
      \/ \E S \in SUBSET Fences : obj' = AfterFenceWait(S)
      \/ \E S, v : obj' = AfterSemWait(S, v)
  <2>1. ASSUME WaitEnds PROVE <1>2!:
    <3>1. CASE busy.kind = "fences"
      <4>1. busy.objs \in SUBSET Fences BY <2>1, <3>1 DEF WaitEnds, WaiterWaits
      <4>. QED BY <2>1, <3>1, <4>1 DEF WaitEnds
    <3>2. CASE busy.kind # "fences" BY <2>1, <3>2 DEF WaitEnds
    <3>. QED BY <3>1, <3>2
  <2>2. ASSUME NEW t \in Threads, NEW S \in SUBSET Fences, NEW mode, WaitFences(t, S, mode)
        PROVE  <1>2!:
    BY <2>2 DEF WaitFences
  <2>3. ASSUME NEW t \in Threads, NEW S, NEW mode, NEW v, WaitSems(t, S, mode, v) PROVE <1>2!:
    BY <2>3 DEF WaitSems
  <2>4. ASSUME NEW t \in Threads, PollFences(t) PROVE <1>2!: BY <2>4 DEF PollFences
  <2>. QED BY <2>1, <2>2, <2>3, <2>4 DEF WaitCalls
<1>3. ASSUME NEW e \in Events PROVE obj'[e].id = obj[e].id /\ obj'[e].signaled = obj[e].signaled
  <2>1. e \in Objects /\ \A S \in SUBSET Fences : e \notin S BY KindsApart
  <2>2. obj[e] \in Cells BY <2>1, Types
  <2>3. \A S \in SUBSET Fences : AfterFenceWait(S)[e] = obj[e] BY <2>1 DEF AfterFenceWait
  <2>4. ASSUME NEW S, NEW v, obj' = AfterSemWait(S, v)
        PROVE  obj'[e].id = obj[e].id /\ obj'[e].signaled = obj[e].signaled
    <3>1. obj'[e] = obj[e] \/ obj'[e] = [obj[e] EXCEPT !.value = v] BY <2>1, <2>4 DEF AfterSemWait
    <3>. QED BY <2>2, <3>1 DEF Cells
  <2>. QED BY <1>2, <2>3, <2>4
<1>4. ASSUME NEW e \in Events PROVE EventKept(e) BY <1>1, <1>3 DEF EventKept, Id
<1>. QED BY <1>4, EventsNext

\* Every step keeps what is true of the events.
LEMMA EventNext ==
    ASSUME Core, WaiterWaits, EventTrue, [Next]_vars
    PROVE  EventTrue'
<1>1. CASE UNCHANGED vars
  <2>1. EventsAlone BY <1>1 DEF vars, EventsAlone
  <2>. QED BY <2>1, EventsAloneNext
<1>2. CASE Creates BY <1>2, CreatesEvents
<1>3. CASE Destroys BY <1>3, DestroysEvents
<1>4. CASE HostCalls BY <1>4, HostCallsEvents
<1>5. CASE WaitCalls BY <1>5, WaitCallsEvents
<1>6. CASE SubmitCalls BY <1>6, SubmitEvents
<1>7. CASE DeviceRuns \/ Restart
  <2>1. UNCHANGED <<obj, truth, tainted>> /\ (eventReg' = eventReg \/ eventReg' = <<>>)
        BY <1>7 DEF DeviceRuns, Restart
  <2>2. EventsAlone BY <2>1 DEF EventsAlone
  <2>. QED BY <2>2, EventsAloneNext
<1>8. CASE Crash
  <2>1. \A e \in Events : obj'[e] = Dead BY <1>8, KindsApart DEF Crash
  <2>2. \A e \in Events : Sets(e)' BY <2>1 DEF Sets, Live, Id, Dead
  <2>. QED BY <2>2, EventsNext
<1>. QED BY <1>1, <1>2, <1>3, <1>4, <1>5, <1>6, <1>7, <1>8, NextSplits

----------------------------------------------------------------------------
\* All of it

\* Nothing is signaled and no call runs in the beginning.
LEMMA ValueInvInit == Init => ValueInv
<1>. SUFFICES ASSUME Init PROVE ValueInv OBVIOUS
<1>1. /\ obj = [o \in Objects |-> Dead] /\ run = [t \in Threads |-> Idle]
      /\ semReg = <<>> /\ device = <<>> /\ busy = Free
      BY DEF Init
<1>2. \A o \in Objects : ~Live(o) /\ ~obj[o].signaled BY <1>1 DEF Live, Id, Dead
<1>3. \A t \in Threads : run[t].kind # "submit" BY <1>1 DEF Idle
<1>4. DidInv BY <1>3 DEF DidInv
<1>5. LeftSems
  <2>1. LeftSemIds = {} BY <1>1 DEF LeftSemIds
  <2>. QED BY <2>1 DEF LeftSems
<1>6. WaiterWaits BY <1>1 DEF WaiterWaits
<1>7. TimelineTrue /\ BinaryTrue BY <1>2, KindsApart DEF TimelineTrue, BinaryTrue, Sems
<1>8. EventTrue BY <1>2, KindsApart DEF EventTrue
<1>9. WaitsMet BY <1>3 DEF WaitsMet, Midway
<1>. QED BY <1>4, <1>5, <1>6, <1>7, <1>8, <1>9, CoreInit DEF ValueInv

\* Every step of the system keeps the invariant.
LEMMA ValueInvNext == ValueInv /\ [Next]_vars => ValueInv'
<1>. SUFFICES ASSUME ValueInv, [Next]_vars PROVE ValueInv' OBVIOUS
<1>1. Core /\ DidInv /\ SemsTrue /\ WaiterWaits /\ EventTrue BY DEF ValueInv, SemsTrue
<1>2. Core' BY <1>1, CoreNext
<1>3. DidInv' BY <1>1, DidNext
<1>4. SemsTrue' /\ WaiterWaits' BY <1>1, <1>2, SemsNext
<1>5. EventTrue' BY <1>1, EventNext
<1>. QED BY <1>2, <1>3, <1>4, <1>5 DEF ValueInv, SemsTrue

\* What the executor and the ICD's copies say of the semaphores that an
\* application has not lost track of was signaled: by a host call, or by a
\* submission whose recorded work is all done.
THEOREM ValuesAreTrue == Spec => []ValuesAreReached
<1>1. ValueInv => ValuesAreReached
  <2>. SUFFICES ASSUME ValueInv, NEW s \in Sems \ tainted, Live(s)
                PROVE  /\ s \in Timelines => SemCount(s) <= truth[s] /\ obj[s].value <= truth[s]
                       /\ s \in Binaries /\ ~InUse(s) /\ obj[s].signaled => truth[s] = 1
       BY DEF ValuesAreReached
  <2>0. Core /\ TimelineTrue /\ BinaryTrue BY DEF ValueInv
  <2>1. s \in Timelines => SemCount(s) <= truth[s] /\ obj[s].value <= truth[s] BY <2>0 DEF TimelineTrue
  <2>2. ASSUME s \in Binaries, ~InUse(s), obj[s].signaled PROVE truth[s] = 1
    <3>1. ASSUME NEW t \in Threads, In(t, "complete"), s \in Waited(Info(t)) PROVE FALSE
      <4>1. run[t].kind = "submit" BY <3>1 DEF In
      <4>2. /\ run[t].call \in Calls /\ Doing(t).sub \in 1..Len(run[t].call.submits)
            /\ Info(t) = run[t].call.submits[Doing(t).sub]
            BY <2>0, <4>1, InfoFacts DEF Info
      <4>3. s \in UsedBy(run[t].call) BY <3>1, <4>2, UsedObjects
      <4>. QED BY <2>2, <4>1, <4>3 DEF InUse
    <3>2. ~Consumed(s) BY <3>1 DEF Consumed
    <3>. QED BY <2>0, <2>2, <3>2 DEF BinaryTrue
  <2>. QED BY <2>1, <2>2
<1>. QED BY <1>1, ValueInvInit, ValueInvNext, PTL DEF Spec

----------------------------------------------------------------------------
\* What a call can rely on when it does a recorded command

\* The commands of a frame are no waits for events.
LEMMA FrameNeverAwaits ==
    ASSUME Core, NEW t \in Threads, Frame(t)
    PROVE  \A k \in 1..Len(Doing(t).what.ops) : Doing(t).what.ops[k] # "await"
<1>. DEFINE c == run[t].call   n == run[t].pc   x == Doing(t)   s == c.submits[x.sub]
<1>1. c \in Calls /\ n \in 1..Len(Program(c)) /\ x = Program(c)[n] /\ x.op = "frame" BY FrameForm
<1>2. x.sub \in 1..Len(c.submits) BY <1>1, StepFacts
<1>3. PICK j \in 1..Len(s.bufs) : x = FrameStep(c, x.sub, j) BY <1>1, StepFacts
<1>. DEFINE b == s.bufs[j]
<1>4. x.what.ops = FrameOps(b) BY <1>3 DEF FrameStep, Step
<1>5. b \in Bufs BY <1>1, <1>2, <1>3, CallFacts
<1>. HIDE DEF c, n, x, s, b
<1>6. /\ FrameOps(b) = [k \in 1..Cardinality(InFrame(b)) |-> OpsOf(b)[InOrder(InFrame(b))[k]]]
      /\ InFrame(b) \in SUBSET (1..Len(OpsOf(b))) /\ IsFiniteSet(InFrame(b))
      BY <1>5, FrameOpsType
<1>7. Cardinality(InFrame(b)) \in Nat BY <1>6, FS_CardinalityType
<1>8. Len(FrameOps(b)) = Cardinality(InFrame(b)) BY <1>6, <1>7
<1>9. ASSUME NEW k \in 1..Len(FrameOps(b)) PROVE FrameOps(b)[k] # "await"
  <2>1. InOrder(InFrame(b))[k] \in InFrame(b)
    <3>1. InFrame(b) \in SUBSET Nat BY <1>6
    <3>. QED BY <1>6, <1>8, <1>9, <3>1, OrderedPlaces
  <2>2. OpsOf(b)[InOrder(InFrame(b))[k]] \in FrameKinds \cup TransferKinds BY <2>1 DEF InFrame
  <2>3. FrameOps(b)[k] = OpsOf(b)[InOrder(InFrame(b))[k]] BY <1>6, <1>8, <1>9
  <2>. QED BY <2>2, <2>3 DEF FrameKinds, TransferKinds
<1>. QED BY <1>4, <1>9 DEF x

\* Only a step of the call itself, between its validation and its completion,
\* adds to what the call has done.
LEMMA GrowsWhen ==
    ASSUME Core, NEW t \in Threads, Grows(t), Next
    PROVE  /\ Midway(t) /\ Adds(t)
           /\ HostOp(t) \/ Dispatch(t) \/ Frame(t)
           /\ run'[t].did = run[t].did \o OneStep(Doing(t))
<1>1. run[t].kind = "submit" /\ run'[t].kind = "submit" /\ run'[t] # run[t] BY DEF Grows
<1>2. run[t].did \in Seq(OpKinds) /\ Len(run[t].did) \in Nat
  <2>1. run[t].did \in Seq(OpKinds) BY <1>1, RunFacts DEF Core
  <2>. QED BY <2>1
<1>3. ~CallsStill BY <1>1 DEF CallsStill
<1>4. SubmitCalls
  <2>1. ~Creates BY <1>3, CreatesStill
  <2>2. ~Destroys BY <1>3, DestroyStill DEF Destroys
  <2>3. ~HostCalls BY <1>3, HostCallsStill DEF FencesKept
  <2>4. ~WaitCalls BY <1>3, WaitCallsStill
  <2>5. ~DeviceRuns
    <3>1. DeviceRuns => run' = run BY DEF DeviceRuns
    <3>. QED BY <1>1, <3>1
  <2>6. ~Restart BY <1>3, RestartCalls
  <2>7. ~Crash BY <1>1 DEF Crash, Idle
  <2>. QED BY <2>1, <2>2, <2>3, <2>4, <2>5, <2>6, <2>7, NextSplits
<1>5. ASSUME NEW u \in Threads, PlainStep(u) \/ Frame(u) PROVE u = t /\ Adds(t)
  <2>1. Adds(u) BY <1>5, PlainStepAdds, FrameAdds
  <2>2. u # t => run'[t] = run[t] BY <2>1 DEF Adds
  <2>. QED BY <1>1, <2>1, <2>2
<1>6. (PlainStep(t) \/ Frame(t)) /\ Adds(t)
  <2>1. ASSUME NEW u \in Threads, NEW c \in Calls, SubmitBegin(u, c) PROVE FALSE
    BY <1>1, <2>1 DEF SubmitBegin, ValidUse
  <2>2. ASSUME NEW u \in Threads, SubmitEnd(u) PROVE FALSE
    BY <1>1, <2>2, SubmitEndStill
  <2>3. PICK u \in Threads : PlainStep(u) \/ Frame(u) BY <1>4, <2>1, <2>2 DEF SubmitCalls, PlainStep
  <2>. QED BY <1>5, <2>3
<1>7. ~(Doing(t).op = "validate" /\ run'[t].did = <<>>)
  <2>1. run'[t].did = <<>> => Len(run'[t].did) = 0 OBVIOUS
  <2>. QED BY <1>2, <2>1 DEF Grows
<1>8. run'[t].did = run[t].did \o OneStep(Doing(t)) /\ Doing(t).op \notin {"validate", "refuse"}
  BY <1>1, <1>6, <1>7 DEF Adds
<1>9. OneStep(Doing(t)) # <<>>
  <2>1. OneStep(Doing(t)) = <<>> => run'[t].did = run[t].did BY <1>2, <1>8
  <2>. QED BY <1>2, <2>1 DEF Grows
<1>10. Doing(t).op \in {"host", "dispatch", "frame"} BY <1>9 DEF OneStep
<1>11. HostOp(t) \/ Dispatch(t) \/ Frame(t)
  BY <1>6, <1>10 DEF PlainStep, Validate, Refuse, Complete, In
<1>. QED BY <1>1, <1>6, <1>8, <1>10, <1>11 DEF Midway

\* A recorded wait for the event passes only if the event is set.
LEMMA AwaitsMet ==
    ASSUME Core, EventTrue, NEW t \in Threads, Grows(t), Next,
           run'[t].did[Len(run'[t].did)] = "await"
    PROVE  TheEvent \in tainted \/ truth[TheEvent] = 1
<1>0. run[t].kind = "submit" /\ run[t].did \in Seq(OpKinds)
  <2>1. run[t].kind = "submit" BY DEF Grows
  <2>. QED BY <2>1, InfoFacts
<1>. DEFINE x == Doing(t)   d == run[t].did   ops == OneStep(x)
<1>1. /\ Midway(t) /\ Adds(t) /\ (HostOp(t) \/ Dispatch(t) \/ Frame(t))
      /\ run'[t].did = d \o ops
      BY GrowsWhen
<1>2. d \in Seq(OpKinds) BY <1>0
<1>3. CASE HostOp(t)
  <2>1. x.op = "host" BY <1>3 DEF HostOp, In
  <2>2. ops = <<x.what>>
    <3>1. x.what \in OpKinds BY <1>0, <2>1, RunFacts, StepFacts DEF Core
    <3>. QED BY <2>1, <3>1 DEF OneStep
  <2>. HIDE DEF x, ops
  <2>3. x.what = "await" BY <1>1, <1>2, <2>2
  <2>4. ~Fail(t)
    <3>1. Leave(t) => run'[t].kind = "idle" BY LeaveKeeps
    <3>. QED BY <3>1 DEF Grows, Fail
  <2>5. obj[TheEvent].signaled BY <1>3, <2>3, <2>4 DEF HostOp, x
  <2>. QED BY <2>5, KindsApart DEF EventTrue
<1>4. CASE Dispatch(t)
  <2>1. x.op = "dispatch" BY <1>4 DEF Dispatch, In
  <2>2. ops = <<"dispatch">> BY <2>1 DEF OneStep
  <2>. HIDE DEF x, ops
  <2>3. run'[t].did[Len(run'[t].did)] = "dispatch" BY <1>1, <1>2, <2>2
  <2>. QED BY <2>3
<1>5. CASE Frame(t)
  <2>1. x.op = "frame" /\ x.what.ops \in Seq(OpKinds) BY <1>5, FrameForm
  <2>2. ops = x.what.ops BY <2>1 DEF OneStep
  <2>3. \A k \in 1..Len(ops) : ops[k] # "await" BY <1>5, <2>2, FrameNeverAwaits
  <2>. HIDE DEF x, ops
  <2>4. ops \in Seq(OpKinds) BY <2>1, <2>2
  <2>5. Len(d \o ops) > Len(d) BY <1>1 DEF Grows
  <2>6. Len(ops) \in 1..Len(ops) /\ (d \o ops)[Len(d \o ops)] = ops[Len(ops)] BY <1>2, <2>4, <2>5
  <2>. QED BY <1>1, <2>3, <2>6
<1>. QED BY <1>1, <1>3, <1>4, <1>5

\* Work that a submission does, in the executor or in the ICD, comes after what
\* the submission waits for: a timeline has reached its value, a binary
\* semaphore was signaled and not yet waited for, and the event is set.
THEOREM WaitsAreHonoured == Spec => WaitsHonoured
<1>1. ASSUME ValueInv, Next, NEW t \in Threads,
             run[t].kind = "submit", run'[t].kind = "submit", Len(run'[t].did) > Len(run[t].did)
      PROVE  /\ \A n \in DOMAIN Info(t).waits :
                   LET s == Info(t).waits[n][1]
                   IN  \/ s \in tainted
                       \/ s \in Timelines /\ truth[s] >= Info(t).waits[n][2]
                       \/ s \in Binaries /\ (truth[s] = 1 \/ run[t].did # <<>>)
             /\ run'[t].did[Len(run'[t].did)] = "await"
                   => TheEvent \in tainted \/ truth[TheEvent] = 1
  <2>1. Core /\ EventTrue /\ WaitsMet BY <1>1 DEF ValueInv
  <2>2. Grows(t) BY <1>1 DEF Grows
  <2>3. Midway(t) BY <1>1, <2>1, <2>2, GrowsWhen
  <2>4. \A n \in DOMAIN Info(t).waits :
           Reached(Info(t).waits[n][1], Info(t).waits[n][2], run[t].did)
        BY <2>1, <2>3 DEF WaitsMet
  <2>5. run'[t].did[Len(run'[t].did)] = "await" => TheEvent \in tainted \/ truth[TheEvent] = 1
        BY <1>1, <2>1, <2>2, AwaitsMet
  <2>. QED BY <2>4, <2>5 DEF Reached
<1>2. ValueInv /\ [Next]_vars
         => [\A t \in Threads :
               (/\ run[t].kind = "submit" /\ run'[t].kind = "submit"
                /\ Len(run'[t].did) > Len(run[t].did))
               => /\ \A n \in DOMAIN Info(t).waits :
                       LET s == Info(t).waits[n][1]
                       IN  \/ s \in tainted
                           \/ s \in Timelines /\ truth[s] >= Info(t).waits[n][2]
                           \/ s \in Binaries /\ (truth[s] = 1 \/ run[t].did # <<>>)
                  /\ run'[t].did[Len(run'[t].did)] = "await"
                       => TheEvent \in tainted \/ truth[TheEvent] = 1]_vars
  BY <1>1
<1>. QED BY <1>2, ValueInvInit, ValueInvNext, PTL DEF Spec, WaitsHonoured
=============================================================================
