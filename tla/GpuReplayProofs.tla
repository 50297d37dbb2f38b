--------------------------- MODULE GpuReplayProofs ---------------------------
(***************************************************************************)
(* Proofs about the recording and the host's part of a submission          *)
(* (GpuCommands under the specification of GpuReplay), for any scripts,    *)
(* images, subresources and sizes of the tables.                           *)
(***************************************************************************)
EXTENDS GpuReplay, SequenceTheorems, FiniteSetTheorems, WellFoundedInduction, TLAPS

----------------------------------------------------------------------------
\* Naturals

\* A set of naturals has a least element.
LEMMA LeastExists ==
    ASSUME NEW P \in SUBSET Nat, P # {}
    PROVE  \E n \in P : \A m \in P : n <= m
<1>. DEFINE R == {ss \in Nat \X Nat : ss[1] < ss[2]}
<1>1. IsWellFoundedOn(R, Nat) BY NatLessThanWellFounded DEF OpToRel
<1>. HIDE DEF R
<1>2. PICK x \in P : \A y \in P : ~(<<y, x>> \in R) BY <1>1, WFMin
<1>3. \A y \in P : ~(y < x) BY <1>2 DEF R
<1>. QED BY <1>3

\* Induction: a set of naturals with 0 that is closed under successor is Nat.
LEMMA Induction ==
    ASSUME NEW T \in SUBSET Nat, 0 \in T, \A n \in T : n + 1 \in T
    PROVE  T = Nat
<1>. DEFINE U == Nat \ T
<1>1. SUFFICES ASSUME U # {} PROVE FALSE OBVIOUS
<1>2. PICK x \in U : \A m \in U : x <= m BY <1>1, LeastExists
<1>3. x # 0 /\ x - 1 \in Nat /\ ~(x <= x - 1) BY <1>2
<1>4. x - 1 \in T BY <1>2, <1>3
<1>. QED BY <1>2, <1>3, <1>4

\* A bounded set of naturals has a greatest element.
LEMMA GreatestExists ==
    ASSUME NEW P \in SUBSET Nat, P # {}, NEW N \in Nat, \A n \in P : n <= N
    PROVE  \E n \in P : \A m \in P : m <= n
<1>. DEFINE Q == {N - n : n \in P}
<1>1. \A n \in P : n \in Nat /\ n <= N OBVIOUS
<1>2. \A n \in P : N - n \in Nat BY <1>1
<1>3. Q \in SUBSET Nat /\ Q # {} BY <1>2
<1>4. PICK q \in Q : \A m \in Q : q <= m BY <1>3, LeastExists
<1>5. PICK n \in P : q = N - n OBVIOUS
<1>6. \A m \in P : N - n <= N - m BY <1>4, <1>5
<1>. QED BY <1>1, <1>6

\* Max of some of the first numbers is one of them, and the others come before.
Below(s) == s \ {Max(s)}

\* The greatest of some of the first numbers, and what is left below it
LEMMA MaxOf ==
    ASSUME NEW k \in Nat, NEW s \in SUBSET (1..k), s # {}
    PROVE  /\ Max(s) \in s
           /\ \A x \in s : x <= Max(s)
           /\ \A n \in Nat : k = n + 1 => Below(s) \in SUBSET (1..n)
<1>1. s \in SUBSET Nat /\ \A x \in s : x <= k OBVIOUS
<1>2. \E m \in s : \A x \in s : x <= m BY <1>1, GreatestExists
<1>3. Max(s) \in s /\ \A x \in s : Max(s) >= x BY <1>2 DEF Max
<1>4. \A x \in s : x <= Max(s) BY <1>1, <1>3
<1>5. ASSUME NEW n \in Nat, k = n + 1, NEW x \in Below(s) PROVE x \in 1..n
  <2>1. x \in s /\ x # Max(s) /\ x <= Max(s) /\ Max(s) \in 1..k BY <1>3, <1>4, <1>5 DEF Below
  <2>. QED BY <1>5, <2>1
<1>. QED BY <1>3, <1>4, <1>5

\* The greatest of the first k + 1 numbers is k + 1, and the first k are left.
LEMMA MaxOfAll ==
    ASSUME NEW k \in Nat
    PROVE  (1..(k + 1)) # {} /\ Max(1..(k + 1)) = k + 1 /\ Below(1..(k + 1)) = 1..k
<1>. DEFINE s == 1..(k + 1)
<1>1. k + 1 \in s /\ k + 1 \in Nat /\ s \in SUBSET (1..(k + 1)) OBVIOUS
<1>2. Max(s) \in s /\ k + 1 <= Max(s) BY <1>1, MaxOf
<1>3. Max(s) = k + 1 BY <1>2
<1>4. s \ {k + 1} = 1..k OBVIOUS
<1>5. s # {} BY <1>1
<1>. HIDE DEF s
<1>6. Below(s) = 1..k BY <1>3, <1>4 DEF Below
<1>. QED BY <1>3, <1>5, <1>6 DEF s

----------------------------------------------------------------------------
\* The loops: what a fold over a sequence goes through, step by step

\* The bodies of the loops of the model; a is what a body reads besides.
Step(kind, a, acc, x) ==
    CASE kind = "believed"   -> Believed(acc, x)
      [] kind = "truly"      -> Truly(acc, x)
      [] kind = "memory"     -> MemoryBarrier(acc, a)
      [] kind = "buffer"     -> BufferBarrier(acc, x, a)
      [] kind = "image"      -> ImageBarrier(acc, x, a)
      [] kind = "transition" -> Transition(acc, x)
      [] kind = "transfer"   -> TransferRegion(acc, a, x)
      [] kind = "execute"    -> ExecuteOne(acc, x)
      [] kind = "flatten"    -> acc \o x
      [] kind = "preflight"  -> IF acc.ok THEN CheckCommand(a, acc, x) ELSE acc
      [] kind = "replay"     -> IF acc.ok THEN ReplayCommand(a, acc, x) ELSE acc
      [] kind = "attachment" -> MoveView(MoveView(acc, a, x.view, x.role), a, x.resolve, x.role)
      [] kind = "descriptor" -> MoveView(acc, a, x.view, "sampled")
      [] kind = "moved"      -> IF x.command = a THEN Move(acc, x.image, x.range, x.new, FALSE)
                                ELSE acc

\* f gives, for a set of places of q, what the steps at these places come to.
Unfolds(kind, a, f, base, q, k) ==
    f = [s \in SUBSET (1..k) |-> IF s = {} THEN base ELSE Step(kind, a, f[Below(s)], q[Max(s)])]

\* For every loop such a function exists: by induction on the length.
LEMMA UnfoldingExists ==
    ASSUME NEW kind, NEW a, NEW base, NEW q, NEW k \in Nat
    PROVE  \E f : Unfolds(kind, a, f, base, q, k)
<1>. DEFINE T == {n \in Nat : \E f : Unfolds(kind, a, f, base, q, n)}
<1>1. 0 \in T
  <2>. DEFINE f == [s \in SUBSET (1..0) |-> base]
  <2>1. \A s \in SUBSET (1..0) : s = {} OBVIOUS
  <2>2. Unfolds(kind, a, f, base, q, 0) BY <2>1 DEF Unfolds
  <2>. QED BY <2>2
<1>2. ASSUME NEW n \in T PROVE n + 1 \in T
  <2>1. PICK f : Unfolds(kind, a, f, base, q, n) OBVIOUS
  <2>. DEFINE D == SUBSET (1..(n + 1))
              g == [s \in D |-> IF s = {} THEN base ELSE Step(kind, a, f[Below(s)], q[Max(s)])]
  <2>2. \A s \in SUBSET (1..n) : s \in D /\ f[s] = g[s]
    <3>1. \A s \in SUBSET (1..n) : s \in D OBVIOUS
    <3>2. \A s \in D : g[s] = IF s = {} THEN base ELSE Step(kind, a, f[Below(s)], q[Max(s)])
      OBVIOUS
    <3>3. \A s \in SUBSET (1..n) :
            f[s] = IF s = {} THEN base ELSE Step(kind, a, f[Below(s)], q[Max(s)])
      BY <2>1 DEF Unfolds
    <3>. HIDE DEF D, g
    <3>. QED BY <3>1, <3>2, <3>3
  <2>3. ASSUME NEW s \in D, s # {} PROVE Below(s) \in SUBSET (1..n)
    <3>. HIDE DEF g
    <3>1. n + 1 \in Nat /\ s \in SUBSET (1..(n + 1)) OBVIOUS
    <3>. HIDE DEF D
    <3>. QED BY <2>3, <3>1, MaxOf
  <2>4. \A s \in D : s # {} => f[Below(s)] = g[Below(s)] BY <2>2, <2>3
  <2>5. \A s \in D : g[s] = IF s = {} THEN base ELSE Step(kind, a, g[Below(s)], q[Max(s)])
    BY <2>4
  <2>6. Unfolds(kind, a, g, base, q, n + 1) BY <2>5 DEF Unfolds
  <2>. QED BY <2>6
<1>3. T = Nat BY <1>1, <1>2, Induction
<1>. QED BY <1>3

\* h gives what the first steps come to.
Goes(kind, a, h, base, q) ==
    /\ h[0] = base
    /\ \A k \in Nat : k + 1 \in 1..Len(q) => h[k + 1] = Step(kind, a, h[k], q[k + 1])

\* Taken at the first k places, it says what the first k steps come to.
LEMMA UnfoldingGoes ==
    ASSUME NEW kind, NEW a, NEW base, NEW q, Len(q) \in Nat,
           NEW f, Unfolds(kind, a, f, base, q, Len(q))
    PROVE  \E h : Goes(kind, a, h, base, q) /\ h[Len(q)] = f[1..Len(q)]
<1>1. PICK h : h = [k \in Nat |-> f[1..k]] OBVIOUS
<1>2. h[0] = base
  <2>1. 1..0 = {} /\ {} \in SUBSET (1..Len(q)) OBVIOUS
  <2>. QED BY <1>1, <2>1 DEF Unfolds
<1>3. ASSUME NEW k \in Nat, k + 1 \in 1..Len(q)
      PROVE  h[k + 1] = Step(kind, a, h[k], q[k + 1])
  <2>1. (1..(k + 1)) \in SUBSET (1..Len(q)) BY <1>3
  <2>2. f[1..(k + 1)] = Step(kind, a, f[1..k], q[k + 1])
    BY <2>1, MaxOfAll DEF Unfolds
  <2>. QED BY <1>1, <2>2
<1>. QED BY <1>1, <1>2, <1>3 DEF Goes

\* FoldLeft of the layouts that the ICD believes (execute_recorded_image_barrier_op
\* for each barrier) goes step by step.
LEMMA BelievedFold ==
    ASSUME NEW im, NEW q, Len(q) \in Nat, DOMAIN q = 1..Len(q)
    PROVE  \E h : Goes("believed", 0, h, im, q) /\ h[Len(q)] = FoldLeft(Believed, im, q)
<1>. DEFINE P(g) == g = [s \in SUBSET (DOMAIN q) |->
                           IF s = {} THEN im ELSE Believed(g[s \ {Max(s)}], q[Max(s)])]
<1>1. PICK f : Unfolds("believed", 0, f, im, q, Len(q)) /\ f = CHOOSE g : P(g)
  <2>1. \A g : P(g) <=> Unfolds("believed", 0, g, im, q, Len(q)) BY DEF Unfolds, Step, Below
  <2>2. \E g : Unfolds("believed", 0, g, im, q, Len(q)) BY UnfoldingExists
  <2>. HIDE DEF P
  <2>. QED BY <2>1, <2>2
<1>2. FoldLeft(Believed, im, q) = f[1..Len(q)] BY <1>1 DEF FoldLeft, MapThenFoldSet
<1>. HIDE DEF P
<1>3. Unfolds("believed", 0, f, im, q, Len(q)) BY <1>1
<1>4. PICK h : Goes("believed", 0, h, im, q) /\ h[Len(q)] = f[1..Len(q)] BY <1>3, UnfoldingGoes
<1>. QED BY <1>2, <1>4

\* So does FoldLeft of the layouts that the barriers leave.
LEMMA TrulyFold ==
    ASSUME NEW tr, NEW q, Len(q) \in Nat, DOMAIN q = 1..Len(q)
    PROVE  \E h : Goes("truly", 0, h, tr, q) /\ h[Len(q)] = FoldLeft(Truly, tr, q)
<1>. DEFINE P(g) == g = [s \in SUBSET (DOMAIN q) |->
                           IF s = {} THEN tr ELSE Truly(g[s \ {Max(s)}], q[Max(s)])]
<1>1. PICK f : Unfolds("truly", 0, f, tr, q, Len(q)) /\ f = CHOOSE g : P(g)
  <2>1. \A g : P(g) <=> Unfolds("truly", 0, g, tr, q, Len(q)) BY DEF Unfolds, Step, Below
  <2>2. \E g : Unfolds("truly", 0, g, tr, q, Len(q)) BY UnfoldingExists
  <2>. HIDE DEF P
  <2>. QED BY <2>1, <2>2
<1>2. FoldLeft(Truly, tr, q) = f[1..Len(q)] BY <1>1 DEF FoldLeft, MapThenFoldSet
<1>. HIDE DEF P
<1>3. Unfolds("truly", 0, f, tr, q, Len(q)) BY <1>1
<1>4. PICK h : Goes("truly", 0, h, tr, q) /\ h[Len(q)] = f[1..Len(q)] BY <1>3, UnfoldingGoes
<1>. QED BY <1>2, <1>4

MemoryLoop(c, a, q) == FoldLeft(LAMBDA d, n : MemoryBarrier(d, a), c, q)

\* The loop over memory barriers (vkCmdPipelineBarrier) goes step by step.
LEMMA MemoryFold ==
    ASSUME NEW c, NEW a, NEW q, Len(q) \in Nat, DOMAIN q = 1..Len(q)
    PROVE  \E h : Goes("memory", a, h, c, q) /\ h[Len(q)] = MemoryLoop(c, a, q)
<1>. DEFINE P(g) == g = [s \in SUBSET (DOMAIN q) |->
                           IF s = {} THEN c ELSE MemoryBarrier(g[s \ {Max(s)}], a)]
<1>1. PICK f : Unfolds("memory", a, f, c, q, Len(q)) /\ f = CHOOSE g : P(g)
  <2>1. \A g : P(g) <=> Unfolds("memory", a, g, c, q, Len(q)) BY DEF Unfolds, Step, Below
  <2>2. \E g : Unfolds("memory", a, g, c, q, Len(q)) BY UnfoldingExists
  <2>. HIDE DEF P
  <2>. QED BY <2>1, <2>2
<1>2. MemoryLoop(c, a, q) = f[1..Len(q)] BY <1>1 DEF MemoryLoop, FoldLeft, MapThenFoldSet
<1>. HIDE DEF P
<1>3. Unfolds("memory", a, f, c, q, Len(q)) BY <1>1
<1>4. PICK h : Goes("memory", a, h, c, q) /\ h[Len(q)] = f[1..Len(q)] BY <1>3, UnfoldingGoes
<1>. QED BY <1>2, <1>4

BufferLoop(c, a, q) == FoldLeft(LAMBDA d, x : BufferBarrier(d, x, a), c, q)

\* So does the loop over buffer barriers.
LEMMA BufferFold ==
    ASSUME NEW c, NEW a, NEW q, Len(q) \in Nat, DOMAIN q = 1..Len(q)
    PROVE  \E h : Goes("buffer", a, h, c, q) /\ h[Len(q)] = BufferLoop(c, a, q)
<1>. DEFINE P(g) == g = [s \in SUBSET (DOMAIN q) |->
                           IF s = {} THEN c ELSE BufferBarrier(g[s \ {Max(s)}], q[Max(s)], a)]
<1>1. PICK f : Unfolds("buffer", a, f, c, q, Len(q)) /\ f = CHOOSE g : P(g)
  <2>1. \A g : P(g) <=> Unfolds("buffer", a, g, c, q, Len(q)) BY DEF Unfolds, Step, Below
  <2>2. \E g : Unfolds("buffer", a, g, c, q, Len(q)) BY UnfoldingExists
  <2>. HIDE DEF P
  <2>. QED BY <2>1, <2>2
<1>2. BufferLoop(c, a, q) = f[1..Len(q)] BY <1>1 DEF BufferLoop, FoldLeft, MapThenFoldSet
<1>. HIDE DEF P
<1>3. Unfolds("buffer", a, f, c, q, Len(q)) BY <1>1
<1>4. PICK h : Goes("buffer", a, h, c, q) /\ h[Len(q)] = f[1..Len(q)] BY <1>3, UnfoldingGoes
<1>. QED BY <1>2, <1>4

ImageLoop(c, a, q) == FoldLeft(LAMBDA d, x : ImageBarrier(d, x, a), c, q)

\* So does the loop over image barriers.
LEMMA ImageFold ==
    ASSUME NEW c, NEW a, NEW q, Len(q) \in Nat, DOMAIN q = 1..Len(q)
    PROVE  \E h : Goes("image", a, h, c, q) /\ h[Len(q)] = ImageLoop(c, a, q)
<1>. DEFINE P(g) == g = [s \in SUBSET (DOMAIN q) |->
                           IF s = {} THEN c ELSE ImageBarrier(g[s \ {Max(s)}], q[Max(s)], a)]
<1>1. PICK f : Unfolds("image", a, f, c, q, Len(q)) /\ f = CHOOSE g : P(g)
  <2>1. \A g : P(g) <=> Unfolds("image", a, g, c, q, Len(q)) BY DEF Unfolds, Step, Below
  <2>2. \E g : Unfolds("image", a, g, c, q, Len(q)) BY UnfoldingExists
  <2>. HIDE DEF P
  <2>. QED BY <2>1, <2>2
<1>2. ImageLoop(c, a, q) = f[1..Len(q)] BY <1>1 DEF ImageLoop, FoldLeft, MapThenFoldSet
<1>. HIDE DEF P
<1>3. Unfolds("image", a, f, c, q, Len(q)) BY <1>1
<1>4. PICK h : Goes("image", a, h, c, q) /\ h[Len(q)] = f[1..Len(q)] BY <1>3, UnfoldingGoes
<1>. QED BY <1>2, <1>4

\* So does the loop over the transitions of a render pass (append_render_pass_transition).
LEMMA TransitionFold ==
    ASSUME NEW acc, NEW q, Len(q) \in Nat, DOMAIN q = 1..Len(q)
    PROVE  \E h : Goes("transition", 0, h, acc, q) /\ h[Len(q)] = FoldLeft(Transition, acc, q)
<1>. DEFINE P(g) == g = [s \in SUBSET (DOMAIN q) |->
                           IF s = {} THEN acc ELSE Transition(g[s \ {Max(s)}], q[Max(s)])]
<1>1. PICK f : Unfolds("transition", 0, f, acc, q, Len(q)) /\ f = CHOOSE g : P(g)
  <2>1. \A g : P(g) <=> Unfolds("transition", 0, g, acc, q, Len(q)) BY DEF Unfolds, Step, Below
  <2>2. \E g : Unfolds("transition", 0, g, acc, q, Len(q)) BY UnfoldingExists
  <2>. HIDE DEF P
  <2>. QED BY <2>1, <2>2
<1>2. FoldLeft(Transition, acc, q) = f[1..Len(q)] BY <1>1 DEF FoldLeft, MapThenFoldSet
<1>. HIDE DEF P
<1>3. Unfolds("transition", 0, f, acc, q, Len(q)) BY <1>1
<1>4. PICK h : Goes("transition", 0, h, acc, q) /\ h[Len(q)] = f[1..Len(q)] BY <1>3, UnfoldingGoes
<1>. QED BY <1>2, <1>4

TransferLoop(c, a, q) == FoldLeft(LAMBDA d, r : TransferRegion(d, a, r), c, q)

\* So does the loop over the regions of a transfer (vkCmdCopyBuffer and the others).
LEMMA TransferFold ==
    ASSUME NEW c, NEW a, NEW q, Len(q) \in Nat, DOMAIN q = 1..Len(q)
    PROVE  \E h : Goes("transfer", a, h, c, q) /\ h[Len(q)] = TransferLoop(c, a, q)
<1>. DEFINE P(g) == g = [s \in SUBSET (DOMAIN q) |->
                           IF s = {} THEN c ELSE TransferRegion(g[s \ {Max(s)}], a, q[Max(s)])]
<1>1. PICK f : Unfolds("transfer", a, f, c, q, Len(q)) /\ f = CHOOSE g : P(g)
  <2>1. \A g : P(g) <=> Unfolds("transfer", a, g, c, q, Len(q)) BY DEF Unfolds, Step, Below
  <2>2. \E g : Unfolds("transfer", a, g, c, q, Len(q)) BY UnfoldingExists
  <2>. HIDE DEF P
  <2>. QED BY <2>1, <2>2
<1>2. TransferLoop(c, a, q) = f[1..Len(q)] BY <1>1 DEF TransferLoop, FoldLeft, MapThenFoldSet
<1>. HIDE DEF P
<1>3. Unfolds("transfer", a, f, c, q, Len(q)) BY <1>1
<1>4. PICK h : Goes("transfer", a, h, c, q) /\ h[Len(q)] = f[1..Len(q)] BY <1>3, UnfoldingGoes
<1>. QED BY <1>2, <1>4

\* So does the loop over secondary buffers (vkCmdExecuteCommands).
LEMMA ExecuteFold ==
    ASSUME NEW acc, NEW q, Len(q) \in Nat, DOMAIN q = 1..Len(q)
    PROVE  \E h : Goes("execute", 0, h, acc, q) /\ h[Len(q)] = FoldLeft(ExecuteOne, acc, q)
<1>. DEFINE P(g) == g = [s \in SUBSET (DOMAIN q) |->
                           IF s = {} THEN acc ELSE ExecuteOne(g[s \ {Max(s)}], q[Max(s)])]
<1>1. PICK f : Unfolds("execute", 0, f, acc, q, Len(q)) /\ f = CHOOSE g : P(g)
  <2>1. \A g : P(g) <=> Unfolds("execute", 0, g, acc, q, Len(q)) BY DEF Unfolds, Step, Below
  <2>2. \E g : Unfolds("execute", 0, g, acc, q, Len(q)) BY UnfoldingExists
  <2>. HIDE DEF P
  <2>. QED BY <2>1, <2>2
<1>2. FoldLeft(ExecuteOne, acc, q) = f[1..Len(q)] BY <1>1 DEF FoldLeft, MapThenFoldSet
<1>. HIDE DEF P
<1>3. Unfolds("execute", 0, f, acc, q, Len(q)) BY <1>1
<1>4. PICK h : Goes("execute", 0, h, acc, q) /\ h[Len(q)] = f[1..Len(q)] BY <1>3, UnfoldingGoes
<1>. QED BY <1>2, <1>4

----------------------------------------------------------------------------
\* Sequences of whatever

\* What IsSeq says: a length, a domain, and a function of it
LEMMA SeqFacts ==
    ASSUME NEW s, IsSeq(s)
    PROVE  /\ Len(s) \in Nat /\ DOMAIN s = 1..Len(s)
           /\ s = [n \in 1..Len(s) |-> s[n]]
BY DEF IsSeq

\* A function of the first N numbers is a sequence of that length.
LEMMA SeqMade ==
    ASSUME NEW N \in Nat, NEW f, f = [n \in 1..N |-> f[n]]
    PROVE  IsSeq(f) /\ Len(f) = N /\ DOMAIN f = 1..N
<1>1. DOMAIN f = 1..N OBVIOUS
<1>2. \A n \in 1..N : f[n] \in ToSet(f) BY <1>1 DEF ToSet
<1>3. f \in [1..N -> ToSet(f)] BY <1>2
<1>4. f \in Seq(ToSet(f)) BY <1>3
<1>. QED BY <1>1, <1>4 DEF IsSeq

\* A sequence over a set is a sequence.
LEMMA SeqTyped ==
    ASSUME NEW S, NEW s \in Seq(S)
    PROVE  IsSeq(s)
<1>1. Len(s) \in Nat /\ DOMAIN s = 1..Len(s) /\ s \in [1..Len(s) -> S] OBVIOUS
<1>2. \A n \in 1..Len(s) : s[n] \in ToSet(s) BY <1>1 DEF ToSet
<1>3. s \in [1..Len(s) -> ToSet(s)] BY <1>1, <1>2
<1>4. s \in Seq(ToSet(s)) BY <1>1, <1>3
<1>. QED BY <1>4 DEF IsSeq

\* The empty sequence
LEMMA SeqEmpty == IsSeq(<<>>) /\ Len(<<>>) = 0 /\ DOMAIN <<>> = {}
<1>1. <<>> \in Seq({}) OBVIOUS
<1>2. IsSeq(<<>>) BY <1>1, SeqTyped
<1>3. Len(<<>>) = 0 /\ DOMAIN <<>> = {} OBVIOUS
<1>. QED BY <1>2, <1>3

\* Append, element by element
LEMMA SeqAppended ==
    ASSUME NEW s, IsSeq(s), NEW x
    PROVE  /\ IsSeq(Append(s, x))
           /\ Len(Append(s, x)) = Len(s) + 1
           /\ Append(s, x)[Len(s) + 1] = x
           /\ \A n \in 1..Len(s) : Append(s, x)[n] = s[n]
<1>. DEFINE S == ToSet(s) \cup {x}
<1>1. s \in Seq(ToSet(s)) BY DEF IsSeq
<1>2. PICK T : T = S OBVIOUS
<1>3. s \in Seq(T) /\ x \in T
  <2>1. s \in [1..Len(s) -> ToSet(s)] /\ Len(s) \in Nat BY <1>1
  <2>2. s \in [1..Len(s) -> T] BY <2>1, <1>2
  <2>. QED BY <1>2, <2>1, <2>2
<1>4. Append(s, x) \in Seq(T) BY <1>3
<1>5. IsSeq(Append(s, x)) BY <1>4, SeqTyped
<1>6. /\ Len(Append(s, x)) = Len(s) + 1
      /\ Append(s, x)[Len(s) + 1] = x
      /\ \A n \in 1..Len(s) : Append(s, x)[n] = s[n]
  BY <1>3, AppendProperties
<1>. QED BY <1>5, <1>6

\* Concatenation, element by element
LEMMA SeqJoined ==
    ASSUME NEW s, IsSeq(s), NEW t, IsSeq(t)
    PROVE  /\ IsSeq(s \o t)
           /\ Len(s \o t) = Len(s) + Len(t)
           /\ \A n \in 1..Len(s) : (s \o t)[n] = s[n]
           /\ \A n \in 1..Len(t) : (s \o t)[Len(s) + n] = t[n]
<1>. DEFINE S == ToSet(s) \cup ToSet(t)
<1>1. s \in Seq(ToSet(s)) /\ t \in Seq(ToSet(t)) BY DEF IsSeq
<1>2. PICK T : T = S OBVIOUS
<1>3. s \in Seq(T) /\ t \in Seq(T)
  <2>1. s \in [1..Len(s) -> ToSet(s)] /\ Len(s) \in Nat BY <1>1
  <2>2. t \in [1..Len(t) -> ToSet(t)] /\ Len(t) \in Nat BY <1>1
  <2>3. s \in [1..Len(s) -> T] /\ t \in [1..Len(t) -> T] BY <2>1, <2>2, <1>2
  <2>. QED BY <2>1, <2>2, <2>3
<1>4. s \o t \in Seq(T) BY <1>3
<1>5. Len(s \o t) = Len(s) + Len(t) /\ Len(s) \in Nat /\ Len(t) \in Nat BY <1>3
<1>6. \A n \in 1..Len(s) : (s \o t)[n] = s[n] BY <1>3, ConcatProperties
<1>7. ASSUME NEW n \in 1..Len(t) PROVE (s \o t)[Len(s) + n] = t[n]
  <2>1. Len(s) + n \in 1..(Len(s) + Len(t)) /\ ~(Len(s) + n <= Len(s)) BY <1>5
  <2>2. (Len(s) + n) - Len(s) = n BY <1>5
  <2>. QED BY <1>3, <2>1, <2>2, ConcatProperties
<1>8. IsSeq(s \o t) BY <1>4, SeqTyped
<1>. QED BY <1>5, <1>6, <1>7, <1>8

\* Head and Tail of a sequence that is not empty
LEMMA SeqRest ==
    ASSUME NEW s, IsSeq(s), s # <<>>
    PROVE  /\ IsSeq(Tail(s))
           /\ Len(s) = Len(Tail(s)) + 1
           /\ Head(s) = s[1] /\ 1 \in DOMAIN s
           /\ \A n \in DOMAIN Tail(s) : n + 1 \in DOMAIN s /\ Tail(s)[n] = s[n + 1]
<1>1. s \in Seq(ToSet(s)) BY DEF IsSeq
<1>2. PICK T : T = ToSet(s) OBVIOUS
<1>3. s \in Seq(T) BY <1>1, <1>2
<1>4. Tail(s) \in Seq(T) /\ Len(s) \in Nat /\ Len(s) >= 1 BY <1>3
<1>5. Len(Tail(s)) = Len(s) - 1 /\ \A n \in 1..(Len(s) - 1) : Tail(s)[n] = s[n + 1] BY <1>3
<1>6. IsSeq(Tail(s)) BY <1>4, SeqTyped
<1>7. Head(s) = s[1] /\ DOMAIN s = 1..Len(s) /\ DOMAIN Tail(s) = 1..(Len(s) - 1) BY <1>3, <1>4
<1>. QED BY <1>4, <1>5, <1>6, <1>7

\* A part of a sequence is a sequence.
LEMMA SeqPart ==
    ASSUME NEW s, IsSeq(s), NEW m \in Nat, m >= 1, NEW n \in Nat, n <= Len(s)
    PROVE  IsSeq(SubSeq(s, m, n))
<1>1. s \in Seq(ToSet(s)) BY DEF IsSeq
<1>2. PICK T : T = ToSet(s) OBVIOUS
<1>3. s \in Seq(T) BY <1>1, <1>2
<1>4. SubSeq(s, m, n) \in Seq(T) BY <1>3
<1>. QED BY <1>4, SeqTyped

----------------------------------------------------------------------------
\* Command buffers

CbFields == {"level", "tab", "failed", "unsupported", "badSets", "rendering", "inherited",
             "inPass", "pass", "target", "gpipe", "cpipe", "vertex", "index", "pushed",
             "pushSize", "gsets", "csets"}

\* A buffer that a frame may still be made of, or that may be copied.
Usable(c) == ~c.unsupported /\ ~c.badSets

\* The ranges of a record or of an operation are in the tables.
SpanOK(c, span) ==
    /\ DOMAIN span \subseteq Tables
    /\ \A t \in DOMAIN span : /\ span[t][1] \in Nat /\ span[t][2] \in Nat
                              /\ Usable(c) => span[t][1] + span[t][2] <= Size(c, t)

RecOK(c, r) == /\ DOMAIN r = {"type", "seq", "span", "data"}
               /\ r.seq \in Nat /\ r.seq <= Size(c, "op")
               /\ SpanOK(c, r.span)
OpOK(c, o) == DOMAIN o = {"type", "span", "data"} /\ SpanOK(c, o.span)
PassOK(c) == c.pass # None => IsSeq(c.pass.p.atts)

\* Fields, tables and room
Shaped(c) == /\ DOMAIN c = CbFields
             /\ DOMAIN c.tab = Tables
             /\ \A t \in Tables : IsSeq(c.tab[t]) /\ Size(c, t) <= Room[t]
             /\ PassOK(c)
RecsOK(c) == /\ \A n \in DOMAIN c.tab["rec"] : RecOK(c, c.tab["rec"][n])
             /\ \A m, n \in DOMAIN c.tab["rec"] :
                    m < n => c.tab["rec"][m].seq <= c.tab["rec"][n].seq
OpsOK(c)  == \A n \in DOMAIN c.tab["op"] : OpOK(c, c.tab["op"][n])
Formed(c) == Shaped(c) /\ RecsOK(c) /\ OpsOK(c)

\* The records, one after the other, take the first n entries of table t.
Continuing(span, t, a, b) ==
    IF t \in DOMAIN span /\ span[t][2] > 0 THEN span[t][1] = a /\ b = a + span[t][2] ELSE b = a
Tiling(e, rec, t, n) ==
    /\ e \in [0..Len(rec) -> Nat]
    /\ e[0] = 0 /\ e[Len(rec)] = n
    /\ \A k \in 1..Len(rec) : Continuing(rec[k].span, t, e[k - 1], e[k])
Tiles(rec, t, n) == \E e : Tiling(e, rec, t, n)
Tiled(c) == \A t \in Shared : Tiles(c.tab["rec"], t, Size(c, t))

\* What every call does to a buffer: it stays well formed; when it is usable
\* after the call it was before, and if the records shared the tables they do.
Continues(c, d) == Formed(d) /\ (Usable(d) => Usable(c) /\ (Tiled(c) => Tiled(d)))

\* One call, or one part of it, after the other
LEMMA ContinuesTrans ==
    ASSUME NEW c, NEW d, NEW e, Continues(c, d), Continues(d, e)
    PROVE  Continues(c, e)
BY DEF Continues

\* A call that returns early
LEMMA ContinuesSelf ==
    ASSUME NEW c, Formed(c)
    PROVE  Continues(c, c)
BY DEF Continues

\* Which tables the records share, and which fields a command buffer has
LEMMA TableNames ==
    /\ Shared \subseteq Tables
    /\ "rec" \in Tables /\ "op" \in Tables /\ "rec" \notin Shared /\ "op" \notin Shared
    /\ Transfers \subseteq Tables /\ Transfers \cap Shared = {} /\ "rec" \notin Transfers
    /\ "op" \notin Transfers
    /\ "dispatch" \in Tables /\ "dispatch" \notin Shared
    /\ "tab" \in CbFields /\ "unsupported" \in CbFields /\ "badSets" \in CbFields
    /\ "failed" \in CbFields /\ "pass" \in CbFields
BY DEF Shared, Tables, Transfers, CbFields

\* The tables of a well formed buffer are sequences within their arrays, and one
\* that is not full has room for an entry more.
LEMMA SizeFacts ==
    ASSUME NEW c, Formed(c), NEW t \in Tables
    PROVE  /\ Size(c, t) \in Nat /\ Room[t] \in Nat /\ Size(c, t) <= Room[t]
           /\ IsSeq(c.tab[t]) /\ DOMAIN c.tab[t] = 1..Size(c, t)
           /\ ~Full(c, t) => Size(c, t) + 1 <= Room[t]
<1>1. IsSeq(c.tab[t]) /\ Size(c, t) <= Room[t] BY DEF Formed, Shaped
<1>2. Len(c.tab[t]) \in Nat /\ DOMAIN c.tab[t] = 1..Len(c.tab[t]) BY <1>1, SeqFacts
<1>3. Room[t] \in Nat BY RoomAssumption
<1>. QED BY <1>1, <1>2, <1>3 DEF Size, Full

\* No record, no range.
LEMMA BlankIsFormed ==
    ASSUME NEW level
    PROVE  Formed(Blank(level)) /\ Tiled(Blank(level))
<1>. DEFINE c == Blank(level)
<1>1. /\ DOMAIN c = CbFields /\ c.tab = Cleared /\ c.pass = None
  BY DEF Blank, CbFields
<1>. HIDE DEF c
<1>2. DOMAIN c.tab = Tables /\ \A t \in Tables : c.tab[t] = <<>> BY <1>1 DEF Cleared
<1>3. \A t \in Tables : IsSeq(c.tab[t]) /\ Size(c, t) = 0 /\ DOMAIN c.tab[t] = {}
  BY <1>2, SeqEmpty DEF Size
<1>4. \A t \in Tables : Room[t] \in Nat BY RoomAssumption
<1>5. Shaped(c) BY <1>1, <1>2, <1>3, <1>4 DEF Shaped, PassOK
<1>6. RecsOK(c) /\ OpsOK(c) BY <1>3, TableNames DEF RecsOK, OpsOK
<1>7. ASSUME NEW t \in Shared PROVE Tiles(c.tab["rec"], t, Size(c, t))
  <2>. DEFINE e == [k \in 0..0 |-> 0]
  <2>1. e \in [0..0 -> Nat] /\ e[0] = 0 OBVIOUS
  <2>2. c.tab["rec"] = <<>> /\ Size(c, t) = 0 BY <1>2, <1>3, TableNames
  <2>3. 1..0 = {} OBVIOUS
  <2>. HIDE DEF e
  <2>4. Tiling(e, <<>>, t, 0) BY <2>1, <2>3, SeqEmpty DEF Tiling
  <2>. QED BY <2>2, <2>4 DEF Tiles
<1>. QED BY <1>5, <1>6, <1>7 DEF Formed, Tiled, c

\* A buffer whose tables have grown, those of the records and operations not.
LEMMA GrownIsFormed ==
    ASSUME NEW c, Formed(c), NEW d, DOMAIN d = CbFields, DOMAIN d.tab = Tables,
           \A t \in Tables : /\ IsSeq(d.tab[t])
                             /\ Size(c, t) <= Size(d, t) /\ Size(d, t) <= Room[t],
           d.tab["rec"] = c.tab["rec"], d.tab["op"] = c.tab["op"],
           Usable(d) => Usable(c), PassOK(d)
    PROVE  Formed(d)
<1>1. Shaped(d) BY DEF Shaped
<1>2. Size(d, "op") = Size(c, "op") BY DEF Size
<1>3. ASSUME NEW span, SpanOK(c, span) PROVE SpanOK(d, span)
  <2>1. ASSUME NEW t \in DOMAIN span, Usable(d) PROVE span[t][1] + span[t][2] <= Size(d, t)
    <3>1. t \in Tables /\ span[t][1] \in Nat /\ span[t][2] \in Nat BY <1>3 DEF SpanOK
    <3>2. span[t][1] + span[t][2] <= Size(c, t) BY <1>3, <2>1 DEF SpanOK
    <3>3. Size(c, t) <= Size(d, t) /\ Size(c, t) \in Nat BY <3>1, SizeFacts
    <3>4. Size(d, t) \in Nat BY <3>1, SeqFacts DEF Size
    <3>. QED BY <3>1, <3>2, <3>3, <3>4
  <2>. QED BY <1>3, <2>1 DEF SpanOK
<1>4. RecsOK(d) BY <1>2, <1>3 DEF Formed, RecsOK, RecOK
<1>5. OpsOK(d) BY <1>3 DEF Formed, OpsOK, OpOK
<1>. QED BY <1>1, <1>4, <1>5 DEF Formed

\* A change of the state only
LEMMA StateOnly ==
    ASSUME NEW c, Formed(c), NEW d, DOMAIN d = CbFields, d.tab = c.tab,
           Usable(d) => Usable(c), PassOK(d)
    PROVE  Continues(c, d)
<1>1. \A t \in Tables : Size(d, t) = Size(c, t) BY DEF Size
<1>2. \A t \in Tables : /\ Size(c, t) \in Nat /\ Size(c, t) <= Room[t]
                        /\ IsSeq(d.tab[t]) BY SizeFacts
<1>3. Formed(d)
  <2>1. DOMAIN d.tab = Tables BY DEF Formed, Shaped
  <2>. QED BY <1>1, <1>2, <2>1, GrownIsFormed
<1>4. Tiled(c) => Tiled(d) BY <1>1, TableNames DEF Tiled
<1>. QED BY <1>3, <1>4 DEF Continues

\* Marking a buffer as unsupported or as failed (graphics_unsupported and
\* command_buffer_mark_recording_failed) changes no table.
LEMMA FlagsFacts ==
    ASSUME NEW c, Formed(c)
    PROVE  /\ Continues(c, Unsupported(c)) /\ ~Usable(Unsupported(c))
           /\ Continues(c, Failed(c))
           /\ Unsupported(c).tab = c.tab /\ Failed(c).tab = c.tab
           /\ Usable(Failed(c)) = Usable(c)
<1>1. DOMAIN c = CbFields /\ PassOK(c) BY DEF Formed, Shaped
<1>. DEFINE d == Unsupported(c)   e == Failed(c)
<1>2. /\ DOMAIN d = CbFields /\ d.tab = c.tab /\ d.unsupported = TRUE /\ d.pass = c.pass
  BY <1>1, TableNames DEF Unsupported
<1>3. /\ DOMAIN e = CbFields /\ e.tab = c.tab /\ e.unsupported = c.unsupported
      /\ e.badSets = c.badSets /\ e.pass = c.pass
  BY <1>1, TableNames DEF Failed
<1>. HIDE DEF d, e
<1>4. ~Usable(d) /\ Usable(e) = Usable(c) BY <1>2, <1>3 DEF Usable
<1>5. PassOK(d) /\ PassOK(e) BY <1>1, <1>2, <1>3 DEF PassOK
<1>6. Continues(c, d) BY <1>2, <1>4, <1>5, StateOnly
<1>7. Continues(c, e) BY <1>3, <1>4, <1>5, StateOnly
<1>. QED BY <1>2, <1>3, <1>4, <1>6, <1>7 DEF d, e

----------------------------------------------------------------------------
\* Entries, records and operations

\* One entry more in one of the tables
LEMMA PutFacts ==
    ASSUME NEW c, Formed(c), NEW t \in Tables, NEW x
    PROVE  LET d == Put(c, t, x)
           IN  /\ DOMAIN d = CbFields /\ DOMAIN d.tab = Tables
               /\ \A u \in Tables : u # t => d.tab[u] = c.tab[u] /\ Size(d, u) = Size(c, u)
               /\ d.tab[t] = Append(c.tab[t], x)
               /\ Size(d, t) = Size(c, t) + 1
               /\ \A y \in CbFields : y # "tab" => d[y] = c[y]
               /\ Usable(d) = Usable(c) /\ PassOK(d)
<1>. DEFINE d == Put(c, t, x)
<1>1. DOMAIN c = CbFields /\ DOMAIN c.tab = Tables /\ PassOK(c) BY DEF Formed, Shaped
<1>2. /\ DOMAIN d = CbFields
      /\ d.tab = [c.tab EXCEPT ![t] = Append(@, x)]
      /\ \A y \in CbFields : y # "tab" => d[y] = c[y]
  BY <1>1, TableNames DEF Put
<1>. HIDE DEF d
<1>3. /\ DOMAIN d.tab = Tables
      /\ \A u \in Tables : u # t => d.tab[u] = c.tab[u]
      /\ d.tab[t] = Append(c.tab[t], x)
  BY <1>1, <1>2
<1>4. Size(d, t) = Size(c, t) + 1
  <2>1. IsSeq(c.tab[t]) BY SizeFacts
  <2>. QED BY <1>3, <2>1, SeqAppended DEF Size
<1>5. \A u \in Tables : u # t => Size(d, u) = Size(c, u) BY <1>3 DEF Size
<1>6. d["unsupported"] = c["unsupported"] /\ d["badSets"] = c["badSets"] /\ d["pass"] = c["pass"]
  BY <1>2, TableNames
<1>7. Usable(d) = Usable(c) /\ PassOK(d) BY <1>1, <1>6 DEF Usable, PassOK
<1>. QED BY <1>2, <1>3, <1>4, <1>5, <1>7 DEF d

\* An entry more, in a table with room, leaves the buffer well formed.
LEMMA PutIsFormed ==
    ASSUME NEW c, Formed(c), NEW t \in Tables, t \notin {"rec", "op"}, ~Full(c, t), NEW x
    PROVE  Formed(Put(c, t, x))
<1>. DEFINE d == Put(c, t, x)
<1>1. /\ DOMAIN d = CbFields /\ DOMAIN d.tab = Tables
      /\ \A u \in Tables : u # t => d.tab[u] = c.tab[u] /\ Size(d, u) = Size(c, u)
      /\ d.tab[t] = Append(c.tab[t], x)
      /\ Size(d, t) = Size(c, t) + 1
      /\ Usable(d) = Usable(c) /\ PassOK(d)
  BY PutFacts
<1>. HIDE DEF d
<1>2. ASSUME NEW u \in Tables
      PROVE  IsSeq(d.tab[u]) /\ Size(c, u) <= Size(d, u) /\ Size(d, u) <= Room[u]
  <2>1. Size(c, u) \in Nat /\ Size(c, u) <= Room[u] /\ IsSeq(c.tab[u]) BY SizeFacts
  <2>2. CASE u = t
    <3>1. Size(c, t) + 1 <= Room[t] BY SizeFacts
    <3>2. IsSeq(Append(c.tab[t], x)) BY <2>1, <2>2, SeqAppended
    <3>3. Size(c, t) <= Size(c, t) + 1 BY <2>1, <2>2
    <3>. QED BY <1>1, <2>2, <3>1, <3>2, <3>3
  <2>3. CASE u # t BY <1>1, <2>1, <2>3
  <2>. QED BY <2>2, <2>3
<1>3. d.tab["rec"] = c.tab["rec"] /\ d.tab["op"] = c.tab["op"] BY <1>1, TableNames
<1>4. Formed(d) BY <1>1, <1>2, <1>3, GrownIsFormed
<1>. QED BY <1>4 DEF d

\* One operation more
LEMMA OpFacts ==
    ASSUME NEW c, Formed(c), NEW type, NEW span, SpanOK(c, span), NEW data
    PROVE  LET d == Op(c, type, span, data)
           IN  /\ Continues(c, d)
               /\ Usable(d) = Usable(c)
               /\ \A u \in Tables : u # "op" => d.tab[u] = c.tab[u] /\ Size(d, u) = Size(c, u)
               /\ DOMAIN d = CbFields
               /\ \A y \in CbFields : y \notin {"tab", "failed"} => d[y] = c[y]
<1>. DEFINE d == Op(c, type, span, data)
            o == [type |-> type, span |-> span, data |-> data]
<1>0. DOMAIN c = CbFields /\ DOMAIN c.tab = Tables BY DEF Formed, Shaped
<1>1. CASE Full(c, "op")
  <2>1. d = Failed(c) BY <1>1 DEF Op
  <2>2. DOMAIN Failed(c) = CbFields /\ \A y \in CbFields : y # "failed" => Failed(c)[y] = c[y]
    BY <1>0 DEF Failed
  <2>. QED BY <2>1, <2>2, FlagsFacts DEF Size
<1>2. CASE ~Full(c, "op")
  <2>1. d = Put(c, "op", o) BY <1>2 DEF Op
  <2>2. DOMAIN o = {"type", "span", "data"} /\ o.span = span OBVIOUS
  <2>. HIDE DEF o, d
  <2>3. /\ DOMAIN d = CbFields /\ DOMAIN d.tab = Tables
        /\ \A u \in Tables : u # "op" => d.tab[u] = c.tab[u] /\ Size(d, u) = Size(c, u)
        /\ d.tab["op"] = Append(c.tab["op"], o)
        /\ Size(d, "op") = Size(c, "op") + 1
        /\ \A y \in CbFields : y # "tab" => d[y] = c[y]
        /\ Usable(d) = Usable(c) /\ PassOK(d)
    BY <2>1, PutFacts, TableNames
  <2>4. Size(c, "op") \in Nat /\ Size(c, "op") + 1 <= Room["op"] /\ IsSeq(c.tab["op"])
    BY <1>2, SizeFacts, TableNames
  <2>5. IsSeq(d.tab["op"]) BY <2>3, <2>4, SeqAppended
  <2>6. Shaped(d)
    <3>1. ASSUME NEW u \in Tables PROVE IsSeq(d.tab[u]) /\ Size(d, u) <= Room[u]
      <4>1. CASE u = "op" BY <2>3, <2>4, <2>5, <4>1
      <4>2. CASE u # "op" BY <2>3, <4>2, SizeFacts
      <4>. QED BY <4>1, <4>2
    <3>. QED BY <2>3, <3>1 DEF Shaped
  <2>7. ASSUME NEW sp, SpanOK(c, sp) PROVE SpanOK(d, sp)
    <3>1. ASSUME NEW t \in DOMAIN sp, Usable(d) PROVE sp[t][1] + sp[t][2] <= Size(d, t)
      <4>1. t \in Tables /\ sp[t][1] \in Nat /\ sp[t][2] \in Nat BY <2>7 DEF SpanOK
      <4>2. sp[t][1] + sp[t][2] <= Size(c, t) BY <2>3, <2>7, <3>1 DEF SpanOK
      <4>3. CASE t = "op" BY <2>3, <2>4, <4>1, <4>2, <4>3
      <4>4. CASE t # "op" BY <2>3, <4>1, <4>2, <4>4
      <4>. QED BY <4>3, <4>4
    <3>. QED BY <2>7, <3>1 DEF SpanOK
  <2>8. d.tab["rec"] = c.tab["rec"] BY <2>3, TableNames
  <2>9. RecsOK(d)
    <3>1. ASSUME NEW r, RecOK(c, r) PROVE RecOK(d, r)
      <4>1. r.seq \in Nat /\ r.seq <= Size(c, "op") BY <3>1 DEF RecOK
      <4>2. r.seq <= Size(d, "op") BY <4>1, <2>3, <2>4
      <4>. QED BY <2>7, <3>1, <4>2 DEF RecOK
    <3>. QED BY <2>8, <3>1 DEF Formed, RecsOK
  <2>10. OpsOK(d)
    <3>1. ASSUME NEW n \in DOMAIN d.tab["op"] PROVE OpOK(d, d.tab["op"][n])
      <4>1. DOMAIN d.tab["op"] = 1..(Size(c, "op") + 1) BY <2>3, <2>5, SeqFacts DEF Size
      <4>2. DOMAIN c.tab["op"] = 1..Size(c, "op") BY SizeFacts, TableNames
      <4>3. CASE n = Size(c, "op") + 1
        <5>1. d.tab["op"][n] = o BY <2>3, <2>4, <4>3, SeqAppended DEF Size
        <5>2. SpanOK(d, span) BY <2>7
        <5>. QED BY <2>2, <5>1, <5>2 DEF OpOK
      <4>4. CASE n # Size(c, "op") + 1
        <5>1. n \in 1..Size(c, "op") BY <2>4, <4>1, <4>4
        <5>2. d.tab["op"][n] = c.tab["op"][n] BY <2>3, <2>4, <5>1, SeqAppended DEF Size
        <5>3. OpOK(c, c.tab["op"][n]) BY <4>2, <5>1 DEF Formed, OpsOK
        <5>. QED BY <2>7, <5>2, <5>3 DEF OpOK
      <4>. QED BY <4>3, <4>4
    <3>. QED BY <3>1 DEF OpsOK
  <2>11. Tiled(c) => Tiled(d) BY <2>3, <2>8, TableNames DEF Tiled
  <2>. QED BY <2>3, <2>6, <2>9, <2>10, <2>11 DEF Formed, Continues, d
<1>. QED BY <1>1, <1>2

\* A record more takes the next entries of a table.
LEMMA TilesAppended ==
    ASSUME NEW rec, IsSeq(rec), NEW t, NEW n \in Nat, Tiles(rec, t, n),
           NEW r, NEW m \in Nat, Continuing(r.span, t, n, m)
    PROVE  Tiles(Append(rec, r), t, m)
<1>1. PICK e : Tiling(e, rec, t, n) BY DEF Tiles
<1>2. PICK L \in Nat : L = Len(rec) BY SeqFacts
<1>3. PICK q : q = Append(rec, r) OBVIOUS
<1>4. /\ Len(q) = L + 1 /\ q[L + 1] = r
      /\ \A k \in 1..L : q[k] = rec[k]
  BY <1>2, <1>3, SeqAppended
<1>5. /\ e \in [0..L -> Nat] /\ e[0] = 0 /\ e[L] = n
      /\ \A k \in 1..L : Continuing(rec[k].span, t, e[k - 1], e[k])
  BY <1>1, <1>2 DEF Tiling
<1>6. PICK f : f = [k \in 0..(L + 1) |-> IF k = L + 1 THEN m ELSE e[k]] OBVIOUS
<1>7. f \in [0..(L + 1) -> Nat] /\ f[0] = 0 /\ f[L + 1] = m /\ \A k \in 0..L : f[k] = e[k]
  BY <1>2, <1>5, <1>6
<1>8. ASSUME NEW k \in 1..(L + 1) PROVE Continuing(q[k].span, t, f[k - 1], f[k])
  <2>1. CASE k = L + 1
    <3>1. k - 1 = L /\ L \in 0..L BY <2>1
    <3>2. q[k] = r /\ f[k - 1] = n /\ f[k] = m BY <1>4, <1>5, <1>7, <2>1, <3>1
    <3>. QED BY <3>2
  <2>2. CASE k # L + 1
    <3>1. k \in 1..L /\ k \in 0..L /\ k - 1 \in 0..L BY <2>2
    <3>2. q[k] = rec[k] /\ f[k - 1] = e[k - 1] /\ f[k] = e[k] BY <1>4, <1>7, <3>1
    <3>. QED BY <1>5, <3>1, <3>2
  <2>. QED BY <2>1, <2>2
<1>9. Tiling(f, q, t, m) BY <1>4, <1>7, <1>8 DEF Tiling
<1>. QED BY <1>3, <1>9 DEF Tiles

\* A record more, for d: c with more entries, that the record's ranges take.
Takes(c, d, span) ==
    /\ d.tab["rec"] = c.tab["rec"] /\ (Usable(d) => Usable(c))
    /\ DOMAIN span \subseteq Shared
    /\ \A t \in DOMAIN span : /\ span[t][1] = Size(c, t) /\ span[t][2] \in Nat
                              /\ Usable(d) => Size(d, t) = Size(c, t) + span[t][2]
    /\ \A t \in Shared \ DOMAIN span : Usable(d) => Size(d, t) = Size(c, t)

\* A record that takes all new entries (append_graphics_command_record) continues the
\* buffer; without room for the record the buffer is unsupported and keeps its tables.
LEMMA RecordFacts ==
    ASSUME NEW c, Formed(c), NEW d, Formed(d), NEW span, Takes(c, d, span), NEW type, NEW data
    PROVE  LET e == Record(d, type, span, data)
           IN  /\ Continues(c, e)
               /\ Usable(e) => Usable(d) /\ ~Full(d, "rec")
               /\ ~Full(d, "rec") => Usable(e) = Usable(d)
               /\ \A u \in Tables : u # "rec" => e.tab[u] = d.tab[u] /\ Size(e, u) = Size(d, u)
               /\ DOMAIN e = CbFields
               /\ \A y \in CbFields : y \notin {"tab", "failed", "unsupported"} => e[y] = d[y]
<1>. DEFINE e == Record(d, type, span, data)
            r == [type |-> type, seq |-> Size(d, "op"), span |-> span, data |-> data]
<1>0. DOMAIN d = CbFields /\ DOMAIN d.tab = Tables BY DEF Formed, Shaped
<1>1. CASE Full(d, "rec")
  <2>1. e = Failed(Unsupported(d)) BY <1>1 DEF Record
  <2>2. Continues(d, Unsupported(d)) /\ ~Usable(Unsupported(d)) /\ Unsupported(d).tab = d.tab
    BY FlagsFacts
  <2>3. Formed(Unsupported(d)) BY <2>2 DEF Continues
  <2>4. /\ Formed(Failed(Unsupported(d))) /\ ~Usable(Failed(Unsupported(d)))
        /\ Failed(Unsupported(d)).tab = d.tab
    BY <2>2, <2>3, FlagsFacts DEF Continues
  <2>5. /\ DOMAIN Failed(Unsupported(d)) = CbFields
        /\ \A y \in CbFields : y \notin {"failed", "unsupported"} =>
              Failed(Unsupported(d))[y] = d[y]
    BY <1>0 DEF Failed, Unsupported
  <2>. QED BY <1>1, <2>1, <2>4, <2>5 DEF Continues, Size
<1>2. CASE ~Full(d, "rec")
  <2>1. e = Put(d, "rec", r) BY <1>2 DEF Record
  <2>2. DOMAIN r = {"type", "seq", "span", "data"} /\ r.span = span /\ r.seq = Size(d, "op")
    OBVIOUS
  <2>. HIDE DEF r, e
  <2>3. /\ DOMAIN e = CbFields /\ DOMAIN e.tab = Tables
        /\ \A u \in Tables : u # "rec" => e.tab[u] = d.tab[u] /\ Size(e, u) = Size(d, u)
        /\ e.tab["rec"] = Append(d.tab["rec"], r)
        /\ Size(e, "rec") = Size(d, "rec") + 1
        /\ \A y \in CbFields : y # "tab" => e[y] = d[y]
        /\ Usable(e) = Usable(d) /\ PassOK(e)
    BY <2>1, PutFacts, TableNames
  <2>4. Size(d, "rec") \in Nat /\ Size(d, "rec") + 1 <= Room["rec"] /\ IsSeq(d.tab["rec"])
    BY <1>2, SizeFacts, TableNames
  <2>5. IsSeq(e.tab["rec"]) BY <2>3, <2>4, SeqAppended
  <2>6. Shaped(e)
    <3>1. ASSUME NEW u \in Tables PROVE IsSeq(e.tab[u]) /\ Size(e, u) <= Room[u]
      <4>1. CASE u = "rec" BY <2>3, <2>4, <2>5, <4>1
      <4>2. CASE u # "rec" BY <2>3, <4>2, SizeFacts
      <4>. QED BY <4>1, <4>2
    <3>. QED BY <2>3, <3>1 DEF Shaped
  <2>7. ASSUME NEW sp, SpanOK(d, sp) PROVE SpanOK(e, sp)
    <3>1. ASSUME NEW t \in DOMAIN sp, Usable(e) PROVE sp[t][1] + sp[t][2] <= Size(e, t)
      <4>1. t \in Tables /\ sp[t][1] \in Nat /\ sp[t][2] \in Nat BY <2>7 DEF SpanOK
      <4>2. sp[t][1] + sp[t][2] <= Size(d, t) BY <2>3, <2>7, <3>1 DEF SpanOK
      <4>3. CASE t = "rec" BY <2>3, <2>4, <4>1, <4>2, <4>3
      <4>4. CASE t # "rec" BY <2>3, <4>1, <4>2, <4>4
      <4>. QED BY <4>3, <4>4
    <3>. QED BY <2>7, <3>1 DEF SpanOK
  <2>8. e.tab["op"] = d.tab["op"] /\ Size(e, "op") = Size(d, "op") BY <2>3, TableNames
  <2>9. OpsOK(e) BY <2>7, <2>8 DEF Formed, OpsOK, OpOK
  <2>10. SpanOK(d, span)
    <3>1. DOMAIN span \subseteq Tables BY TableNames DEF Takes
    <3>2. ASSUME NEW t \in DOMAIN span
          PROVE  /\ span[t][1] \in Nat /\ span[t][2] \in Nat
                 /\ Usable(d) => span[t][1] + span[t][2] <= Size(d, t)
      <4>1. Size(c, t) \in Nat BY <3>1, SizeFacts
      <4>. QED BY <4>1 DEF Takes
    <3>. QED BY <3>1, <3>2 DEF SpanOK
  <2>11. DOMAIN e.tab["rec"] = 1..(Size(d, "rec") + 1) BY <2>3, <2>5, SeqFacts DEF Size
  <2>12. DOMAIN d.tab["rec"] = 1..Size(d, "rec") BY SizeFacts, TableNames
  <2>13. /\ e.tab["rec"][Size(d, "rec") + 1] = r
         /\ \A n \in 1..Size(d, "rec") : e.tab["rec"][n] = d.tab["rec"][n]
    BY <2>3, <2>4, SeqAppended DEF Size
  <2>14. Size(d, "op") \in Nat BY SizeFacts, TableNames
  <2>15. ASSUME NEW n \in DOMAIN e.tab["rec"] PROVE RecOK(e, e.tab["rec"][n])
    <3>1. CASE n = Size(d, "rec") + 1
      <4>1. e.tab["rec"][n] = r BY <2>13, <3>1
      <4>2. SpanOK(e, span) BY <2>7, <2>10
      <4>. QED BY <2>2, <2>8, <2>14, <4>1, <4>2 DEF RecOK
    <3>2. CASE n # Size(d, "rec") + 1
      <4>1. n \in 1..Size(d, "rec") BY <2>4, <2>11, <3>2
      <4>2. e.tab["rec"][n] = d.tab["rec"][n] BY <2>13, <4>1
      <4>3. RecOK(d, d.tab["rec"][n]) BY <2>12, <4>1 DEF Formed, RecsOK
      <4>. QED BY <2>7, <2>8, <4>2, <4>3 DEF RecOK
    <3>. QED BY <3>1, <3>2
  <2>16. ASSUME NEW m \in DOMAIN e.tab["rec"], NEW n \in DOMAIN e.tab["rec"], m < n
         PROVE  e.tab["rec"][m].seq <= e.tab["rec"][n].seq
    <3>1. m \in 1..Size(d, "rec") BY <2>4, <2>11, <2>16
    <3>2. e.tab["rec"][m] = d.tab["rec"][m] /\ RecOK(d, d.tab["rec"][m])
      BY <2>12, <2>13, <3>1 DEF Formed, RecsOK
    <3>3. CASE n = Size(d, "rec") + 1
      <4>1. e.tab["rec"][n].seq = Size(d, "op") BY <2>2, <2>13, <3>3
      <4>. QED BY <3>2, <4>1 DEF RecOK
    <3>4. CASE n # Size(d, "rec") + 1
      <4>1. n \in 1..Size(d, "rec") BY <2>4, <2>11, <3>4
      <4>2. e.tab["rec"][n] = d.tab["rec"][n] BY <2>13, <4>1
      <4>. QED BY <2>12, <2>16, <3>1, <3>2, <4>1, <4>2 DEF Formed, RecsOK
    <3>. QED BY <3>3, <3>4
  <2>17. RecsOK(e) BY <2>15, <2>16 DEF RecsOK
  <2>18. ASSUME Usable(e), Tiled(c), NEW t \in Shared
         PROVE  Tiles(e.tab["rec"], t, Size(e, t))
    <3>1. Tiles(d.tab["rec"], t, Size(c, t)) BY <2>18 DEF Tiled, Takes
    <3>2. t \in Tables /\ t # "rec" BY TableNames
    <3>3. Size(c, t) \in Nat /\ Size(d, t) \in Nat /\ Size(e, t) = Size(d, t) BY <2>3, <3>2, SizeFacts
    <3>4. Continuing(r.span, t, Size(c, t), Size(d, t))
      <4>1. CASE t \in DOMAIN span
        <5>1. span[t][1] = Size(c, t) /\ span[t][2] \in Nat /\ Size(d, t) = Size(c, t) + span[t][2]
          BY <2>3, <2>18, <4>1 DEF Takes
        <5>2. ~(span[t][2] > 0) => span[t][2] = 0 BY <5>1
        <5>. QED BY <2>2, <3>3, <4>1, <5>1, <5>2 DEF Continuing
      <4>2. CASE t \notin DOMAIN span
        <5>1. Size(d, t) = Size(c, t) BY <2>3, <2>18, <4>2 DEF Takes
        <5>. QED BY <2>2, <4>2, <5>1 DEF Continuing
      <4>. QED BY <4>1, <4>2
    <3>. QED BY <2>3, <2>4, <3>1, <3>3, <3>4, TilesAppended
  <2>19. Formed(e) BY <2>6, <2>9, <2>17 DEF Formed
  <2>20. Usable(d) => Usable(c) BY DEF Takes
  <2>. QED BY <1>2, <2>3, <2>18, <2>19, <2>20 DEF Continues, Tiled, e
<1>. QED BY <1>1, <1>2

\* A record without ranges
LEMMA PlainRecord ==
    ASSUME NEW c, Formed(c), NEW type, NEW data
    PROVE  LET e == Record(c, type, NoSpan, data)
           IN  /\ Continues(c, e)
               /\ \A u \in Tables : u # "rec" => e.tab[u] = c.tab[u] /\ Size(e, u) = Size(c, u)
               /\ DOMAIN e = CbFields
               /\ \A y \in CbFields : y \notin {"tab", "failed", "unsupported"} => e[y] = c[y]
<1>1. Takes(c, c, NoSpan) BY DEF Takes, NoSpan
<1>. QED BY <1>1, RecordFacts

\* The range of the next entry
LEMMA Next1Is ==
    ASSUME NEW c, NEW t
    PROVE  DOMAIN Next1(c, t) = {t} /\ Next1(c, t)[t] = <<Size(c, t), 1>>
BY DEF Next1, NextSpan

\* An entry and the record that takes it
LEMMA EntryAndRecord ==
    ASSUME NEW c, Formed(c), NEW t \in Shared, ~Full(c, t), NEW x, NEW type, NEW data
    PROVE  LET e == Record(Put(c, t, x), type, Next1(c, t), data)
           IN  /\ Continues(c, e)
               /\ Size(e, t) = Size(c, t) + 1
               /\ Usable(e) => ~Full(c, "rec")
               /\ DOMAIN e = CbFields
               /\ \A y \in CbFields : y \notin {"tab", "failed", "unsupported"} => e[y] = c[y]
<1>. DEFINE d == Put(c, t, x)
<1>0. t \in Tables /\ t \notin {"rec", "op"} BY TableNames
<1>1. /\ Formed(d)
      /\ \A u \in Tables : u # t => d.tab[u] = c.tab[u] /\ Size(d, u) = Size(c, u)
      /\ Size(d, t) = Size(c, t) + 1
      /\ \A y \in CbFields : y # "tab" => d[y] = c[y]
      /\ Usable(d) = Usable(c)
  BY <1>0, PutFacts, PutIsFormed
<1>. HIDE DEF d
<1>2. Takes(c, d, Next1(c, t))
  <2>1. d.tab["rec"] = c.tab["rec"] BY <1>0, <1>1, TableNames
  <2>2. PICK sp : sp = Next1(c, t) OBVIOUS
  <2>3. DOMAIN sp = {t} /\ sp[t] = <<Size(c, t), 1>> BY <2>2, Next1Is
  <2>4. sp[t][1] = Size(c, t) /\ sp[t][2] = 1 BY <2>3
  <2>5. \A u \in DOMAIN sp : u = t BY <2>3
  <2>6. Takes(c, d, sp) BY <1>0, <1>1, <2>1, <2>3, <2>4, <2>5, TableNames DEF Takes
  <2>. QED BY <2>2, <2>6
<1>3. Full(d, "rec") = Full(c, "rec") BY <1>0, <1>1, TableNames DEF Full
<1>. QED BY <1>0, <1>1, <1>2, <1>3, RecordFacts DEF d

----------------------------------------------------------------------------
\* The calls without a loop, one by one

\* The fields and tables of a well formed buffer
LEMMA FormedFacts ==
    ASSUME NEW c, Formed(c)
    PROVE  DOMAIN c = CbFields /\ DOMAIN c.tab = Tables /\ PassOK(c)
BY DEF Formed, Shaped

\* No range is in the tables.
LEMMA NothingTaken == ASSUME NEW c PROVE SpanOK(c, NoSpan)
BY DEF SpanOK, NoSpan

\* The range of an entry that was written is in its table.
LEMMA NextInTable ==
    ASSUME NEW c, Formed(c), NEW t \in Tables, NEW d, Usable(d) => Size(d, t) >= Size(c, t) + 1,
           Formed(d)
    PROVE  SpanOK(d, Next1(c, t))
<1>1. PICK sp : sp = Next1(c, t) OBVIOUS
<1>2. DOMAIN sp = {t} /\ sp[t] = <<Size(c, t), 1>> BY <1>1, Next1Is
<1>3. sp[t][1] = Size(c, t) /\ sp[t][2] = 1 /\ \A u \in DOMAIN sp : u = t BY <1>2
<1>4. Size(c, t) \in Nat /\ Size(d, t) \in Nat BY SizeFacts
<1>5. SpanOK(d, sp) BY <1>2, <1>3, <1>4 DEF SpanOK
<1>. QED BY <1>1, <1>5

\* vkCmdBindPipeline keeps the buffer well formed and the tables shared out.
LEMMA BindPipelineStep ==
    ASSUME NEW c, Formed(c), NEW s
    PROVE  Continues(c, BindPipeline(c, s))
<1>0. DOMAIN c = CbFields /\ PassOK(c) BY FormedFacts
<1>1. CASE s.point = "compute"
  <2>. DEFINE d == [c EXCEPT !.cpipe = s.pipe]
  <2>1. /\ DOMAIN d = CbFields /\ d.tab = c.tab /\ d.pass = c.pass
        /\ d.unsupported = c.unsupported /\ d.badSets = c.badSets
    BY <1>0, TableNames
  <2>. HIDE DEF d
  <2>2. Continues(c, d) BY <1>0, <2>1, StateOnly DEF Usable, PassOK
  <2>. QED BY <1>1, <2>2 DEF BindPipeline, d
<1>2. CASE s.point = "graphics"
  <2>. DEFINE d == [c EXCEPT !.gpipe = s.pipe]
  <2>1. /\ DOMAIN d = CbFields /\ d.tab = c.tab /\ d.pass = c.pass
        /\ d.unsupported = c.unsupported /\ d.badSets = c.badSets
    BY <1>0, TableNames
  <2>. HIDE DEF d
  <2>2. Continues(c, d) /\ Formed(d) BY <1>0, <2>1, StateOnly DEF Usable, PassOK, Continues
  <2>3. Continues(d, Record(d, "BIND_PIPELINE", NoSpan, s.pipe)) BY <2>2, PlainRecord
  <2>4. Continues(c, Record(d, "BIND_PIPELINE", NoSpan, s.pipe)) BY <2>2, <2>3, ContinuesTrans
  <2>. QED BY <1>2, <2>4 DEF BindPipeline, d
<1>3. CASE s.point \notin {"compute", "graphics"} BY <1>3, FlagsFacts DEF BindPipeline
<1>. QED BY <1>1, <1>2, <1>3

\* So does vkCmdBindVertexBuffers, which changes the state and records no range,
LEMMA BindVertexBuffersStep ==
    ASSUME NEW c, Formed(c), NEW s
    PROVE  Continues(c, BindVertexBuffers(c, s))
<1>0. DOMAIN c = CbFields /\ PassOK(c) BY FormedFacts
<1>. DEFINE v == [n \in DOMAIN c.vertex |-> IF n >= s.first /\ n < s.first + Len(s.bufs)
                                            THEN s.bufs[n - s.first + 1] ELSE c.vertex[n]]
            d == [c EXCEPT !.vertex = v]
            e == Record(d, "BIND_VERTEX_BUFFERS", NoSpan, <<s.first, Len(s.bufs)>>)
<1>1. BindVertexBuffers(c, s) = IF s.first + Len(s.bufs) > Slots THEN Unsupported(c) ELSE e
  BY DEF BindVertexBuffers
<1>. HIDE DEF v
<1>2. /\ DOMAIN d = CbFields /\ d.tab = c.tab /\ d.pass = c.pass
      /\ d.unsupported = c.unsupported /\ d.badSets = c.badSets
  BY <1>0, TableNames
<1>. HIDE DEF d
<1>3. Continues(c, d) /\ Formed(d) BY <1>0, <1>2, StateOnly DEF Usable, PassOK, Continues
<1>4. Continues(d, e) BY <1>3, PlainRecord
<1>5. Continues(c, e) BY <1>3, <1>4, ContinuesTrans
<1>. HIDE DEF e
<1>. QED BY <1>1, <1>5, FlagsFacts

\* and vkCmdBindIndexBuffer.
LEMMA BindIndexBufferStep ==
    ASSUME NEW c, Formed(c), NEW s
    PROVE  Continues(c, BindIndexBuffer(c, s))
<1>0. DOMAIN c = CbFields /\ PassOK(c) BY FormedFacts
<1>. DEFINE d == [c EXCEPT !.index = [buf |-> s.buf, offset |-> s.offset]]
<1>1. /\ DOMAIN d = CbFields /\ d.tab = c.tab /\ d.pass = c.pass
      /\ d.unsupported = c.unsupported /\ d.badSets = c.badSets
  BY <1>0, TableNames
<1>. HIDE DEF d
<1>2. Continues(c, d) /\ Formed(d) BY <1>0, <1>1, StateOnly DEF Usable, PassOK, Continues
<1>3. Continues(d, Record(d, "BIND_INDEX_BUFFER", NoSpan, s.offset)) BY <1>2, PlainRecord
<1>. QED BY <1>2, <1>3, ContinuesTrans DEF BindIndexBuffer, d

\* append_graphics_dynamic_state writes one entry and its record.
LEMMA SetDynamicStateStep ==
    ASSUME NEW c, Formed(c), NEW s
    PROVE  Continues(c, SetDynamicState(c, s))
<1>1. "dyn" \in Shared BY DEF Shared
<1>2. CASE Full(c, "dyn") \/ s.big BY <1>2, FlagsFacts DEF SetDynamicState
<1>3. CASE ~(Full(c, "dyn") \/ s.big) BY <1>1, <1>3, EntryAndRecord DEF SetDynamicState
<1>. QED BY <1>2, <1>3

\* vkCmdPushConstants changes the constants, then writes one entry and its record.
LEMMA PushConstantsStep ==
    ASSUME NEW c, Formed(c), NEW s
    PROVE  Continues(c, PushConstants(c, s))
<1>0. DOMAIN c = CbFields /\ PassOK(c) BY FormedFacts
<1>. DEFINE kept == IF s.offset + Len(s.words) > PushWords THEN PushWords - s.offset
                    ELSE Len(s.words)
            top == s.offset + kept
            v == [w \in DOMAIN c.pushed |-> IF w \in s.offset..top - 1
                                            THEN s.words[w - s.offset + 1] ELSE c.pushed[w]]
            z == IF top > c.pushSize THEN top ELSE c.pushSize
            d == [c EXCEPT !.pushed = v, !.pushSize = z]
            x == [offset |-> s.offset, size |-> kept, hash |-> SubSeq(s.words, 1, kept)]
            e == Record(Put(d, "push", x), "PUSH_CONSTANTS", Next1(d, "push"), s.stages)
<1>1. PushConstants(c, s) = IF s.offset >= PushWords THEN c
                            ELSE IF Full(d, "push") THEN Unsupported(d) ELSE e
  BY DEF PushConstants
<1>. HIDE DEF kept, v, z, x
<1>2. /\ DOMAIN d = CbFields /\ d.tab = c.tab /\ d.pass = c.pass
      /\ d.unsupported = c.unsupported /\ d.badSets = c.badSets
  BY <1>0, TableNames
<1>. HIDE DEF d
<1>3. Continues(c, d) /\ Formed(d) BY <1>0, <1>2, StateOnly DEF Usable, PassOK, Continues
<1>4. "push" \in Shared BY DEF Shared
<1>5. ~Full(d, "push") => Continues(d, e) BY <1>3, <1>4, EntryAndRecord
<1>6. Continues(d, Unsupported(d)) BY <1>3, FlagsFacts
<1>. HIDE DEF e
<1>. QED BY <1>1, <1>3, <1>5, <1>6, ContinuesTrans, ContinuesSelf

\* append_graphics_rendering_snapshot: a buffer that is usable after it has the entry
\* and the record.
LEMMA WithTargetStep ==
    ASSUME NEW c, Formed(c)
    PROVE  /\ Continues(c, WithTarget(c))
           /\ Usable(WithTarget(c)) => ~Full(c, "target") /\ ~Full(c, "rec")
           /\ DOMAIN WithTarget(c) = CbFields
           /\ WithTarget(c).pass = c.pass
<1>1. "target" \in Shared BY DEF Shared
<1>2. CASE Full(c, "target")
  <2>1. WithTarget(c) = Unsupported(c) BY <1>2 DEF WithTarget
  <2>2. DOMAIN Unsupported(c) = CbFields /\ Unsupported(c).pass = c.pass
    BY FormedFacts, TableNames DEF Unsupported
  <2>. QED BY <2>1, <2>2, FlagsFacts
<1>3. CASE ~Full(c, "target")
  <2>. DEFINE e == Record(Put(c, "target", c.target), "BEGIN_RENDERING", Next1(c, "target"),
                          c.target.layers)
  <2>1. WithTarget(c) = e BY <1>3 DEF WithTarget
  <2>2. /\ Continues(c, e) /\ (Usable(e) => ~Full(c, "rec")) /\ DOMAIN e = CbFields
        /\ e["pass"] = c["pass"]
    BY <1>1, <1>3, EntryAndRecord, TableNames
  <2>. QED BY <1>3, <2>1, <2>2
<1>. QED BY <1>2, <1>3

\* vkCmdBeginRendering, also when it marks the buffer as unsupported
LEMMA BeginRenderingStep ==
    ASSUME NEW c, Formed(c), NEW s
    PROVE  Continues(c, BeginRendering(c, s))
<1>0. DOMAIN c = CbFields BY FormedFacts
<1>. DEFINE d == [c EXCEPT !.rendering = TRUE, !.inPass = FALSE, !.pass = None,
                           !.target = s.target, !.unsupported = @ \/ s.odd]
<1>1. /\ DOMAIN d = CbFields /\ d.tab = c.tab /\ d.pass = None
      /\ d.unsupported = (c.unsupported \/ s.odd) /\ d.badSets = c.badSets
  BY <1>0, TableNames
<1>. HIDE DEF d
<1>2. Usable(d) => Usable(c) BY <1>1 DEF Usable
<1>3. PassOK(d) BY <1>1 DEF PassOK
<1>4. Continues(c, d) /\ Formed(d) BY <1>1, <1>2, <1>3, StateOnly DEF Continues
<1>5. Continues(d, WithTarget(d)) BY <1>4, WithTargetStep
<1>. QED BY <1>4, <1>5, ContinuesTrans DEF BeginRendering, d

\* vkCmdEndRendering
LEMMA EndRenderingStep ==
    ASSUME NEW c, Formed(c)
    PROVE  Continues(c, EndRendering(c))
<1>. DEFINE e == Record(c, "END_RENDERING", NoSpan, None)
            d == [e EXCEPT !.rendering = FALSE, !.target = NoTarget]
<1>1. Continues(c, e) BY PlainRecord
<1>2. Formed(e) /\ DOMAIN e = CbFields /\ PassOK(e) BY <1>1, FormedFacts DEF Continues
<1>. HIDE DEF e
<1>3. /\ DOMAIN d = CbFields /\ d.tab = e.tab /\ d.pass = e.pass
      /\ d.unsupported = e.unsupported /\ d.badSets = e.badSets
  BY <1>2, TableNames
<1>. HIDE DEF d
<1>4. Continues(e, d) BY <1>2, <1>3, StateOnly DEF Usable, PassOK
<1>5. Continues(c, d) BY <1>1, <1>4, ContinuesTrans
<1>. QED BY <1>5 DEF EndRendering, d, e

\* record_graphics_draw_command, with its refusals: an entry, its record and its operation
LEMMA DrawStep ==
    ASSUME NEW c, Formed(c), NEW s
    PROVE  Continues(c, Draw(c, s))
<1>. DEFINE type == IF s.indexed THEN "DRAW_INDEXED" ELSE "DRAW"
<1>1. PICK d : d = IF DrawIsWrong(c, s) THEN Unsupported(c) ELSE c OBVIOUS
<1>2. Continues(c, d) /\ Formed(d) BY <1>1, FlagsFacts, ContinuesSelf DEF Continues
<1>3. PICK x : x = Snapshot(d, s) OBVIOUS
<1>4. PICK e : e = Record(Put(d, "draw", x), type, Next1(d, "draw"), d.gpipe) OBVIOUS
<1>5. Draw(c, s) = IF Full(d, "draw") THEN Unsupported(d)
                   ELSE Op(e, "draw", Next1(d, "draw"), None)
  BY <1>1, <1>3, <1>4 DEF Draw
<1>6. "draw" \in Shared /\ "draw" \in Tables BY DEF Shared, Tables
<1>. HIDE DEF type
<1>7. CASE Full(d, "draw") BY <1>2, <1>5, <1>7, FlagsFacts, ContinuesTrans
<1>8. CASE ~Full(d, "draw")
  <2>1. Continues(d, e) /\ Size(e, "draw") = Size(d, "draw") + 1
    BY <1>2, <1>4, <1>6, <1>8, EntryAndRecord
  <2>2. Formed(e) BY <2>1 DEF Continues
  <2>3. Size(e, "draw") \in Nat BY <1>6, <2>2, SizeFacts
  <2>4. SpanOK(e, Next1(d, "draw")) BY <1>2, <1>6, <2>1, <2>2, <2>3, NextInTable
  <2>5. Continues(e, Op(e, "draw", Next1(d, "draw"), None)) BY <2>2, <2>4, OpFacts
  <2>6. Continues(c, e) BY <1>2, <2>1, ContinuesTrans
  <2>. QED BY <1>5, <1>8, <2>5, <2>6, ContinuesTrans
<1>. QED BY <1>7, <1>8

\* vkCmdSetEvent and vkCmdResetEvent: an operation without a range
LEMMA SetEventStep ==
    ASSUME NEW c, Formed(c), NEW s
    PROVE  Continues(c, SetEvent(c, s))
BY NothingTaken, OpFacts DEF SetEvent

\* vkCmdNextSubpass marks the buffer only.
LEMMA NextSubpassStep ==
    ASSUME NEW c, Formed(c)
    PROVE  Continues(c, NextSubpass(c))
BY FlagsFacts DEF NextSubpass

\* vkCmdFillBuffer and vkCmdUpdateBuffer: an operation without a range, or nothing
LEMMA FillOrUpdateStep ==
    ASSUME NEW c, Formed(c), NEW s
    PROVE  Continues(c, FillOrUpdate(c, s))
<1>1. CASE s.bound /\ s.bytes > 0 BY <1>1, NothingTaken, OpFacts DEF FillOrUpdate
<1>2. CASE ~(s.bound /\ s.bytes > 0) BY <1>2, ContinuesSelf DEF FillOrUpdate
<1>. QED BY <1>1, <1>2

\* An entry of a table that records do not share, and the operation that has it
LEMMA EntryAndOp ==
    ASSUME NEW c, Formed(c), NEW t \in Tables \ Shared, t \notin {"rec", "op"}, ~Full(c, t), NEW x,
           NEW type, NEW data
    PROVE  Continues(c, Op(Put(c, t, x), type, Next1(c, t), data))
<1>1. PICK d : d = Put(c, t, x) OBVIOUS
<1>2. /\ Formed(d)
      /\ \A u \in Tables : u # t => d.tab[u] = c.tab[u] /\ Size(d, u) = Size(c, u)
      /\ Size(d, t) = Size(c, t) + 1
      /\ Usable(d) = Usable(c)
  BY <1>1, PutFacts, PutIsFormed
<1>3. Tiled(c) => Tiled(d) BY <1>2, TableNames DEF Tiled
<1>4. Continues(c, d) BY <1>2, <1>3 DEF Continues
<1>5. Size(d, t) \in Nat BY <1>2, SizeFacts
<1>6. SpanOK(d, Next1(c, t)) BY <1>2, <1>5, NextInTable
<1>7. Continues(d, Op(d, type, Next1(c, t), data)) BY <1>2, <1>6, OpFacts
<1>. QED BY <1>1, <1>4, <1>7, ContinuesTrans

\* vkCmdDispatch, which may mark the sets as bad before it writes its entry
LEMMA DispatchStep ==
    ASSUME NEW c, Formed(c), NEW s
    PROVE  Continues(c, Dispatch(c, s))
<1>0. DOMAIN c = CbFields /\ PassOK(c) BY FormedFacts
<1>2. PICK d : d = [c EXCEPT !.badSets = @ \/ ~LayoutsFit(c)] OBVIOUS
<1>3. PICK x : x = [pipe |-> d.cpipe, sets |-> d.csets, pushed |-> d.pushed,
                    groups |-> s.groups, indirect |-> s.indirect] OBVIOUS
<1>4. Dispatch(c, s) = IF Full(d, "dispatch") THEN d
                       ELSE Op(Put(d, "dispatch", x), "dispatch", Next1(d, "dispatch"), None)
  BY <1>2, <1>3 DEF Dispatch
<1>5. /\ DOMAIN d = CbFields /\ d.tab = c.tab /\ d.pass = c.pass
      /\ d.unsupported = c.unsupported /\ d.badSets = (c.badSets \/ ~LayoutsFit(c))
  BY <1>0, <1>2, TableNames
<1>6. Usable(d) => Usable(c) BY <1>5 DEF Usable
<1>7. Continues(c, d) /\ Formed(d) BY <1>0, <1>5, <1>6, StateOnly DEF PassOK, Continues
<1>8. "dispatch" \in Tables \ Shared BY TableNames
<1>9. ~Full(d, "dispatch") =>
          Continues(d, Op(Put(d, "dispatch", x), "dispatch", Next1(d, "dispatch"), None))
  BY <1>7, <1>8, EntryAndOp
<1>. QED BY <1>4, <1>7, <1>9, ContinuesTrans

\* The query calls: a record and its operation, without a range
LEMMA QueryStep ==
    ASSUME NEW c, Formed(c), NEW s
    PROVE  Continues(c, Query(c, s))
<1>1. PICK e : e = Record(c, s.type, NoSpan, None) OBVIOUS
<1>2. Continues(c, e) /\ Formed(e) BY <1>1, PlainRecord DEF Continues
<1>3. PICK x : x = [number |-> s.number, dst |-> s.dst] OBVIOUS
<1>4. Continues(e, Op(e, s.type, NoSpan, x)) BY <1>2, NothingTaken, OpFacts
<1>5. Continues(c, Op(e, s.type, NoSpan, x)) BY <1>2, <1>4, ContinuesTrans
<1>. QED BY <1>1, <1>2, <1>3, <1>5, ContinuesSelf DEF Query

----------------------------------------------------------------------------
\* Calls that write several tables

\* vkCmdClearAttachments writes three tables under one record.
LEMMA ClearAttachmentsStep ==
    ASSUME NEW c, Formed(c), NEW s, IsSeq(s.atts), IsSeq(s.rects)
    PROVE  Continues(c, ClearAttachments(c, s))
<1>0. DOMAIN c = CbFields /\ DOMAIN c.tab = Tables BY FormedFacts
<1>. DEFINE A == Len(s.atts)   R == Len(s.rects)
<1>1. A \in Nat /\ R \in Nat BY SeqFacts
<1>2. PICK part : part = NextSpan(c, [att |-> A, rect |-> R]) OBVIOUS
<1>3. PICK all : all = NextSpan(c, [clear |-> 1, att |-> A, rect |-> R]) OBVIOUS
<1>4. PICK p : p = Put(c, "clear", part) OBVIOUS
<1>5. PICK d : d = [p EXCEPT !.tab["att"] = @ \o s.atts, !.tab["rect"] = @ \o s.rects] OBVIOUS
<1>6. ClearAttachments(c, s) = IF ~ClearAllowed(c, s) THEN Unsupported(c)
                               ELSE Record(d, "CLEAR_ATTACHMENTS", all, None)
  BY <1>2, <1>3, <1>4, <1>5 DEF ClearAttachments
<1>7. CASE ~ClearAllowed(c, s) BY <1>6, <1>7, FlagsFacts
<1>8. CASE ClearAllowed(c, s)
  <2>1. /\ "clear" \in Shared /\ "clear" \in Tables /\ "att" \in Shared /\ "att" \in Tables
        /\ "rect" \in Shared /\ "rect" \in Tables
    BY DEF Shared, Tables
  <2>2. /\ Size(c, "att") + A <= Room["att"] /\ Size(c, "rect") + R <= Room["rect"]
        /\ ~Full(c, "clear")
    BY <1>8 DEF ClearAllowed
  <2>3. /\ Formed(p) /\ DOMAIN p = CbFields /\ DOMAIN p.tab = Tables
        /\ \A u \in Tables : u # "clear" => p.tab[u] = c.tab[u] /\ Size(p, u) = Size(c, u)
        /\ Size(p, "clear") = Size(c, "clear") + 1
        /\ Usable(p) = Usable(c) /\ PassOK(p)
    BY <1>4, <2>1, <2>2, PutFacts, PutIsFormed
  <2>4. /\ DOMAIN d = CbFields /\ DOMAIN d.tab = Tables
        /\ d.tab["att"] = p.tab["att"] \o s.atts
        /\ d.tab["rect"] = p.tab["rect"] \o s.rects
        /\ \A u \in Tables : u \notin {"att", "rect"} => d.tab[u] = p.tab[u]
        /\ d.pass = p.pass /\ d.unsupported = p.unsupported /\ d.badSets = p.badSets
    BY <1>5, <2>1, <2>3, TableNames
  <2>5. /\ IsSeq(d.tab["att"]) /\ Size(d, "att") = Size(c, "att") + A
        /\ IsSeq(d.tab["rect"]) /\ Size(d, "rect") = Size(c, "rect") + R
    <3>1. IsSeq(p.tab["att"]) /\ IsSeq(p.tab["rect"]) BY <2>1, <2>3, SizeFacts
    <3>2. Len(p.tab["att"]) = Size(c, "att") /\ Len(p.tab["rect"]) = Size(c, "rect")
      BY <2>1, <2>3 DEF Size
    <3>3. IsSeq(d.tab["att"]) /\ Len(d.tab["att"]) = Len(p.tab["att"]) + A
      BY <2>4, <3>1, SeqJoined
    <3>4. IsSeq(d.tab["rect"]) /\ Len(d.tab["rect"]) = Len(p.tab["rect"]) + R
      BY <2>4, <3>1, SeqJoined
    <3>. QED BY <3>2, <3>3, <3>4 DEF Size
  <2>6. \A u \in Tables : u \notin {"att", "rect"} => Size(d, u) = Size(p, u) BY <2>4 DEF Size
  <2>7. ASSUME NEW u \in Tables
        PROVE  IsSeq(d.tab[u]) /\ Size(p, u) <= Size(d, u) /\ Size(d, u) <= Room[u]
    <3>1. Size(p, u) \in Nat /\ Size(p, u) <= Room[u] /\ IsSeq(p.tab[u]) BY <2>3, SizeFacts
    <3>2. CASE u = "att" BY <1>1, <2>2, <2>3, <2>5, <3>1, <3>2
    <3>3. CASE u = "rect" BY <1>1, <2>2, <2>3, <2>5, <3>1, <3>3
    <3>4. CASE u \notin {"att", "rect"} BY <2>4, <2>6, <3>1, <3>4
    <3>. QED BY <3>2, <3>3, <3>4
  <2>8. Usable(d) = Usable(c) /\ PassOK(d) BY <2>3, <2>4 DEF Usable, PassOK
  <2>9. d.tab["rec"] = p.tab["rec"] /\ d.tab["op"] = p.tab["op"] BY <2>4, TableNames
  <2>10. Formed(d) BY <2>3, <2>4, <2>7, <2>8, <2>9, GrownIsFormed
  <2>11. Takes(c, d, all)
    <3>1. DOMAIN all = {"clear", "att", "rect"} BY <1>3 DEF NextSpan
    <3>2. /\ all["clear"][1] = Size(c, "clear") /\ all["clear"][2] = 1
          /\ all["att"][1] = Size(c, "att") /\ all["att"][2] = A
          /\ all["rect"][1] = Size(c, "rect") /\ all["rect"][2] = R
      BY <1>3 DEF NextSpan
    <3>3. d.tab["rec"] = c.tab["rec"] BY <2>3, <2>9, TableNames
    <3>4. Size(d, "clear") = Size(c, "clear") + 1 BY <2>1, <2>3, <2>6
    <3>5. \A t \in Shared \ DOMAIN all : Size(d, t) = Size(c, t)
      BY <2>3, <2>6, <3>1, TableNames
    <3>6. ASSUME NEW t \in DOMAIN all
          PROVE  all[t][1] = Size(c, t) /\ all[t][2] \in Nat
                 /\ Size(d, t) = Size(c, t) + all[t][2]
      <4>1. CASE t = "clear" BY <3>2, <3>4, <4>1
      <4>2. CASE t = "att" BY <1>1, <2>5, <3>2, <4>2
      <4>3. CASE t = "rect" BY <1>1, <2>5, <3>2, <4>3
      <4>. QED BY <3>1, <4>1, <4>2, <4>3
    <3>. QED BY <2>1, <2>8, <3>1, <3>3, <3>5, <3>6 DEF Takes
  <2>. QED BY <1>6, <1>8, <2>10, <2>11, RecordFacts
<1>. QED BY <1>7, <1>8

\* vkCmdBindDescriptorSets: offsets and a binding under one record, or a mark
LEMMA BindDescriptorSetsStep ==
    ASSUME NEW c, Formed(c), NEW s, IsSeq(s.offsets)
    PROVE  Continues(c, BindDescriptorSets(c, s))
<1>0. DOMAIN c = CbFields /\ DOMAIN c.tab = Tables /\ PassOK(c) BY FormedFacts
<1>. DEFINE N == Len(s.offsets)
<1>1. N \in Nat BY SeqFacts
<1>2. /\ "bind" \in Shared /\ "bind" \in Tables /\ "offset" \in Shared /\ "offset" \in Tables
  BY DEF Shared, Tables
<1>3. PICK g : g = GraphicsOffsets(c, s) OBVIOUS
<1>4. PICK k : k = [g EXCEPT !.gsets = BoundSets(@, s)] OBVIOUS
<1>5. PICK d : d = [k EXCEPT !.badSets = @ \/ ~SetsFit(s)] OBVIOUS
<1>6. PICK span : span = NextSpan(c, [bind |-> 1, offset |-> N]) OBVIOUS
<1>7. PICK p : p = Put(d, "bind", d.gsets) OBVIOUS
<1>8. PICK e : e = Record(p, "BIND_DESCRIPTOR_SETS", span, <<s.first, Len(s.sets)>>) OBVIOUS
<1>9. PICK y : y = [c EXCEPT !.csets = BoundSets(@, s)] OBVIOUS
<1>10. PICK z : z = [y EXCEPT !.badSets = @ \/ ~SetsFit(s)] OBVIOUS
<1>11. BindDescriptorSets(c, s) =
          IF s.sets = <<>> THEN c
          ELSE CASE s.point = "compute" -> z
                 [] s.point = "graphics" -> IF Full(d, "bind") THEN [d EXCEPT !.badSets = TRUE] ELSE e
                 [] OTHER -> [c EXCEPT !.badSets = TRUE]
  BY <1>3, <1>4, <1>5, <1>6, <1>7, <1>8, <1>9, <1>10 DEF BindDescriptorSets
<1>12. Continues(c, z)
  <2>1. /\ DOMAIN y = CbFields /\ y.tab = c.tab /\ y.pass = c.pass
        /\ y.unsupported = c.unsupported /\ y.badSets = c.badSets
    BY <1>0, <1>9, TableNames
  <2>2. /\ DOMAIN z = CbFields /\ z.tab = c.tab /\ z.pass = c.pass
        /\ z.unsupported = c.unsupported /\ z.badSets = (c.badSets \/ ~SetsFit(s))
    BY <1>10, <2>1, TableNames
  <2>3. Usable(z) => Usable(c) BY <2>2 DEF Usable
  <2>. QED BY <1>0, <2>2, <2>3, StateOnly DEF PassOK
<1>13. ASSUME NEW b, DOMAIN b = CbFields, Formed(b), Continues(c, b)
       PROVE  Continues(c, [b EXCEPT !.badSets = TRUE])
  <2>1. PICK x : x = [b EXCEPT !.badSets = TRUE] OBVIOUS
  <2>2. DOMAIN x = CbFields /\ x.tab = b.tab /\ x.pass = b.pass /\ x.badSets = TRUE
    BY <1>13, <2>1, TableNames
  <2>3. PassOK(b) BY <1>13, FormedFacts
  <2>4. Continues(b, x) BY <1>13, <2>2, <2>3, StateOnly DEF Usable, PassOK
  <2>. QED BY <1>13, <2>1, <2>4, ContinuesTrans
<1>14. /\ Formed(d) /\ DOMAIN d = CbFields /\ (Usable(d) => Usable(c))
       /\ d.tab["rec"] = c.tab["rec"]
       /\ \A u \in Tables : u # "offset" => Size(d, u) = Size(c, u)
       /\ Usable(d) => Size(d, "offset") = Size(c, "offset") + N
       /\ ~(N > Room["offset"] - Size(c, "offset")) \/ ~Usable(d)
  <2>0. /\ Size(c, "offset") \in Nat /\ Room["offset"] \in Nat /\ IsSeq(c.tab["offset"])
        /\ Size(c, "offset") <= Room["offset"]
    BY <1>2, SizeFacts
  <2>1. ASSUME DOMAIN g = CbFields
        PROVE  /\ DOMAIN d = CbFields /\ d.tab = g.tab /\ d.pass = g.pass
               /\ d.unsupported = g.unsupported /\ d.badSets = (g.badSets \/ ~SetsFit(s))
    <3>1. /\ DOMAIN k = CbFields /\ k.tab = g.tab /\ k.pass = g.pass
          /\ k.unsupported = g.unsupported /\ k.badSets = g.badSets
      BY <1>4, <2>1, TableNames
    <3>. QED BY <1>5, <3>1, TableNames
  <2>2. CASE N > Room["offset"] - Size(c, "offset")
    <3>1. g = [c EXCEPT !.badSets = TRUE] BY <1>3, <2>2 DEF GraphicsOffsets
    <3>2. DOMAIN g = CbFields /\ g.tab = c.tab /\ g.pass = c.pass /\ g.badSets = TRUE
      BY <1>0, <3>1, TableNames
    <3>3. d.tab = c.tab /\ ~Usable(d) /\ PassOK(d) /\ DOMAIN d = CbFields
      BY <1>0, <2>1, <3>2 DEF Usable, PassOK
    <3>4. Formed(d) BY <3>3, StateOnly DEF Continues
    <3>. QED BY <3>3, <3>4 DEF Size
  <2>3. CASE ~(N > Room["offset"] - Size(c, "offset"))
    <3>1. g = [c EXCEPT !.tab["offset"] = @ \o s.offsets] BY <1>3, <2>3 DEF GraphicsOffsets
    <3>2. /\ DOMAIN g = CbFields /\ DOMAIN g.tab = Tables /\ g.pass = c.pass
          /\ g.unsupported = c.unsupported /\ g.badSets = c.badSets
          /\ g.tab["offset"] = c.tab["offset"] \o s.offsets
          /\ \A u \in Tables : u # "offset" => g.tab[u] = c.tab[u]
      BY <1>0, <1>2, <3>1, TableNames
    <3>3. /\ DOMAIN d = CbFields /\ d.tab = g.tab /\ (Usable(d) => Usable(c)) /\ PassOK(d)
      BY <1>0, <2>1, <3>2 DEF Usable, PassOK
    <3>4. IsSeq(g.tab["offset"]) /\ Len(g.tab["offset"]) = Size(c, "offset") + N
      BY <2>0, <3>2, SeqJoined DEF Size
    <3>5. Size(d, "offset") = Size(c, "offset") + N BY <3>3, <3>4 DEF Size
    <3>6. \A u \in Tables : u # "offset" => Size(d, u) = Size(c, u) /\ d.tab[u] = c.tab[u]
      BY <3>2, <3>3 DEF Size
    <3>7. ASSUME NEW u \in Tables
          PROVE  IsSeq(d.tab[u]) /\ Size(c, u) <= Size(d, u) /\ Size(d, u) <= Room[u]
      <4>1. CASE u = "offset" BY <1>1, <2>0, <2>3, <3>3, <3>4, <3>5, <4>1
      <4>2. CASE u # "offset"
        <5>1. Size(c, u) \in Nat /\ Size(c, u) <= Room[u] /\ IsSeq(c.tab[u]) BY SizeFacts
        <5>. QED BY <3>6, <4>2, <5>1
      <4>. QED BY <4>1, <4>2
    <3>8. d.tab["rec"] = c.tab["rec"] /\ d.tab["op"] = c.tab["op"] BY <3>6, TableNames
    <3>9. DOMAIN d.tab = Tables BY <3>2, <3>3
    <3>10. Formed(d) BY <3>3, <3>7, <3>8, <3>9, GrownIsFormed
    <3>. QED BY <2>3, <3>3, <3>5, <3>6, <3>8, <3>10
  <2>. QED BY <2>2, <2>3
<1>15. CASE Full(d, "bind")
  <2>1. PICK x : x = [d EXCEPT !.badSets = TRUE] OBVIOUS
  <2>2. DOMAIN x = CbFields /\ x.tab = d.tab /\ x.pass = d.pass /\ x.badSets = TRUE
    BY <1>14, <2>1, TableNames
  <2>3. PassOK(d) BY <1>14, FormedFacts
  <2>4. ~Usable(x) /\ PassOK(x) BY <2>2, <2>3 DEF Usable, PassOK
  <2>5. Formed(x) BY <1>14, <2>2, <2>4, StateOnly DEF Continues
  <2>6. Continues(c, x) BY <2>4, <2>5 DEF Continues
  <2>. QED BY <1>0, <1>11, <1>12, <1>13, <1>15, <2>1, <2>6, ContinuesSelf
<1>16. CASE ~Full(d, "bind")
  <2>1. /\ Formed(p)
        /\ \A u \in Tables : u # "bind" => p.tab[u] = d.tab[u] /\ Size(p, u) = Size(d, u)
        /\ Size(p, "bind") = Size(d, "bind") + 1
        /\ Usable(p) = Usable(d)
    BY <1>2, <1>7, <1>14, <1>16, PutFacts, PutIsFormed
  <2>2. Takes(c, p, span)
    <3>1. DOMAIN span = {"bind", "offset"} BY <1>6 DEF NextSpan
    <3>2. /\ span["bind"][1] = Size(c, "bind") /\ span["bind"][2] = 1
          /\ span["offset"][1] = Size(c, "offset") /\ span["offset"][2] = N
      BY <1>6 DEF NextSpan
    <3>3. p.tab["rec"] = c.tab["rec"] BY <1>14, <2>1, TableNames
    <3>4. Size(p, "bind") = Size(c, "bind") + 1 BY <1>2, <1>14, <2>1
    <3>5. Usable(p) => Size(p, "offset") = Size(c, "offset") + N BY <1>2, <1>14, <2>1
    <3>6. \A t \in Shared \ DOMAIN span : Size(p, t) = Size(c, t)
      BY <1>14, <2>1, <3>1, TableNames
    <3>7. ASSUME NEW t \in DOMAIN span
          PROVE  span[t][1] = Size(c, t) /\ span[t][2] \in Nat
                 /\ (Usable(p) => Size(p, t) = Size(c, t) + span[t][2])
      <4>1. CASE t = "bind" BY <3>2, <3>4, <4>1
      <4>2. CASE t = "offset" BY <1>1, <3>2, <3>5, <4>2
      <4>. QED BY <3>1, <4>1, <4>2
    <3>. QED BY <1>2, <1>14, <2>1, <3>1, <3>3, <3>6, <3>7 DEF Takes
  <2>3. Continues(c, e) BY <1>8, <2>1, <2>2, RecordFacts
  <2>. QED BY <1>0, <1>11, <1>12, <1>13, <1>16, <2>3, ContinuesSelf
<1>. QED BY <1>15, <1>16

----------------------------------------------------------------------------
\* Barriers

\* The tables of barriers have grown; nothing else that the records share has.
BarrierKinds == {"memory", "buffer", "image"}
Grows(c, d) ==
    /\ Formed(d) /\ (Usable(d) => Usable(c))
    /\ d.tab["rec"] = c.tab["rec"]
    /\ \A t \in Shared \ BarrierKinds : Size(d, t) = Size(c, t)
    /\ \A t \in BarrierKinds : Size(c, t) <= Size(d, t)

\* The barriers' tables are shared by the records.
LEMMA BarrierTables ==
    /\ BarrierKinds \subseteq Shared /\ BarrierKinds \subseteq Tables
    /\ "memory" \in BarrierKinds /\ "buffer" \in BarrierKinds /\ "image" \in BarrierKinds
    /\ "rec" \notin BarrierKinds /\ "op" \notin BarrierKinds
BY DEF BarrierKinds, Shared, Tables

\* A loop without a step
LEMMA GrowsSelf ==
    ASSUME NEW c, Formed(c)
    PROVE  Grows(c, c)
<1>1. \A t \in BarrierKinds : Size(c, t) \in Nat BY BarrierTables, SizeFacts
<1>2. \A t \in BarrierKinds : Size(c, t) <= Size(c, t) BY <1>1
<1>. QED BY <1>2 DEF Grows

\* One barrier after the other
LEMMA GrowsTrans ==
    ASSUME NEW c, Formed(c), NEW d, NEW e, Grows(c, d), Grows(d, e)
    PROVE  Grows(c, e)
<1>1. Formed(d) /\ Formed(e) BY DEF Grows
<1>2. \A t \in BarrierKinds : Size(c, t) \in Nat /\ Size(d, t) \in Nat /\ Size(e, t) \in Nat
  BY <1>1, BarrierTables, SizeFacts
<1>3. \A t \in BarrierKinds : Size(c, t) <= Size(d, t) /\ Size(d, t) <= Size(e, t) BY DEF Grows
<1>4. \A t \in BarrierKinds : Size(c, t) <= Size(e, t) BY <1>2, <1>3
<1>. QED BY <1>4 DEF Grows

\* A change of the flags or of the state
LEMMA StateGrows ==
    ASSUME NEW c, Formed(c), NEW d, Continues(c, d), d.tab = c.tab
    PROVE  Grows(c, d)
<1>1. \A t \in Tables : Size(d, t) = Size(c, t) /\ Size(c, t) \in Nat BY SizeFacts DEF Size
<1>2. \A t \in BarrierKinds : Size(c, t) <= Size(d, t) BY <1>1, BarrierTables
<1>. QED BY <1>1, <1>2, TableNames DEF Grows, Continues

\* A barrier without room only marks the buffer.
LEMMA UnsupportedGrows ==
    ASSUME NEW c, Formed(c)
    PROVE  Grows(c, Unsupported(c)) /\ Grows(c, Failed(Unsupported(c)))
<1>1. /\ Continues(c, Unsupported(c)) /\ Unsupported(c).tab = c.tab /\ Formed(Unsupported(c))
  BY FlagsFacts DEF Continues
<1>2. PICK d : d = Unsupported(c) OBVIOUS
<1>3. Formed(d) /\ Grows(c, d) BY <1>1, <1>2, StateGrows
<1>4. Continues(d, Failed(d)) /\ Failed(d).tab = d.tab BY <1>3, FlagsFacts
<1>5. Grows(d, Failed(d)) BY <1>3, <1>4, StateGrows
<1>6. Grows(c, Failed(d)) BY <1>3, <1>5, GrowsTrans
<1>. QED BY <1>2, <1>3, <1>6

\* A barrier with room is one entry more.
LEMMA PutGrows ==
    ASSUME NEW c, Formed(c), NEW t \in BarrierKinds, ~Full(c, t), NEW x
    PROVE  Grows(c, Put(c, t, x)) /\ Size(Put(c, t, x), t) = Size(c, t) + 1
<1>0. t \in Tables /\ t \notin {"rec", "op"} BY BarrierTables
<1>1. PICK d : d = Put(c, t, x) OBVIOUS
<1>2. /\ Formed(d)
      /\ \A u \in Tables : u # t => d.tab[u] = c.tab[u] /\ Size(d, u) = Size(c, u)
      /\ Size(d, t) = Size(c, t) + 1
      /\ Usable(d) = Usable(c)
  BY <1>0, <1>1, PutFacts, PutIsFormed
<1>3. \A u \in Tables : Size(c, u) \in Nat BY SizeFacts
<1>4. \A u \in BarrierKinds : Size(c, u) <= Size(d, u)
  <2>1. ASSUME NEW u \in BarrierKinds PROVE Size(c, u) <= Size(d, u)
    <3>1. Size(c, u) \in Nat BY <1>3, BarrierTables
    <3>2. CASE u = t BY <1>2, <3>1, <3>2
    <3>3. CASE u # t BY <1>2, <3>1, <3>3, BarrierTables
    <3>. QED BY <3>2, <3>3
  <2>. QED BY <2>1
<1>5. d.tab["rec"] = c.tab["rec"] BY <1>0, <1>2, TableNames
<1>6. \A u \in Shared \ BarrierKinds : Size(d, u) = Size(c, u) BY <1>2, TableNames
<1>7. Grows(c, d) BY <1>2, <1>4, <1>5, <1>6 DEF Grows
<1>. QED BY <1>1, <1>2, <1>7

\* A barrier's operation adds no entry to the tables of barriers.
LEMMA OpGrows ==
    ASSUME NEW c, Formed(c), NEW type, NEW span, SpanOK(c, span), NEW data
    PROVE  Grows(c, Op(c, type, span, data))
<1>1. PICK d : d = Op(c, type, span, data) OBVIOUS
<1>2. /\ Continues(c, d)
      /\ \A u \in Tables : u # "op" => d.tab[u] = c.tab[u] /\ Size(d, u) = Size(c, u)
  BY <1>1, OpFacts
<1>3. \A u \in Tables : Size(c, u) \in Nat BY SizeFacts
<1>4. \A u \in BarrierKinds : Size(c, u) <= Size(d, u) BY <1>2, <1>3, BarrierTables
<1>5. Grows(c, d) BY <1>2, <1>4, TableNames DEF Grows, Continues
<1>. QED BY <1>1, <1>5

\* append_memory_barrier_op
LEMMA MemoryBarrierGrows ==
    ASSUME NEW c, Formed(c), NEW staged
    PROVE  Grows(c, MemoryBarrier(c, staged))
BY BarrierTables, UnsupportedGrows, PutGrows DEF MemoryBarrier

\* append_buffer_barrier_op
LEMMA BufferBarrierGrows ==
    ASSUME NEW c, Formed(c), NEW x, NEW staged
    PROVE  Grows(c, BufferBarrier(c, x, staged))
BY BarrierTables, UnsupportedGrows, PutGrows DEF BufferBarrier

\* append_image_barrier_op, an entry and its operation
LEMMA ImageBarrierGrows ==
    ASSUME NEW c, Formed(c), NEW x, NEW staged
    PROVE  Grows(c, ImageBarrier(c, x, staged))
<1>1. CASE Full(c, "image") BY <1>1, UnsupportedGrows DEF ImageBarrier
<1>2. CASE ~Full(c, "image")
  <2>1. PICK r : r = [image |-> x.image, old |-> x.old, new |-> x.new,
                      range |-> x.range, staged |-> staged] OBVIOUS
  <2>2. PICK d : d = Put(c, "image", r) OBVIOUS
  <2>3. Grows(c, d) /\ Size(d, "image") = Size(c, "image") + 1
    BY <1>2, <2>2, BarrierTables, PutGrows
  <2>4. Formed(d) BY <2>3 DEF Grows
  <2>5. "image" \in Tables /\ Size(d, "image") \in Nat BY <2>4, BarrierTables, SizeFacts
  <2>6. Size(d, "image") >= Size(c, "image") + 1 BY <2>3, <2>5
  <2>7. SpanOK(d, Next1(c, "image")) BY <2>4, <2>5, <2>6, NextInTable
  <2>8. Grows(d, Op(d, "imageBarrier", Next1(c, "image"), None)) BY <2>4, <2>7, OpGrows
  <2>9. ImageBarrier(c, x, staged) = Op(d, "imageBarrier", Next1(c, "image"), None)
    BY <1>2, <2>1, <2>2 DEF ImageBarrier
  <2>. QED BY <2>3, <2>8, <2>9, GrowsTrans
<1>. QED BY <1>1, <1>2

\* A loop over barriers
LEMMA BarriersGrow ==
    ASSUME NEW c, Formed(c), NEW a, NEW kind \in {"memory", "buffer", "image"}, NEW q,
           Len(q) \in Nat, NEW h, Goes(kind, a, h, c, q)
    PROVE  Grows(c, h[Len(q)])
<1>. DEFINE T == {k \in Nat : k \in 0..Len(q) => Grows(c, h[k])}
<1>1. 0 \in T BY GrowsSelf DEF Goes
<1>2. ASSUME NEW k \in T PROVE k + 1 \in T
  <2>1. SUFFICES ASSUME k + 1 \in 0..Len(q) PROVE Grows(c, h[k + 1]) OBVIOUS
  <2>2. k \in Nat /\ k \in 0..Len(q) /\ k + 1 \in 1..Len(q) BY <2>1
  <2>3. Grows(c, h[k]) BY <1>2, <2>2
  <2>4. Formed(h[k]) BY <2>3 DEF Grows
  <2>5. h[k + 1] = Step(kind, a, h[k], q[k + 1]) BY <2>2 DEF Goes
  <2>. HIDE DEF T
  <2>6. Grows(h[k], h[k + 1])
    <3>1. CASE kind = "memory" BY <2>4, <2>5, <3>1, MemoryBarrierGrows DEF Step
    <3>2. CASE kind = "buffer" BY <2>4, <2>5, <3>2, BufferBarrierGrows DEF Step
    <3>3. CASE kind = "image" BY <2>4, <2>5, <3>3, ImageBarrierGrows DEF Step
    <3>. QED BY <3>1, <3>2, <3>3
  <2>. QED BY <2>3, <2>6, GrowsTrans
<1>3. T = Nat BY <1>1, <1>2, Induction
<1>. QED BY <1>3

\* The record of the barriers
LEMMA BarrierRecordFacts ==
    ASSUME NEW c, Formed(c), NEW d, Grows(c, d)
    PROVE  Continues(c, BarrierRecord(c, d))
<1>1. PICK span : span = NextSpan(c, [t \in {"memory", "buffer", "image"} |-> Size(d, t) - Size(c, t)])
  OBVIOUS
<1>2. BarrierRecord(c, d) = IF \A t \in DOMAIN span : span[t][2] = 0 THEN d
                            ELSE Record(d, "BARRIER", span, None)
  BY <1>1 DEF BarrierRecord
<1>3. /\ DOMAIN span = BarrierKinds
      /\ \A t \in BarrierKinds : span[t] = <<Size(c, t), Size(d, t) - Size(c, t)>>
  BY <1>1 DEF NextSpan, BarrierKinds
<1>4. Formed(d) BY DEF Grows
<1>5. \A t \in BarrierKinds : /\ Size(c, t) \in Nat /\ Size(d, t) \in Nat /\ Size(c, t) <= Size(d, t)
                          /\ span[t][1] = Size(c, t) /\ span[t][2] = Size(d, t) - Size(c, t)
  BY <1>3, <1>4, BarrierTables, SizeFacts DEF Grows
<1>6. CASE \A t \in DOMAIN span : span[t][2] = 0
  <2>1. ASSUME NEW t \in BarrierKinds PROVE Size(d, t) = Size(c, t)
    <3>1. span[t][2] = 0 BY <1>3, <1>6
    <3>. QED BY <1>5, <3>1
  <2>2. \A t \in Shared : Size(d, t) = Size(c, t) BY <2>1 DEF Grows
  <2>3. Tiled(c) => Tiled(d) BY <2>2 DEF Tiled, Grows
  <2>. QED BY <1>2, <1>6, <2>3 DEF Continues, Grows
<1>7. CASE ~(\A t \in DOMAIN span : span[t][2] = 0)
  <2>1. \A t \in BarrierKinds : span[t][2] \in Nat /\ Size(d, t) = Size(c, t) + span[t][2] BY <1>5
  <2>2. Takes(c, d, span) BY <1>3, <1>5, <2>1, BarrierTables DEF Takes, Grows
  <2>. QED BY <1>2, <1>4, <1>7, <2>2, RecordFacts
<1>. QED BY <1>6, <1>7

\* All memory barriers of a call
LEMMA MemoryLoopGrows ==
    ASSUME NEW c, Formed(c), NEW a, NEW q, Len(q) \in Nat, DOMAIN q = 1..Len(q)
    PROVE  Grows(c, MemoryLoop(c, a, q))
<1>1. PICK h : Goes("memory", a, h, c, q) /\ h[Len(q)] = MemoryLoop(c, a, q)
  BY MemoryFold
<1>. QED BY <1>1, BarriersGrow

\* All buffer barriers of a call
LEMMA BufferLoopGrows ==
    ASSUME NEW c, Formed(c), NEW a, NEW q, Len(q) \in Nat, DOMAIN q = 1..Len(q)
    PROVE  Grows(c, BufferLoop(c, a, q))
<1>1. PICK h : Goes("buffer", a, h, c, q) /\ h[Len(q)] = BufferLoop(c, a, q)
  BY BufferFold
<1>. QED BY <1>1, BarriersGrow

\* All image barriers of a call
LEMMA ImageLoopGrows ==
    ASSUME NEW c, Formed(c), NEW a, NEW q, Len(q) \in Nat, DOMAIN q = 1..Len(q)
    PROVE  Grows(c, ImageLoop(c, a, q))
<1>1. PICK h : Goes("image", a, h, c, q) /\ h[Len(q)] = ImageLoop(c, a, q)
  BY ImageFold
<1>. QED BY <1>1, BarriersGrow

\* vkCmdPipelineBarrier: the barriers of three kinds and one record that takes them
LEMMA PipelineBarrierStep ==
    ASSUME NEW c, Formed(c), NEW s, s.memory \in Nat, IsSeq(s.bufs), IsSeq(s.images)
    PROVE  Continues(c, PipelineBarrier(c, s))
<1>0. DOMAIN c = CbFields /\ PassOK(c) BY FormedFacts
<1>1. PICK st : st = [c EXCEPT !.unsupported = @ \/ s.odd] OBVIOUS
<1>2. PICK q : q = [n \in 1..s.memory |-> n] OBVIOUS
<1>3. PICK m : m = MemoryLoop(st, s.staged, q) OBVIOUS
<1>4. PICK b : b = BufferLoop(m, s.staged, s.bufs) OBVIOUS
<1>5. PICK i : i = ImageLoop(b, s.staged, s.images) OBVIOUS
<1>6. PipelineBarrier(c, s) = Op(BarrierRecord(c, i), "barrier", NoSpan, None)
  BY <1>1, <1>2, <1>3, <1>4, <1>5
     DEF PipelineBarrier, MemoryLoop, BufferLoop, ImageLoop
<1>7. Grows(c, st)
  <2>1. /\ DOMAIN st = CbFields /\ st.tab = c.tab /\ st.pass = c.pass
        /\ st.unsupported = (c.unsupported \/ s.odd) /\ st.badSets = c.badSets
    BY <1>0, <1>1, TableNames
  <2>2. Continues(c, st) BY <1>0, <2>1, StateOnly DEF Usable, PassOK
  <2>. QED BY <2>1, <2>2, StateGrows
<1>8. Len(q) \in Nat /\ DOMAIN q = 1..Len(q)
  <2>1. q = [n \in 1..s.memory |-> q[n]] BY <1>2
  <2>. QED BY <2>1, SeqMade
<1>9. Formed(st) BY <1>7 DEF Grows
<1>10. Grows(st, m) BY <1>3, <1>8, <1>9, MemoryLoopGrows
<1>11. Formed(m) BY <1>10 DEF Grows
<1>12. Grows(m, b)
  <2>1. Len(s.bufs) \in Nat /\ DOMAIN s.bufs = 1..Len(s.bufs) BY SeqFacts
  <2>. QED BY <1>4, <1>11, <2>1, BufferLoopGrows
<1>13. Formed(b) BY <1>12 DEF Grows
<1>14. Grows(b, i)
  <2>1. Len(s.images) \in Nat /\ DOMAIN s.images = 1..Len(s.images) BY SeqFacts
  <2>. QED BY <1>5, <1>13, <2>1, ImageLoopGrows
<1>15. Grows(c, m) BY <1>7, <1>10, GrowsTrans
<1>16. Grows(c, b) BY <1>12, <1>15, GrowsTrans
<1>17. Grows(c, i) BY <1>14, <1>16, GrowsTrans
<1>18. PICK e : e = BarrierRecord(c, i) OBVIOUS
<1>19. Continues(c, e) /\ Formed(e) BY <1>17, <1>18, BarrierRecordFacts DEF Continues
<1>20. Continues(e, Op(e, "barrier", NoSpan, None)) BY <1>19, NothingTaken, OpFacts
<1>. QED BY <1>6, <1>18, <1>19, <1>20, ContinuesTrans

\* vkCmdWaitEvents: an operation, then the barriers as above
LEMMA WaitEventsStep ==
    ASSUME NEW c, Formed(c), NEW s, s.memory \in Nat, IsSeq(s.bufs), IsSeq(s.images)
    PROVE  Continues(c, WaitEvents(c, s))
<1>1. CASE s.event = None BY <1>1, FlagsFacts DEF WaitEvents
<1>2. CASE s.event # None
  <2>1. PICK d : d = Op(c, "eventWait", NoSpan, s.event) OBVIOUS
  <2>2. Continues(c, d) /\ Formed(d) BY <2>1, NothingTaken, OpFacts DEF Continues
  <2>3. Continues(d, PipelineBarrier(d, s)) BY <2>2, PipelineBarrierStep
  <2>4. WaitEvents(c, s) = PipelineBarrier(d, s) BY <1>2, <2>1 DEF WaitEvents
  <2>. QED BY <2>2, <2>3, <2>4, ContinuesTrans
<1>. QED BY <1>1, <1>2

----------------------------------------------------------------------------
\* Render passes

\* The transitions of a render pass are image barriers, up to the first that fails.
LEMMA TransitionsGrow ==
    ASSUME NEW c, Formed(c), NEW q, IsSeq(q)
    PROVE  LET acc == FoldLeft(Transition, [c |-> c, ok |-> TRUE], q)
           IN  Grows(c, acc.c) /\ DOMAIN acc = {"c", "ok"}
<1>0. Len(q) \in Nat /\ DOMAIN q = 1..Len(q) BY SeqFacts
<1>1. PICK base : base = [c |-> c, ok |-> TRUE] OBVIOUS
<1>2. PICK h : Goes("transition", 0, h, base, q) /\ h[Len(q)] = FoldLeft(Transition, base, q)
  BY <1>0, TransitionFold
<1>. DEFINE T == {k \in Nat : k \in 0..Len(q) => Grows(c, h[k].c) /\ DOMAIN h[k] = {"c", "ok"}}
<1>3. 0 \in T BY <1>1, <1>2, GrowsSelf DEF Goes
<1>4. ASSUME NEW k \in T PROVE k + 1 \in T
  <2>1. SUFFICES ASSUME k + 1 \in 0..Len(q) PROVE Grows(c, h[k + 1].c) /\ DOMAIN h[k + 1] = {"c", "ok"}
    OBVIOUS
  <2>2. k \in Nat /\ k \in 0..Len(q) /\ k + 1 \in 1..Len(q) BY <1>0, <2>1
  <2>3. Grows(c, h[k].c) /\ DOMAIN h[k] = {"c", "ok"} BY <1>4, <2>2
  <2>. HIDE DEF T
  <2>4. PICK acc, t : acc = h[k] /\ t = q[k + 1] OBVIOUS
  <2>5. h[k + 1] = Transition(acc, t) BY <1>2, <2>2, <2>4 DEF Goes, Step
  <2>6. PICK x : x = [image |-> t.view.image, old |-> t.old, new |-> t.new, range |-> t.view.range]
    OBVIOUS
  <2>7. \/ h[k + 1] = [acc EXCEPT !.ok = FALSE]
        \/ h[k + 1] = acc
        \/ h[k + 1] = [acc EXCEPT !.c = ImageBarrier(@, x, TRUE)]
    BY <2>5, <2>6 DEF Transition
  <2>8. Formed(acc.c) BY <2>3, <2>4 DEF Grows
  <2>9. CASE h[k + 1] = [acc EXCEPT !.c = ImageBarrier(@, x, TRUE)]
    <3>1. h[k + 1].c = ImageBarrier(acc.c, x, TRUE) /\ DOMAIN h[k + 1] = {"c", "ok"}
      BY <2>3, <2>4, <2>9
    <3>2. Grows(acc.c, h[k + 1].c) BY <2>8, <3>1, ImageBarrierGrows
    <3>. QED BY <2>3, <2>4, <3>1, <3>2, GrowsTrans
  <2>10. CASE h[k + 1] = acc \/ h[k + 1] = [acc EXCEPT !.ok = FALSE]
    BY <2>3, <2>4, <2>10
  <2>. QED BY <2>7, <2>9, <2>10
<1>5. T = Nat BY <1>3, <1>4, Induction
<1>6. Grows(c, h[Len(q)].c) /\ DOMAIN h[Len(q)] = {"c", "ok"} BY <1>0, <1>5
<1>. QED BY <1>1, <1>2, <1>6

\* The transitions of a pass: without them all the buffer is still well formed.
LEMMA TransitionsFacts ==
    ASSUME NEW c, Formed(c), NEW depends, NEW q, IsSeq(q)
    PROVE  LET acc == Transitions(c, depends, q)
           IN  /\ Formed(acc.c) /\ (Usable(acc.c) => Usable(c))
               /\ acc.ok => Continues(c, acc.c)
<1>1. PICK d : d = IF depends THEN MemoryBarrier(c, TRUE) ELSE c OBVIOUS
<1>2. Grows(c, d) BY <1>1, MemoryBarrierGrows, GrowsSelf
<1>3. Formed(d) BY <1>2 DEF Grows
<1>4. PICK acc : acc = FoldLeft(Transition, [c |-> d, ok |-> TRUE], q) OBVIOUS
<1>5. Grows(d, acc.c) BY <1>3, <1>4, TransitionsGrow
<1>6. Grows(c, acc.c) BY <1>2, <1>5, GrowsTrans
<1>7. PICK e : e = BarrierRecord(c, acc.c) OBVIOUS
<1>8. Continues(c, e) BY <1>6, <1>7, BarrierRecordFacts
<1>9. PICK r : r = [c |-> e, ok |-> e = acc.c \/ ~Full(acc.c, "rec")] OBVIOUS
<1>10. Transitions(c, depends, q) = IF ~acc.ok THEN acc ELSE r
  BY <1>1, <1>4, <1>7, <1>9 DEF Transitions
<1>11. r.c = e BY <1>9
<1>12. Formed(acc.c) /\ (Usable(acc.c) => Usable(c)) BY <1>6 DEF Grows
<1>. QED BY <1>8, <1>10, <1>11, <1>12 DEF Continues

\* The transitions of a pass, one for each attachment that needs one, are a sequence.
LEMMA PassTransitionsSeq ==
    ASSUME NEW p, IsSeq(p.atts), NEW fb, NEW old, NEW new
    PROVE  IsSeq(PassTransitions(p, fb, old, new))
<1>1. Len(p.atts) \in Nat /\ DOMAIN p.atts = 1..Len(p.atts) BY SeqFacts
<1>2. PICK q : q = PassTransitions(p, fb, old, new) OBVIOUS
<1>3. q = [n \in 1..Len(p.atts) |-> q[n]] BY <1>1, <1>2 DEF PassTransitions
<1>. QED BY <1>1, <1>2, <1>3, SeqMade

\* A pass that began hands the tables out; one that did not leaves the buffer
\* well formed, and usable only if it was.
LEMMA BeginRenderPassStep ==
    ASSUME NEW c, Formed(c), NEW s, IsSeq(s.pass.atts)
    PROVE  LET r == BeginRenderPass(c, s)
           IN  /\ Formed(r) /\ (Usable(r) => Usable(c))
               /\ r.rendering => Continues(c, r)
<1>0. DOMAIN c = CbFields /\ PassOK(c) BY FormedFacts
<1>1. PICK now : now = [p |-> s.pass, fb |-> s.fb] OBVIOUS
<1>2. PICK d : d = [c EXCEPT !.unsupported = @ \/ s.odd, !.pass = now] OBVIOUS
<1>3. PICK to : to = PassTarget(s.pass, s.fb, s.layers, s.area) OBVIOUS
<1>4. PICK e : e = [d EXCEPT !.target = to] OBVIOUS
<1>5. PICK q : q = PassTransitions(s.pass, s.fb, "initial", "layout") OBVIOUS
<1>6. PICK acc : acc = Transitions(e, s.pass.begins, q) OBVIOUS
<1>. DEFINE outside(x) == [x EXCEPT !.inPass = TRUE, !.rendering = FALSE]
<1>7. BeginRenderPass(c, s) =
        IF ~PassFits(s) THEN outside(Unsupported(d))
        ELSE IF ~acc.ok \/ Full(acc.c, "target") \/ Full(acc.c, "rec")
        THEN outside(IF acc.ok THEN WithTarget(acc.c) ELSE acc.c)
        ELSE [WithTarget(acc.c) EXCEPT !.rendering = TRUE, !.inPass = FALSE]
  BY <1>1, <1>2, <1>3, <1>4, <1>5, <1>6 DEF BeginRenderPass
<1>8. /\ DOMAIN d = CbFields /\ d.tab = c.tab /\ d.pass = now
      /\ d.unsupported = (c.unsupported \/ s.odd) /\ d.badSets = c.badSets
  BY <1>0, <1>2, TableNames
<1>9. /\ DOMAIN e = CbFields /\ e.tab = c.tab /\ e.pass = now
      /\ e.unsupported = (c.unsupported \/ s.odd) /\ e.badSets = c.badSets
  BY <1>4, <1>8, TableNames
<1>10. PassOK(d) /\ PassOK(e) BY <1>1, <1>8, <1>9 DEF PassOK
<1>11. Continues(c, d) /\ Continues(c, e)
  BY <1>8, <1>9, <1>10, StateOnly DEF Usable
<1>12. Formed(d) /\ Formed(e) /\ (Usable(e) => Usable(c)) BY <1>11 DEF Continues
<1>13. IsSeq(q) BY <1>5, PassTransitionsSeq
<1>14. /\ Formed(acc.c) /\ (Usable(acc.c) => Usable(e))
       /\ acc.ok => Continues(e, acc.c)
  BY <1>6, <1>12, <1>13, TransitionsFacts
<1>15. ASSUME NEW x, Formed(x) PROVE Continues(x, outside(x)) /\ outside(x).rendering = FALSE
  <2>1. PICK y : y = outside(x) OBVIOUS
  <2>2. DOMAIN x = CbFields /\ PassOK(x) BY <1>15, FormedFacts
  <2>3. /\ DOMAIN y = CbFields /\ y.tab = x.tab /\ y.pass = x.pass
        /\ y.unsupported = x.unsupported /\ y.badSets = x.badSets /\ y.rendering = FALSE
    BY <2>1, <2>2 DEF CbFields
  <2>4. Continues(x, y) BY <1>15, <2>2, <2>3, StateOnly DEF Usable, PassOK
  <2>. QED BY <2>1, <2>3, <2>4
<1>16. ASSUME NEW x, Formed(x), Usable(x) => Usable(c)
       PROVE  /\ Formed(outside(x)) /\ (Usable(outside(x)) => Usable(c))
              /\ outside(x).rendering = FALSE
  BY <1>15, <1>16 DEF Continues
<1>17. CASE ~PassFits(s)
  <2>1. Continues(d, Unsupported(d)) BY <1>12, FlagsFacts
  <2>2. PICK x : x = Unsupported(d) OBVIOUS
  <2>3. Formed(x) /\ (Usable(x) => Usable(c)) BY <1>11, <2>1, <2>2 DEF Continues
  <2>4. BeginRenderPass(c, s) = outside(x) BY <1>7, <1>17, <2>2
  <2>. HIDE DEF outside
  <2>. QED BY <1>16, <2>3, <2>4
<1>18. CASE PassFits(s) /\ (~acc.ok \/ Full(acc.c, "target") \/ Full(acc.c, "rec"))
  <2>1. PICK x : x = IF acc.ok THEN WithTarget(acc.c) ELSE acc.c OBVIOUS
  <2>2. Continues(acc.c, WithTarget(acc.c)) BY <1>14, WithTargetStep
  <2>3. Formed(x) /\ (Usable(x) => Usable(c)) BY <1>12, <1>14, <2>1, <2>2 DEF Continues
  <2>4. BeginRenderPass(c, s) = outside(x) BY <1>7, <1>18, <2>1
  <2>. HIDE DEF outside
  <2>. QED BY <1>16, <2>3, <2>4
<1>19. CASE PassFits(s) /\ ~(~acc.ok \/ Full(acc.c, "target") \/ Full(acc.c, "rec"))
  <2>1. PICK x : x = WithTarget(acc.c) OBVIOUS
  <2>2. Continues(acc.c, x) BY <1>14, <2>1, WithTargetStep
  <2>3. Continues(e, x) BY <1>14, <1>19, <2>2, ContinuesTrans
  <2>4. Continues(c, x) BY <1>11, <2>3, ContinuesTrans
  <2>5. PICK y : y = [x EXCEPT !.rendering = TRUE, !.inPass = FALSE] OBVIOUS
  <2>6. Formed(x) BY <2>4 DEF Continues
  <2>7. DOMAIN x = CbFields /\ PassOK(x) BY <2>6, FormedFacts
  <2>8. /\ DOMAIN y = CbFields /\ y.tab = x.tab /\ y.pass = x.pass
        /\ y.unsupported = x.unsupported /\ y.badSets = x.badSets
    BY <2>5, <2>7 DEF CbFields
  <2>9. Continues(x, y) BY <2>6, <2>7, <2>8, StateOnly DEF Usable, PassOK
  <2>10. Continues(c, y) BY <2>4, <2>9, ContinuesTrans
  <2>11. BeginRenderPass(c, s) = y BY <1>7, <1>19, <2>1, <2>5
  <2>. QED BY <2>10, <2>11 DEF Continues
<1>. HIDE DEF outside
<1>. QED BY <1>17, <1>18, <1>19

\* end_render_pass_common, with the transitions to the final layouts or without a pass
LEMMA EndRenderPassStep ==
    ASSUME NEW c, Formed(c)
    PROVE  Continues(c, EndRenderPass(c))
<1>0. PassOK(c) BY FormedFacts
<1>1. PICK d : d = Record(c, "END_RENDERING", NoSpan, None) OBVIOUS
<1>2. Continues(c, d) /\ Formed(d) BY <1>1, PlainRecord DEF Continues
<1>3. PICK q : q = PassTransitions(c.pass.p, c.pass.fb, "layout", "final") OBVIOUS
<1>4. PICK acc : acc = IF c.rendering /\ c.pass # None
                       THEN Transitions(d, c.pass.p.ends, q) ELSE [c |-> d, ok |-> TRUE]
  OBVIOUS
<1>5. PICK r : r = [acc.c EXCEPT !.unsupported = @ \/ ~acc.ok, !.rendering = FALSE,
                                 !.inPass = FALSE, !.pass = None]
  OBVIOUS
<1>6. EndRenderPass(c) = r BY <1>1, <1>3, <1>4, <1>5 DEF EndRenderPass
<1>7. Formed(acc.c) /\ (Usable(acc.c) => Usable(d)) /\ (acc.ok => Continues(d, acc.c))
  <2>1. CASE c.rendering /\ c.pass # None
    <3>1. IsSeq(q) BY <1>0, <1>3, <2>1, PassTransitionsSeq DEF PassOK
    <3>2. acc = Transitions(d, c.pass.p.ends, q) BY <1>4, <2>1
    <3>. QED BY <1>2, <3>1, <3>2, TransitionsFacts
  <2>2. CASE ~(c.rendering /\ c.pass # None)
    <3>1. acc.c = d BY <1>4, <2>2
    <3>. QED BY <1>2, <3>1, ContinuesSelf
  <2>. QED BY <2>1, <2>2
<1>8. PICK x : x = acc.c OBVIOUS
<1>9. DOMAIN x = CbFields BY <1>7, <1>8, FormedFacts
<1>10. /\ DOMAIN r = CbFields /\ r.tab = x.tab /\ r.pass = None
       /\ r.unsupported = (x.unsupported \/ ~acc.ok) /\ r.badSets = x.badSets
  BY <1>5, <1>8, <1>9 DEF CbFields
<1>11. Continues(x, r) BY <1>7, <1>8, <1>10, StateOnly DEF Usable, PassOK
<1>12. Usable(r) => acc.ok BY <1>10 DEF Usable
<1>13. Continues(d, r)
  <2>1. CASE acc.ok BY <1>7, <1>8, <1>11, <2>1, ContinuesTrans
  <2>2. CASE ~acc.ok BY <1>11, <1>12, <2>2 DEF Continues
  <2>. QED BY <2>1, <2>2
<1>. QED BY <1>2, <1>6, <1>13, ContinuesTrans

----------------------------------------------------------------------------
\* Transfers and the beginning of a recording

\* The transfer calls: for each region an entry and its operation, as long as there
\* is room
LEMMA TransferStep ==
    ASSUME NEW c, Formed(c), NEW s, s.kind \in Transfers, IsSeq(s.regions)
    PROVE  Continues(c, Transfer(c, s))
<1>1. PICK a, q : a = s.kind /\ q = s.regions OBVIOUS
<1>2. Len(q) \in Nat /\ DOMAIN q = 1..Len(q) /\ a \in Transfers BY <1>1, SeqFacts
<1>3. Transfer(c, s) = IF s.bound THEN TransferLoop(c, a, q) ELSE c
  BY <1>1 DEF Transfer, TransferLoop
<1>4. PICK h : Goes("transfer", a, h, c, q) /\ h[Len(q)] = TransferLoop(c, a, q)
  BY <1>2, TransferFold
<1>. DEFINE T == {k \in Nat : k \in 0..Len(q) => Continues(c, h[k])}
<1>5. 0 \in T BY <1>4, ContinuesSelf DEF Goes
<1>6. ASSUME NEW k \in T PROVE k + 1 \in T
  <2>1. SUFFICES ASSUME k + 1 \in 0..Len(q) PROVE Continues(c, h[k + 1]) OBVIOUS
  <2>2. k \in Nat /\ k \in 0..Len(q) /\ k + 1 \in 1..Len(q) BY <1>2, <2>1
  <2>3. Continues(c, h[k]) BY <1>6, <2>2
  <2>. HIDE DEF T
  <2>4. PICK d, r : d = h[k] /\ r = q[k + 1] OBVIOUS
  <2>5. h[k + 1] = TransferRegion(d, a, r) BY <1>4, <2>2, <2>4 DEF Goes, Step
  <2>6. Formed(d) BY <2>3, <2>4 DEF Continues
  <2>7. a \in Tables \ Shared /\ a \notin {"rec", "op"} BY <1>2, TableNames
  <2>8. Continues(d, TransferRegion(d, a, r))
    BY <2>6, <2>7, EntryAndOp, ContinuesSelf DEF TransferRegion
  <2>. QED BY <2>3, <2>4, <2>5, <2>8, ContinuesTrans
<1>7. T = Nat BY <1>5, <1>6, Induction
<1>8. Continues(c, TransferLoop(c, a, q)) BY <1>2, <1>4, <1>7
<1>. QED BY <1>3, <1>8, ContinuesSelf

\* vkBeginCommandBuffer: the buffer is blank, except for what it inherits.
LEMMA BeginStep ==
    ASSUME NEW c, NEW s
    PROVE  Formed(Begin(c, s)) /\ Tiled(Begin(c, s))
<1>1. PICK b : b = Blank(c.level) OBVIOUS
<1>2. Formed(b) /\ Tiled(b) BY <1>1, BlankIsFormed
<1>3. DOMAIN b = CbFields /\ PassOK(b) /\ Usable(b) BY <1>1, <1>2, FormedFacts DEF Blank, Usable
<1>4. PICK d : d = [b EXCEPT !.unsupported = s.odd, !.inherited = s.inherits] OBVIOUS
<1>5. DOMAIN d = CbFields /\ d.tab = b.tab /\ d.pass = b.pass BY <1>3, <1>4 DEF CbFields
<1>6. Formed(d) BY <1>2, <1>3, <1>5, StateOnly DEF Continues, PassOK
<1>7. Tiled(d) BY <1>2, <1>5 DEF Tiled, Size
<1>8. Begin(c, s) = d BY <1>1, <1>4 DEF Begin
<1>. QED BY <1>6, <1>7, <1>8

----------------------------------------------------------------------------
\* Copying a secondary buffer

\* The table of the secondary as it is copied, entry by entry
LEMMA RebasedTableFacts ==
    ASSUME NEW c, NEW d, Formed(d), NEW t \in Tables
    PROVE  LET q == RebasedTable(t, c, d)
           IN  /\ IsSeq(q) /\ Len(q) = Size(d, t)
               /\ \A n \in 1..Size(d, t) :
                    q[n] = CASE t = "rec"   -> RebasedRecord(d.tab[t][n], c)
                             [] t = "op"    -> RebasedOp(d.tab[t][n], c)
                             [] t = "clear" -> MovedSpan(d.tab[t][n], c)
                             [] OTHER       -> d.tab[t][n]
<1>1. PICK q : q = RebasedTable(t, c, d) OBVIOUS
<1>2. DOMAIN d.tab[t] = 1..Size(d, t) /\ Size(d, t) \in Nat BY SizeFacts
<1>3. \A n \in 1..Size(d, t) :
        q[n] = CASE t = "rec"   -> RebasedRecord(d.tab[t][n], c)
                 [] t = "op"    -> RebasedOp(d.tab[t][n], c)
                 [] t = "clear" -> MovedSpan(d.tab[t][n], c)
                 [] OTHER       -> d.tab[t][n]
  BY <1>1, <1>2 DEF RebasedTable
<1>4. q = [n \in 1..Size(d, t) |-> q[n]] BY <1>1, <1>2 DEF RebasedTable
<1>5. IsSeq(q) /\ Len(q) = Size(d, t) BY <1>2, <1>4, SeqMade
<1>. QED BY <1>1, <1>3, <1>5

\* The tables after the copy: those of the primary, then those of the secondary
LEMMA MergedTables ==
    ASSUME NEW c, Formed(c), NEW d, Formed(d), RoomFor(c, d)
    PROVE  LET m == Merged(c, d)
           IN  /\ DOMAIN m = CbFields /\ DOMAIN m.tab = Tables
               /\ Usable(m) = Usable(c) /\ PassOK(m)
               /\ \A t \in Tables :
                    /\ IsSeq(m.tab[t]) /\ Size(m, t) = Size(c, t) + Size(d, t)
                    /\ Size(m, t) <= Room[t]
                    /\ DOMAIN m.tab[t] = 1..(Size(c, t) + Size(d, t))
                    /\ \A n \in 1..Size(c, t) : m.tab[t][n] = c.tab[t][n]
                    /\ \A n \in 1..Size(d, t) :
                            m.tab[t][Size(c, t) + n] = RebasedTable(t, c, d)[n]
<1>0. DOMAIN c = CbFields /\ DOMAIN c.tab = Tables /\ PassOK(c) BY FormedFacts
<1>1. PICK x : x = [c EXCEPT !.tab = [t \in Tables |-> @[t] \o RebasedTable(t, c, d)]] OBVIOUS
<1>2. PICK m : m = MergedState(x, d) OBVIOUS
<1>3. Merged(c, d) = m BY <1>1, <1>2 DEF Merged
<1>4. /\ DOMAIN x = CbFields
      /\ x.tab = [t \in Tables |-> c.tab[t] \o RebasedTable(t, c, d)]
      /\ x.unsupported = c.unsupported /\ x.badSets = c.badSets /\ x.pass = c.pass
  BY <1>0, <1>1, TableNames
<1>5. /\ DOMAIN m = CbFields /\ m.tab = x.tab
      /\ m.unsupported = x.unsupported /\ m.badSets = x.badSets /\ m.pass = x.pass
  BY <1>2, <1>4, TableNames DEF MergedState
<1>6. \A t \in Tables : m.tab[t] = c.tab[t] \o RebasedTable(t, c, d) BY <1>4, <1>5
<1>7. DOMAIN m.tab = Tables BY <1>4, <1>5
<1>8. Usable(m) = Usable(c) /\ PassOK(m) BY <1>0, <1>4, <1>5 DEF Usable, PassOK
<1>9. ASSUME NEW t \in Tables
      PROVE  /\ IsSeq(m.tab[t]) /\ Size(m, t) = Size(c, t) + Size(d, t)
             /\ Size(m, t) <= Room[t]
             /\ DOMAIN m.tab[t] = 1..(Size(c, t) + Size(d, t))
             /\ \A n \in 1..Size(c, t) : m.tab[t][n] = c.tab[t][n]
             /\ \A n \in 1..Size(d, t) : m.tab[t][Size(c, t) + n] = RebasedTable(t, c, d)[n]
  <2>1. PICK p, q : p = c.tab[t] /\ q = RebasedTable(t, c, d) OBVIOUS
  <2>2. IsSeq(p) /\ Len(p) = Size(c, t) BY <2>1, SizeFacts DEF Size
  <2>3. IsSeq(q) /\ Len(q) = Size(d, t) BY <2>1, RebasedTableFacts
  <2>4. m.tab[t] = p \o q BY <1>6, <2>1
  <2>5. /\ IsSeq(p \o q) /\ Len(p \o q) = Len(p) + Len(q)
        /\ \A n \in 1..Len(p) : (p \o q)[n] = p[n]
        /\ \A n \in 1..Len(q) : (p \o q)[Len(p) + n] = q[n]
    <3>1. IsSeq(p) /\ IsSeq(q) BY <2>2, <2>3
    <3>. QED BY ONLY <3>1, SeqJoined
  <2>6. DOMAIN (p \o q) = 1..(Len(p) + Len(q)) BY <2>5, SeqFacts
  <2>7. Size(m, t) = Size(c, t) + Size(d, t) BY <2>2, <2>3, <2>4, <2>5 DEF Size
  <2>8. Size(m, t) <= Room[t] BY <2>7 DEF RoomFor
  <2>9. /\ IsSeq(m.tab[t]) /\ DOMAIN m.tab[t] = 1..(Size(c, t) + Size(d, t))
        /\ \A n \in 1..Size(c, t) : m.tab[t][n] = p[n]
        /\ \A n \in 1..Size(d, t) : m.tab[t][Size(c, t) + n] = q[n]
    BY <2>2, <2>3, <2>4, <2>5, <2>6
  <2>. QED BY <2>1, <2>7, <2>8, <2>9
<1>. QED BY <1>3, <1>5, <1>7, <1>8, <1>9

\* The records of two buffers, those of the second moved by the entries of the first
LEMMA TilesJoined ==
    ASSUME NEW p, IsSeq(p), NEW q, IsSeq(q), NEW t, NEW a \in Nat, NEW b \in Nat,
           Tiles(p, t, a), Tiles(q, t, b),
           NEW r, IsSeq(r), Len(r) = Len(p) + Len(q),
           \A k \in 1..Len(p) : r[k] = p[k],
           \A k \in 1..Len(q) : \A x, y \in Nat :
                Continuing(q[k].span, t, x, y) => Continuing(r[Len(p) + k].span, t, a + x, a + y)
    PROVE  Tiles(r, t, a + b)
<1>1. PICK e : Tiling(e, p, t, a) BY DEF Tiles
<1>2. PICK f : Tiling(f, q, t, b) BY DEF Tiles
<1>3. PICK L \in Nat, M \in Nat : L = Len(p) /\ M = Len(q) BY SeqFacts
<1>4. /\ e \in [0..L -> Nat] /\ e[0] = 0 /\ e[L] = a
      /\ \A k \in 1..L : Continuing(p[k].span, t, e[k - 1], e[k])
  BY <1>1, <1>3 DEF Tiling
<1>5. /\ f \in [0..M -> Nat] /\ f[0] = 0 /\ f[M] = b
      /\ \A k \in 1..M : Continuing(q[k].span, t, f[k - 1], f[k])
  BY <1>2, <1>3 DEF Tiling
<1>6. PICK g : g = [k \in 0..(L + M) |-> IF k <= L THEN e[k] ELSE a + f[k - L]] OBVIOUS
<1>7. \A k \in 0..L : g[k] = e[k] BY <1>3, <1>6
<1>8. ASSUME NEW k \in 0..M PROVE g[L + k] = a + f[k]
  <2>1. CASE k = 0
    <3>1. L + k = L /\ L \in 0..L BY <1>3, <2>1
    <3>2. g[L + k] = a BY <1>4, <1>7, <3>1
    <3>3. a + f[k] = a BY <1>5, <2>1
    <3>. QED BY <3>2, <3>3
  <2>2. CASE k # 0
    <3>1. L + k \in 0..(L + M) /\ ~(L + k <= L) /\ (L + k) - L = k BY <1>3, <2>2
    <3>. QED BY <1>6, <3>1
  <2>. QED BY <2>1, <2>2
<1>9. g \in [0..(L + M) -> Nat]
  <2>1. ASSUME NEW k \in 0..(L + M) PROVE g[k] \in Nat
    <3>1. CASE k <= L
      <4>1. k \in 0..L BY <1>3, <2>1, <3>1
      <4>. QED BY <1>4, <1>7, <4>1
    <3>2. CASE ~(k <= L)
      <4>1. k - L \in 0..M /\ L + (k - L) = k BY <1>3, <2>1, <3>2
      <4>2. f[k - L] \in Nat BY <1>5, <4>1
      <4>3. g[k] = a + f[k - L] BY <1>8, <4>1
      <4>. QED BY <4>2, <4>3
    <3>. QED BY <3>1, <3>2
  <2>2. g = [k \in 0..(L + M) |-> g[k]] BY <1>6
  <2>. QED BY <2>1, <2>2
<1>10. g[0] = 0
  <2>1. 0 \in 0..L BY <1>3
  <2>. QED BY <1>4, <1>7, <2>1
<1>11. g[L + M] = a + b
  <2>1. M \in 0..M BY <1>3
  <2>. QED BY <1>5, <1>8, <2>1
<1>12. ASSUME NEW k \in 1..(L + M) PROVE Continuing(r[k].span, t, g[k - 1], g[k])
  <2>1. CASE k <= L
    <3>1. k \in 1..L /\ k \in 0..L /\ k - 1 \in 0..L BY <1>3, <2>1
    <3>2. r[k] = p[k] /\ g[k] = e[k] /\ g[k - 1] = e[k - 1] BY <1>3, <1>7, <3>1
    <3>. QED BY <1>4, <3>1, <3>2
  <2>2. CASE ~(k <= L)
    <3>1. PICK j \in 1..M : k = L + j
      <4>1. k - L \in 1..M /\ L + (k - L) = k BY <1>3, <1>12, <2>2
      <4>. QED BY <4>1
    <3>2. j \in 0..M /\ j - 1 \in 0..M /\ k - 1 = L + (j - 1) BY <1>3, <3>1
    <3>3. f[j - 1] \in Nat /\ f[j] \in Nat BY <1>5, <3>2
    <3>4. Continuing(q[j].span, t, f[j - 1], f[j]) BY <1>5, <3>1
    <3>5. Continuing(r[L + j].span, t, a + f[j - 1], a + f[j]) BY <1>3, <3>1, <3>3, <3>4
    <3>6. g[k - 1] = a + f[j - 1] /\ g[k] = a + f[j] BY <1>8, <3>1, <3>2
    <3>. QED BY <3>1, <3>5, <3>6
  <2>. QED BY <2>1, <2>2
<1>13. Len(r) = L + M BY <1>3
<1>14. Tiling(g, r, t, a + b) BY <1>9, <1>10, <1>11, <1>12, <1>13 DEF Tiling
<1>. QED BY <1>14 DEF Tiles

\* Where the entries of a range are after the copy
LEMMA MovedSpanFacts ==
    ASSUME NEW c, Formed(c), NEW span, DOMAIN span \subseteq Tables,
           \A t \in DOMAIN span : span[t][1] \in Nat /\ span[t][2] \in Nat
    PROVE  LET sp == MovedSpan(span, c)
           IN  /\ DOMAIN sp = DOMAIN span
               /\ \A t \in DOMAIN span : sp[t][1] = span[t][1] + Size(c, t) /\ sp[t][2] = span[t][2]
BY DEF MovedSpan

\* A record and an operation keep their fields when they are copied.
LEMMA RebasedFacts ==
    ASSUME NEW c
    PROVE  /\ \A r : DOMAIN r = {"type", "seq", "span", "data"} =>
                 LET x == RebasedRecord(r, c)
                 IN  /\ DOMAIN x = DOMAIN r /\ x.seq = r.seq + Size(c, "op")
                     /\ x.span = MovedSpan(r.span, c)
           /\ \A o : DOMAIN o = {"type", "span", "data"} =>
                 LET x == RebasedOp(o, c)
                 IN  DOMAIN x = DOMAIN o /\ x.span = MovedSpan(o.span, c)
<1>1. ASSUME NEW r, DOMAIN r = {"type", "seq", "span", "data"}
      PROVE  LET x == RebasedRecord(r, c)
             IN  /\ DOMAIN x = DOMAIN r /\ x.seq = r.seq + Size(c, "op")
                 /\ x.span = MovedSpan(r.span, c)
  <2>1. PICK sp : sp = MovedSpan(r.span, c) OBVIOUS
  <2>2. PICK x : x = [r EXCEPT !.seq = @ + Size(c, "op"), !.span = sp] OBVIOUS
  <2>3. RebasedRecord(r, c) = x BY <2>1, <2>2 DEF RebasedRecord
  <2>4. DOMAIN x = DOMAIN r /\ x.seq = r.seq + Size(c, "op") /\ x.span = sp BY <1>1, <2>2
  <2>. QED BY <2>1, <2>3, <2>4
<1>2. ASSUME NEW o, DOMAIN o = {"type", "span", "data"}
      PROVE  LET x == RebasedOp(o, c)
             IN  DOMAIN x = DOMAIN o /\ x.span = MovedSpan(o.span, c)
  <2>1. PICK sp : sp = MovedSpan(o.span, c) OBVIOUS
  <2>2. PICK x : x = [o EXCEPT !.span = sp] OBVIOUS
  <2>3. RebasedOp(o, c) = x BY <2>1, <2>2 DEF RebasedOp
  <2>4. DOMAIN x = DOMAIN o /\ x.span = sp BY <1>2, <2>2
  <2>. QED BY <2>1, <2>3, <2>4
<1>. QED BY <1>1, <1>2

\* A range of the primary stays in its table, one of the secondary is moved into it.
LEMMA MergedSpans ==
    ASSUME NEW c, Formed(c), NEW d, Formed(d), RoomFor(c, d), Usable(d), NEW m, m = Merged(c, d)
    PROVE  /\ \A span : SpanOK(c, span) => SpanOK(m, span)
           /\ \A span : SpanOK(d, span) => SpanOK(m, MovedSpan(span, c))
<1>1. Usable(m) = Usable(c) /\ \A t \in Tables : Size(m, t) = Size(c, t) + Size(d, t)
  BY MergedTables
<1>2. \A t \in Tables : Size(c, t) \in Nat /\ Size(d, t) \in Nat BY SizeFacts
<1>3. ASSUME NEW span, SpanOK(c, span) PROVE SpanOK(m, span)
  <2>1. ASSUME NEW t \in DOMAIN span, Usable(m) PROVE span[t][1] + span[t][2] <= Size(m, t)
    <3>1. t \in Tables /\ span[t][1] \in Nat /\ span[t][2] \in Nat BY <1>3 DEF SpanOK
    <3>2. span[t][1] + span[t][2] <= Size(c, t) BY <1>1, <1>3, <2>1 DEF SpanOK
    <3>. QED BY <1>1, <1>2, <3>1, <3>2
  <2>. QED BY <1>3, <2>1 DEF SpanOK
<1>4. ASSUME NEW span, SpanOK(d, span) PROVE SpanOK(m, MovedSpan(span, c))
  <2>1. DOMAIN span \subseteq Tables /\ \A t \in DOMAIN span : span[t][1] \in Nat /\ span[t][2] \in Nat
    BY <1>4 DEF SpanOK
  <2>2. PICK sp : sp = MovedSpan(span, c) OBVIOUS
  <2>3. /\ DOMAIN sp = DOMAIN span
        /\ \A t \in DOMAIN span : sp[t][1] = span[t][1] + Size(c, t) /\ sp[t][2] = span[t][2]
    BY <2>1, <2>2, MovedSpanFacts
  <2>4. ASSUME NEW t \in DOMAIN sp
        PROVE  /\ sp[t][1] \in Nat /\ sp[t][2] \in Nat
               /\ sp[t][1] + sp[t][2] <= Size(m, t)
    <3>1. t \in Tables /\ span[t][1] \in Nat /\ span[t][2] \in Nat BY <2>1, <2>3
    <3>2. span[t][1] + span[t][2] <= Size(d, t) BY <1>4, <2>3 DEF SpanOK
    <3>3. sp[t][1] = span[t][1] + Size(c, t) /\ sp[t][2] = span[t][2] BY <2>3
    <3>. QED BY <1>1, <1>2, <3>1, <3>2, <3>3
  <2>5. SpanOK(m, sp) BY <2>1, <2>3, <2>4 DEF SpanOK
  <2>. QED BY <2>2, <2>5
<1>. QED BY <1>3, <1>4

\* A number up to the sum of two is one of the first or one of the second.
LEMMA FirstOrSecond ==
    ASSUME NEW a \in Nat, NEW b \in Nat, NEW n \in 1..(a + b)
    PROVE  n \in 1..a \/ \E k \in 1..b : n = a + k
<1>1. CASE n <= a BY <1>1
<1>2. CASE ~(n <= a)
  <2>1. n - a \in 1..b /\ n = a + (n - a) BY <1>2
  <2>. QED BY <2>1
<1>. QED BY <1>1, <1>2

\* Copying keeps the buffer well formed, and the records share the tables if
\* those of both buffers did.
LEMMA MergedFacts ==
    ASSUME NEW c, Formed(c), NEW d, Formed(d), RoomFor(c, d), Usable(d)
    PROVE  LET m == Merged(c, d)
           IN  Formed(m) /\ Usable(m) = Usable(c) /\ (Tiled(c) /\ Tiled(d) => Tiled(m))
<1>1. PICK m : m = Merged(c, d) OBVIOUS
<1>2. /\ DOMAIN m = CbFields /\ DOMAIN m.tab = Tables
      /\ Usable(m) = Usable(c) /\ PassOK(m)
      /\ \A t \in Tables :
            /\ IsSeq(m.tab[t]) /\ Size(m, t) = Size(c, t) + Size(d, t)
            /\ Size(m, t) <= Room[t]
            /\ DOMAIN m.tab[t] = 1..(Size(c, t) + Size(d, t))
            /\ \A n \in 1..Size(c, t) : m.tab[t][n] = c.tab[t][n]
            /\ \A n \in 1..Size(d, t) : m.tab[t][Size(c, t) + n] = RebasedTable(t, c, d)[n]
  BY <1>1, MergedTables
<1>3. \A t \in Tables : /\ Size(c, t) \in Nat /\ Size(d, t) \in Nat
                        /\ DOMAIN c.tab[t] = 1..Size(c, t) /\ DOMAIN d.tab[t] = 1..Size(d, t)
  BY SizeFacts
<1>4. Shaped(m) BY <1>2 DEF Shaped
<1>5. /\ \A span : SpanOK(c, span) => SpanOK(m, span)
      /\ \A span : SpanOK(d, span) => SpanOK(m, MovedSpan(span, c))
  BY <1>1, MergedSpans
<1>6. PICK S, D, P : S = Size(c, "rec") /\ D = Size(d, "rec") /\ P = Size(c, "op") OBVIOUS
<1>7. /\ S \in Nat /\ D \in Nat /\ P \in Nat /\ Size(d, "op") \in Nat
      /\ Size(m, "op") = P + Size(d, "op")
      /\ DOMAIN m.tab["rec"] = 1..(S + D) /\ DOMAIN c.tab["rec"] = 1..S
      /\ DOMAIN d.tab["rec"] = 1..D
      /\ \A n \in 1..S : m.tab["rec"][n] = c.tab["rec"][n]
      /\ \A n \in 1..D : m.tab["rec"][S + n] = RebasedTable("rec", c, d)[n]
  BY <1>2, <1>3, <1>6, TableNames
<1>71. S \in Nat /\ D \in Nat /\ P \in Nat /\ Size(d, "op") \in Nat BY <1>7
<1>72. \A n \in DOMAIN m.tab["rec"] : n \in 1..(S + D) BY <1>7
<1>8. \A n \in 1..D : RebasedTable("rec", c, d)[n] = RebasedRecord(d.tab["rec"][n], c)
  BY <1>6, TableNames, RebasedTableFacts
<1>9. ASSUME NEW n \in 1..S
      PROVE  RecOK(c, m.tab["rec"][n]) /\ RecOK(m, m.tab["rec"][n])
  <2>1. PICK r : r = m.tab["rec"][n] OBVIOUS
  <2>2. RecOK(c, r) BY <1>7, <2>1 DEF Formed, RecsOK
  <2>3. r.seq \in Nat /\ r.seq <= P BY <1>6, <2>2 DEF RecOK
  <2>4. r.seq <= Size(m, "op") BY <1>7, <2>3
  <2>5. RecOK(m, r) BY <1>5, <2>2, <2>4 DEF RecOK
  <2>. QED BY <2>1, <2>2, <2>5
<1>10. ASSUME NEW n \in 1..D
       PROVE  /\ RecOK(m, m.tab["rec"][S + n])
              /\ d.tab["rec"][n].seq \in Nat
              /\ m.tab["rec"][S + n].seq = d.tab["rec"][n].seq + P
              /\ m.tab["rec"][S + n].span = MovedSpan(d.tab["rec"][n].span, c)
  <2>1. PICK r : r = d.tab["rec"][n] OBVIOUS
  <2>2. RecOK(d, r) BY <1>7, <2>1 DEF Formed, RecsOK
  <2>3. PICK x : x = m.tab["rec"][S + n] OBVIOUS
  <2>4. x = RebasedRecord(r, c) BY <1>7, <1>8, <2>1, <2>3
  <2>5. DOMAIN r = {"type", "seq", "span", "data"} BY <2>2 DEF RecOK
  <2>6. DOMAIN x = {"type", "seq", "span", "data"} /\ x.seq = r.seq + P /\ x.span = MovedSpan(r.span, c)
    BY <1>6, <2>4, <2>5, RebasedFacts
  <2>7. r.seq \in Nat /\ r.seq <= Size(d, "op") BY <2>2 DEF RecOK
  <2>8. x.seq \in Nat /\ x.seq <= Size(m, "op") BY <1>7, <2>6, <2>7
  <2>9. SpanOK(m, x.span) BY <1>5, <2>2, <2>6 DEF RecOK
  <2>10. RecOK(m, x) BY <2>6, <2>8, <2>9 DEF RecOK
  <2>. QED BY <2>1, <2>3, <2>6, <2>7, <2>10
<1>11. RecsOK(m)
  <2>1. ASSUME NEW n \in DOMAIN m.tab["rec"] PROVE RecOK(m, m.tab["rec"][n])
    <3>1. n \in 1..S \/ \E k \in 1..D : n = S + k
      <4>1. n \in 1..(S + D) BY <1>72
      <4>. QED BY <1>71, <4>1, FirstOrSecond
    <3>. QED BY <1>9, <1>10, <3>1
  <2>2. ASSUME NEW i \in DOMAIN m.tab["rec"], NEW j \in DOMAIN m.tab["rec"], i < j
        PROVE  m.tab["rec"][i].seq <= m.tab["rec"][j].seq
    <3>1. i \in 1..S \/ \E k \in 1..D : i = S + k
      <4>1. i \in 1..(S + D) BY <1>72
      <4>. QED BY <1>71, <4>1, FirstOrSecond
    <3>2. j \in 1..S \/ \E k \in 1..D : j = S + k
      <4>1. j \in 1..(S + D) BY <1>72
      <4>. QED BY <1>71, <4>1, FirstOrSecond
    <3>3. CASE i \in 1..S /\ j \in 1..S BY <1>7, <2>2, <3>3 DEF Formed, RecsOK
    <3>4. CASE i \in 1..S /\ \E k \in 1..D : j = S + k
      <4>1. PICK k \in 1..D : j = S + k BY <3>4
      <4>2. m.tab["rec"][i].seq \in Nat /\ m.tab["rec"][i].seq <= P BY <1>6, <1>9, <3>4 DEF RecOK
      <4>3. m.tab["rec"][j].seq = d.tab["rec"][k].seq + P /\ d.tab["rec"][k].seq \in Nat
        BY <1>10, <4>1
      <4>. QED BY <1>71, <4>2, <4>3
    <3>5. CASE (\E k \in 1..D : i = S + k) /\ (\E k \in 1..D : j = S + k)
      <4>1. PICK k \in 1..D, l \in 1..D : i = S + k /\ j = S + l BY <3>5
      <4>2. k < l BY <1>7, <2>2, <4>1
      <4>3. d.tab["rec"][k].seq <= d.tab["rec"][l].seq BY <1>7, <4>2 DEF Formed, RecsOK
      <4>4. /\ m.tab["rec"][i].seq = d.tab["rec"][k].seq + P
            /\ m.tab["rec"][j].seq = d.tab["rec"][l].seq + P
            /\ d.tab["rec"][k].seq \in Nat /\ d.tab["rec"][l].seq \in Nat
        BY <1>10, <4>1
      <4>. QED BY <1>71, <4>3, <4>4
    <3>6. CASE (\E k \in 1..D : i = S + k) /\ j \in 1..S
      <4>1. PICK k \in 1..D : i = S + k BY <3>6
      <4>2. ~(i < j) BY <1>7, <3>6, <4>1
      <4>. QED BY <2>2, <4>2
    <3>. QED BY <3>1, <3>2, <3>3, <3>4, <3>5, <3>6
  <2>. QED BY <2>1, <2>2 DEF RecsOK
<1>12. OpsOK(m)
  <2>1. ASSUME NEW n \in DOMAIN m.tab["op"] PROVE OpOK(m, m.tab["op"][n])
    <3>1. /\ DOMAIN m.tab["op"] = 1..(P + Size(d, "op")) /\ DOMAIN c.tab["op"] = 1..P
          /\ DOMAIN d.tab["op"] = 1..Size(d, "op")
          /\ \A k \in 1..P : m.tab["op"][k] = c.tab["op"][k]
          /\ \A k \in 1..Size(d, "op") : m.tab["op"][P + k] = RebasedTable("op", c, d)[k]
      BY <1>2, <1>3, <1>6, TableNames
    <3>2. n \in 1..P \/ \E k \in 1..Size(d, "op") : n = P + k
      <4>1. n \in 1..(P + Size(d, "op")) BY <3>1
      <4>. QED BY <1>71, <4>1, FirstOrSecond
    <3>3. CASE n \in 1..P
      <4>1. OpOK(c, c.tab["op"][n]) BY <3>1, <3>3 DEF Formed, OpsOK
      <4>. QED BY <1>5, <3>1, <3>3, <4>1 DEF OpOK
    <3>4. CASE \E k \in 1..Size(d, "op") : n = P + k
      <4>1. PICK k \in 1..Size(d, "op") : n = P + k BY <3>4
      <4>2. PICK o : o = d.tab["op"][k] OBVIOUS
      <4>3. OpOK(d, o) BY <3>1, <4>2 DEF Formed, OpsOK
      <4>4. RebasedTable("op", c, d)[k] = RebasedOp(o, c) BY <4>2, TableNames, RebasedTableFacts
      <4>5. m.tab["op"][n] = RebasedOp(o, c) BY <3>1, <4>1, <4>4
      <4>6. PICK x : x = RebasedOp(o, c) OBVIOUS
      <4>7. DOMAIN o = {"type", "span", "data"} BY <4>3 DEF OpOK
      <4>8. DOMAIN x = {"type", "span", "data"} /\ x.span = MovedSpan(o.span, c)
        BY <4>6, <4>7, RebasedFacts
      <4>9. OpOK(m, x) BY <1>5, <4>3, <4>8 DEF OpOK
      <4>. QED BY <4>5, <4>6, <4>9
    <3>. QED BY <3>2, <3>3, <3>4
  <2>. QED BY <2>1 DEF OpsOK
<1>13. ASSUME Tiled(c), Tiled(d), NEW t \in Shared PROVE Tiles(m.tab["rec"], t, Size(m, t))
  <2>1. t \in Tables BY TableNames
  <2>2. PICK a, b : a = Size(c, t) /\ b = Size(d, t) OBVIOUS
  <2>3. a \in Nat /\ b \in Nat /\ Size(m, t) = a + b BY <1>2, <1>3, <2>1, <2>2
  <2>4. PICK p, q, r : p = c.tab["rec"] /\ q = d.tab["rec"] /\ r = m.tab["rec"] OBVIOUS
  <2>5. IsSeq(p) /\ IsSeq(q) /\ IsSeq(r) BY <1>2, <2>4, SizeFacts, TableNames
  <2>6. Tiles(p, t, a) /\ Tiles(q, t, b) BY <1>13, <2>2, <2>4 DEF Tiled
  <2>7. Len(p) = S /\ Len(q) = D /\ Len(r) = S + D
    BY <1>2, <1>6, <2>4, TableNames DEF Size
  <2>8. \A k \in 1..S : r[k] = p[k] BY <1>7, <2>4
  <2>9. ASSUME NEW k \in 1..D, NEW x \in Nat, NEW y \in Nat, Continuing(q[k].span, t, x, y)
        PROVE  Continuing(r[S + k].span, t, a + x, a + y)
    <3>1. PICK sp, span : sp = r[S + k].span /\ span = q[k].span OBVIOUS
    <3>2. sp = MovedSpan(span, c) BY <1>10, <2>4, <3>1
    <3>3. RecOK(d, q[k]) BY <1>7, <2>4 DEF Formed, RecsOK
    <3>4. SpanOK(d, span) BY <3>1, <3>3 DEF RecOK
    <3>5. /\ DOMAIN span \subseteq Tables
          /\ \A u \in DOMAIN span : span[u][1] \in Nat /\ span[u][2] \in Nat
      BY <3>4 DEF SpanOK
    <3>6. /\ DOMAIN sp = DOMAIN span
          /\ \A u \in DOMAIN span : sp[u][1] = span[u][1] + Size(c, u) /\ sp[u][2] = span[u][2]
      BY <3>2, <3>5, MovedSpanFacts
    <3>7. CASE t \in DOMAIN span /\ span[t][2] > 0
      <4>1. span[t][1] = x /\ y = x + span[t][2] BY <2>9, <3>1, <3>7 DEF Continuing
      <4>2. sp[t][1] = x + a /\ sp[t][2] = span[t][2] BY <2>2, <3>6, <3>7, <4>1
      <4>3. sp[t][1] = a + x /\ a + y = (a + x) + sp[t][2] /\ sp[t][2] > 0
        BY <2>3, <3>5, <3>7, <4>1, <4>2
      <4>. QED BY <3>1, <3>6, <3>7, <4>3 DEF Continuing
    <3>8. CASE ~(t \in DOMAIN span /\ span[t][2] > 0)
      <4>1. y = x BY <2>9, <3>1, <3>8 DEF Continuing
      <4>2. ~(t \in DOMAIN sp /\ sp[t][2] > 0) BY <3>6, <3>8
      <4>. QED BY <3>1, <4>1, <4>2 DEF Continuing
    <3>. QED BY <3>7, <3>8
  <2>10. Tiles(r, t, a + b)
    <3>1. \A k \in 1..Len(p) : r[k] = p[k] BY <2>7, <2>8
    <3>2. \A k \in 1..Len(q) : \A x, y \in Nat :
              Continuing(q[k].span, t, x, y) => Continuing(r[Len(p) + k].span, t, a + x, a + y)
      BY <2>7, <2>9
    <3>3. Len(r) = Len(p) + Len(q) BY <2>7
    <3>. QED BY <2>3, <2>5, <2>6, <3>1, <3>2, <3>3, TilesJoined
  <2>. QED BY <2>3, <2>4, <2>10
<1>14. Tiled(c) /\ Tiled(d) => Tiled(m) BY <1>13 DEF Tiled
<1>. QED BY <1>1, <1>2, <1>4, <1>11, <1>12, <1>14 DEF Formed

\* One secondary buffer after the other
LEMMA ExecuteCommandsStep ==
    ASSUME NEW c, Formed(c), NEW ds, IsSeq(ds), \A n \in DOMAIN ds : Formed(ds[n])
    PROVE  LET e == ExecuteCommands(c, ds)
           IN  /\ Formed(e) /\ (Usable(e) => Usable(c))
               /\ Usable(e) /\ Tiled(c) /\ (\A n \in DOMAIN ds : Usable(ds[n]) => Tiled(ds[n]))
                     => Tiled(e)
<1>1. Len(ds) \in Nat /\ DOMAIN ds = 1..Len(ds) BY SeqFacts
<1>2. PICK all : all <=> \A n \in DOMAIN ds : Usable(ds[n]) => Tiled(ds[n]) OBVIOUS
<1>3. PICK base : base = [c |-> c, ok |-> TRUE] OBVIOUS
<1>4. PICK h : Goes("execute", 0, h, base, ds) /\ h[Len(ds)] = FoldLeft(ExecuteOne, base, ds)
  BY <1>1, ExecuteFold
<1>. DEFINE Good(x) == /\ Formed(x) /\ (Usable(x) => Usable(c))
                       /\ Usable(x) /\ Tiled(c) /\ all => Tiled(x)
            T == {k \in Nat : k \in 0..Len(ds) => Good(h[k].c) /\ DOMAIN h[k] = {"c", "ok"}}
<1>5. ASSUME NEW x, Good(x) PROVE Good(Unsupported(x))
  <2>1. Continues(x, Unsupported(x)) /\ ~Usable(Unsupported(x)) BY <1>5, FlagsFacts
  <2>. QED BY <2>1 DEF Continues
<1>6. 0 \in T
  <2>1. h[0] = base BY <1>4 DEF Goes
  <2>2. h[0].c = c /\ DOMAIN h[0] = {"c", "ok"} BY <1>3, <2>1
  <2>. QED BY <2>2
<1>7. ASSUME NEW k \in T PROVE k + 1 \in T
  <2>1. SUFFICES ASSUME k + 1 \in 0..Len(ds)
                 PROVE  Good(h[k + 1].c) /\ DOMAIN h[k + 1] = {"c", "ok"}
    OBVIOUS
  <2>2. k \in Nat /\ k \in 0..Len(ds) /\ k + 1 \in 1..Len(ds) BY <1>1, <2>1
  <2>3. Good(h[k].c) /\ DOMAIN h[k] = {"c", "ok"} BY <1>7, <2>2
  <2>. HIDE DEF T
  <2>4. PICK acc, d, x : acc = h[k] /\ d = ds[k + 1] /\ x = acc.c OBVIOUS
  <2>5. h[k + 1] = ExecuteOne(acc, d) BY <1>4, <2>2, <2>4 DEF Goes, Step
  <2>6. Formed(d) /\ (all => (Usable(d) => Tiled(d))) BY <1>1, <1>2, <2>2, <2>4
  <2>7. CASE ~acc.ok BY <2>3, <2>4, <2>5, <2>7 DEF ExecuteOne
  <2>8. CASE acc.ok /\ Mergeable(x, d)
    <3>1. h[k + 1] = [acc EXCEPT !.c = Merged(@, d)] BY <2>4, <2>5, <2>8 DEF ExecuteOne
    <3>2. h[k + 1].c = Merged(x, d) /\ DOMAIN h[k + 1] = {"c", "ok"} BY <2>3, <2>4, <3>1
    <3>3. RoomFor(x, d) /\ Usable(d) BY <2>8 DEF Mergeable, Usable
    <3>4. Formed(x) BY <2>3, <2>4
    <3>5. PICK m : m = Merged(x, d) OBVIOUS
    <3>6. Formed(m) /\ Usable(m) = Usable(x) /\ (Tiled(x) /\ Tiled(d) => Tiled(m))
      BY <2>6, <3>3, <3>4, <3>5, MergedFacts
    <3>7. Good(m) BY <2>3, <2>4, <2>6, <3>3, <3>6
    <3>. QED BY <3>2, <3>5, <3>7
  <2>9. CASE acc.ok /\ ~Mergeable(x, d)
    <3>1. h[k + 1] = [c |-> Unsupported(x), ok |-> FALSE] BY <2>4, <2>5, <2>9 DEF ExecuteOne
    <3>2. h[k + 1].c = Unsupported(x) /\ DOMAIN h[k + 1] = {"c", "ok"} BY <3>1
    <3>3. Good(x) BY <2>3, <2>4
    <3>. HIDE DEF Good
    <3>. QED BY <1>5, <3>2, <3>3
  <2>. QED BY <2>7, <2>8, <2>9
<1>8. T = Nat BY <1>6, <1>7, Induction
<1>9. Good(h[Len(ds)].c) BY <1>1, <1>8
<1>10. Good(c) OBVIOUS
<1>11. ExecuteCommands(c, ds) = IF ds = <<>> THEN c
                                ELSE IF c.level # "primary" THEN Unsupported(c)
                                ELSE h[Len(ds)].c
  BY <1>3, <1>4 DEF ExecuteCommands
<1>12. Good(ExecuteCommands(c, ds))
  <2>. HIDE DEF Good, T
  <2>. QED BY <1>5, <1>9, <1>10, <1>11
<1>. QED BY <1>2, <1>12

----------------------------------------------------------------------------
\* FlattenSeq

\* The partial results of FlattenSeq, by the same induction as those of a loop
LEMMA FlattenGoes ==
    ASSUME NEW q, IsSeq(q), \A n \in DOMAIN q : IsSeq(q[n])
    PROVE  \E h : Goes("flatten", 0, h, <<>>, q) /\ h[Len(q)] = FlattenSeq(q)
<1>0. Len(q) \in Nat /\ DOMAIN q = 1..Len(q) BY SeqFacts
<1>1. CASE Len(q) = 0
  <2>1. q = <<>> BY <1>1 DEF IsSeq
  <2>2. FlattenSeq(q) = <<>> BY <1>1, <2>1 DEF FlattenSeq
  <2>3. PICK h : h = [k \in Nat |-> <<>>] OBVIOUS
  <2>4. h[0] = <<>> BY <2>3
  <2>5. \A k \in Nat : ~(k + 1 \in 1..Len(q)) BY <1>1
  <2>6. Goes("flatten", 0, h, <<>>, q) BY <2>4, <2>5 DEF Goes
  <2>. QED BY <1>1, <2>2, <2>4, <2>6
<1>2. CASE Len(q) # 0
  <2>. DEFINE P(g) == g = [i \in 1..Len(q) |-> IF i = 1 THEN q[i] ELSE g[i - 1] \o q[i]]
  <2>0. 1 \in 1..Len(q) /\ Len(q) \in 1..Len(q) BY <1>0, <1>2
  <2>1. PICK f : Unfolds("flatten", 0, f, <<>>, q, Len(q)) BY <1>0, UnfoldingExists
  <2>2. PICK e : Goes("flatten", 0, e, <<>>, q) BY <1>0, <2>1, UnfoldingGoes
  <2>3. PICK x : x = [i \in 1..Len(q) |-> e[i]] OBVIOUS
  <2>4. \A k \in Nat : k + 1 \in 1..Len(q) => e[k + 1] = e[k] \o q[k + 1]
    BY <2>2 DEF Goes, Step
  <2>5. <<>> \o q[1] = q[1]
    <3>1. q[1] \in Seq(ToSet(q[1])) BY <1>0, <2>0 DEF IsSeq
    <3>. QED BY <3>1
  <2>6. e[1] = q[1]
    <3>1. e[0] = <<>> BY <2>2 DEF Goes
    <3>2. PICK k \in Nat : k = 0 OBVIOUS
    <3>3. k + 1 = 1 /\ k + 1 \in 1..Len(q) BY <2>0, <3>2
    <3>4. e[k + 1] = e[k] \o q[k + 1] BY <2>4, <3>3
    <3>5. e[1] = <<>> \o q[1] BY <3>1, <3>2, <3>3, <3>4
    <3>. QED BY <2>5, <3>5
  <2>7. ASSUME NEW i \in 1..Len(q) PROVE x[i] = IF i = 1 THEN q[i] ELSE x[i - 1] \o q[i]
    <3>1. CASE i = 1 BY <2>0, <2>3, <2>6, <3>1
    <3>2. CASE i # 1
      <4>1. i - 1 \in Nat /\ i - 1 \in 1..Len(q) /\ (i - 1) + 1 = i BY <1>0, <3>2
      <4>2. e[i] = e[i - 1] \o q[i] BY <2>4, <4>1
      <4>. QED BY <2>3, <3>2, <4>1, <4>2
    <3>. QED BY <3>1, <3>2
  <2>8. P(x) BY <2>3, <2>7
  <2>9. PICK g : g = CHOOSE y : P(y) OBVIOUS
  <2>10. P(g) BY <2>8, <2>9
  <2>11. FlattenSeq(q) = g[Len(q)] BY <1>2, <2>9 DEF FlattenSeq
  <2>12. PICK h : h = [k \in Nat |-> IF k = 0 THEN <<>> ELSE g[k]] OBVIOUS
  <2>13. h[0] = <<>> BY <2>12
  <2>14. h[Len(q)] = FlattenSeq(q) BY <1>0, <1>2, <2>11, <2>12
  <2>15. ASSUME NEW k \in Nat, k + 1 \in 1..Len(q)
         PROVE  h[k + 1] = h[k] \o q[k + 1]
    <3>1. h[k + 1] = g[k + 1] BY <2>12
    <3>2. CASE k = 0
      <4>1. g[k + 1] = q[1] BY <2>0, <2>10, <3>2
      <4>2. q[k + 1] = q[1] /\ h[k] = <<>> BY <2>13, <3>2
      <4>. QED BY <2>5, <3>1, <4>1, <4>2
    <3>3. CASE k # 0
      <4>1. k + 1 # 1 /\ (k + 1) - 1 = k BY <3>3
      <4>2. g[k + 1] = g[k] \o q[k + 1] BY <2>10, <2>15, <4>1
      <4>3. h[k] = g[k] BY <2>12, <3>3
      <4>. QED BY <3>1, <4>2, <4>3
    <3>. QED BY <3>2, <3>3
  <2>16. Goes("flatten", 0, h, <<>>, q) BY <2>13, <2>15 DEF Goes, Step
  <2>. QED BY <2>14, <2>16
<1>. QED BY <1>1, <1>2

\* The result is a sequence, and has every element of every sequence.
LEMMA FlattenFacts ==
    ASSUME NEW q, IsSeq(q), \A n \in DOMAIN q : IsSeq(q[n])
    PROVE  /\ IsSeq(FlattenSeq(q))
           /\ \A n \in DOMAIN q : \A m \in DOMAIN q[n] :
                \E j \in DOMAIN FlattenSeq(q) : FlattenSeq(q)[j] = q[n][m]
<1>0. Len(q) \in Nat /\ DOMAIN q = 1..Len(q) BY SeqFacts
<1>1. PICK h : Goes("flatten", 0, h, <<>>, q) /\ h[Len(q)] = FlattenSeq(q) BY FlattenGoes
<1>. DEFINE Covered(k) == \A n \in 1..k : \A m \in DOMAIN q[n] : \E j \in DOMAIN h[k] : h[k][j] = q[n][m]
            T == {k \in Nat : k \in 0..Len(q) => IsSeq(h[k]) /\ Covered(k)}
<1>2. 0 \in T
  <2>1. h[0] = <<>> BY <1>1 DEF Goes
  <2>2. 1..0 = {} OBVIOUS
  <2>. QED BY <2>1, <2>2, SeqEmpty
<1>3. ASSUME NEW k \in T PROVE k + 1 \in T
  <2>1. SUFFICES ASSUME k + 1 \in 0..Len(q) PROVE IsSeq(h[k + 1]) /\ Covered(k + 1) OBVIOUS
  <2>2. k \in Nat /\ k \in 0..Len(q) /\ k + 1 \in 1..Len(q) BY <1>0, <2>1
  <2>3. IsSeq(h[k]) /\ Covered(k) BY <1>3, <2>2
  <2>. HIDE DEF T
  <2>4. PICK a, x, b : a = h[k] /\ x = q[k + 1] /\ b = h[k + 1] OBVIOUS
  <2>5. b = a \o x BY <1>1, <2>2, <2>4 DEF Goes, Step
  <2>6. IsSeq(a) /\ IsSeq(x) BY <1>0, <2>2, <2>3, <2>4
  <2>7. /\ IsSeq(a \o x) /\ Len(a \o x) = Len(a) + Len(x)
        /\ \A j \in 1..Len(a) : (a \o x)[j] = a[j]
        /\ \A j \in 1..Len(x) : (a \o x)[Len(a) + j] = x[j]
    BY ONLY <2>6, SeqJoined
  <2>8. /\ Len(a) \in Nat /\ Len(x) \in Nat /\ DOMAIN a = 1..Len(a) /\ DOMAIN x = 1..Len(x)
        /\ DOMAIN b = 1..(Len(a) + Len(x))
    BY <2>5, <2>6, <2>7, SeqFacts
  <2>9. ASSUME NEW n \in 1..(k + 1), NEW m \in DOMAIN q[n]
        PROVE  \E j \in DOMAIN b : b[j] = q[n][m]
    <3>1. CASE n = k + 1
      <4>1. m \in 1..Len(x) BY <2>4, <2>8, <3>1
      <4>2. Len(a) + m \in DOMAIN b BY <2>8, <4>1
      <4>3. b[Len(a) + m] = q[n][m] BY <2>4, <2>5, <2>7, <3>1, <4>1
      <4>. QED BY <4>2, <4>3
    <3>2. CASE n # k + 1
      <4>1. n \in 1..k BY <2>2, <3>2
      <4>2. PICK j \in DOMAIN a : a[j] = q[n][m] BY <2>3, <2>4, <4>1
      <4>3. j \in 1..Len(a) /\ j \in DOMAIN b BY <2>8
      <4>4. b[j] = a[j] BY <2>5, <2>7, <4>3
      <4>. QED BY <4>2, <4>3, <4>4
    <3>. QED BY <3>1, <3>2
  <2>10. Covered(k + 1) BY <2>4, <2>9
  <2>11. IsSeq(h[k + 1]) BY <2>4, <2>5, <2>7
  <2>. HIDE DEF Covered
  <2>. QED BY <2>10, <2>11
<1>4. T = Nat BY <1>2, <1>3, Induction
<1>5. IsSeq(h[Len(q)]) /\ Covered(Len(q)) BY <1>0, <1>4
<1>. QED BY <1>0, <1>1, <1>5

----------------------------------------------------------------------------
\* The inductive invariant of the recording

\* Every buffer is well formed, and the records of one that is usable and whose
\* render passes all began share the tables out; what is left of the script are
\* calls with arguments of their kind.
Sharing(c, calls) == Usable(c) /\ PassesBegan(calls) => Tiled(c)
Recording ==
    /\ ScriptOK(script)
    /\ DOMAIN cb = Buffers /\ DOMAIN said = Buffers
    /\ \A b \in Buffers : Formed(cb[b]) /\ IsSeq(said[b]) /\ Sharing(cb[b], said[b])

\* What has been said before a call, and the call, had its render passes begun.
LEMMA BeganAppended ==
    ASSUME NEW calls, IsSeq(calls), NEW s, PassesBegan(Append(calls, s))
    PROVE  PassesBegan(calls) /\ (s.f = "BeginRenderPass" => s.began)
<1>1. PICK q : q = Append(calls, s) OBVIOUS
<1>2. /\ IsSeq(q) /\ Len(q) = Len(calls) + 1 /\ q[Len(calls) + 1] = s
      /\ \A n \in 1..Len(calls) : q[n] = calls[n]
  BY <1>1, SeqAppended
<1>3. Len(calls) \in Nat /\ DOMAIN calls = 1..Len(calls) BY SeqFacts
<1>4. DOMAIN q = 1..(Len(calls) + 1) BY <1>2, SeqFacts
<1>5. \A n \in 1..(Len(calls) + 1) : q[n].f = "BeginRenderPass" => q[n].began
  BY <1>1, <1>4 DEF PassesBegan
<1>6. PassesBegan(calls)
  <2>1. ASSUME NEW n \in 1..Len(calls) PROVE calls[n].f = "BeginRenderPass" => calls[n].began
    <3>1. n \in 1..(Len(calls) + 1) BY <1>3
    <3>2. q[n] = calls[n] BY <1>2
    <3>. QED BY <1>5, <3>1, <3>2
  <2>. QED BY <1>3, <2>1 DEF PassesBegan
<1>7. Len(calls) + 1 \in 1..(Len(calls) + 1) BY <1>3
<1>. QED BY <1>2, <1>5, <1>6, <1>7

\* What was said of a primary and of the secondaries it executes
LEMMA BeganJoined ==
    ASSUME NEW calls, IsSeq(calls), NEW q, IsSeq(q), \A n \in DOMAIN q : IsSeq(q[n]),
           PassesBegan(calls \o FlattenSeq(q))
    PROVE  PassesBegan(calls) /\ \A n \in DOMAIN q : PassesBegan(q[n])
<1>1. PICK f, all : f = FlattenSeq(q) /\ all = calls \o f OBVIOUS
<1>2. /\ IsSeq(f)
      /\ \A n \in DOMAIN q : \A m \in DOMAIN q[n] : \E j \in DOMAIN f : f[j] = q[n][m]
  BY <1>1, FlattenFacts
<1>3. /\ IsSeq(calls \o f) /\ Len(calls \o f) = Len(calls) + Len(f)
      /\ \A n \in 1..Len(calls) : (calls \o f)[n] = calls[n]
      /\ \A n \in 1..Len(f) : (calls \o f)[Len(calls) + n] = f[n]
  BY <1>2, SeqJoined
<1>4. /\ Len(calls) \in Nat /\ Len(f) \in Nat
      /\ DOMAIN calls = 1..Len(calls) /\ DOMAIN f = 1..Len(f)
      /\ DOMAIN all = 1..(Len(calls) + Len(f))
  BY <1>1, <1>2, <1>3, SeqFacts
<1>5. \A n \in 1..(Len(calls) + Len(f)) : all[n].f = "BeginRenderPass" => all[n].began
  BY <1>1, <1>4 DEF PassesBegan
<1>6. ASSUME NEW n \in DOMAIN calls PROVE calls[n].f = "BeginRenderPass" => calls[n].began
  <2>1. n \in 1..(Len(calls) + Len(f)) BY <1>4
  <2>2. all[n] = calls[n] BY <1>1, <1>3, <1>4
  <2>. QED BY <1>5, <2>1, <2>2
<1>7. ASSUME NEW j \in DOMAIN f PROVE f[j].f = "BeginRenderPass" => f[j].began
  <2>1. Len(calls) + j \in 1..(Len(calls) + Len(f)) BY <1>4
  <2>2. all[Len(calls) + j] = f[j] BY <1>1, <1>3, <1>4
  <2>. QED BY <1>5, <2>1, <2>2
<1>8. ASSUME NEW n \in DOMAIN q, NEW m \in DOMAIN q[n]
      PROVE  q[n][m].f = "BeginRenderPass" => q[n][m].began
  <2>1. PICK j \in DOMAIN f : f[j] = q[n][m] BY <1>2
  <2>. QED BY <1>7, <2>1
<1>. QED BY <1>6, <1>8 DEF PassesBegan

\* The calls that are left have arguments of their kind.
LEMMA RestOfScript ==
    ASSUME ScriptOK(script), script # <<>>
    PROVE  ScriptOK(Tail(script)) /\ \A s \in Head(script) : CallOK(s)
<1>1. IsSeq(script) /\ \A n \in DOMAIN script : \A s \in script[n] : CallOK(s) BY DEF ScriptOK
<1>2. PICK q, t : q = script /\ t = Tail(script) OBVIOUS
<1>3. /\ IsSeq(t) /\ Head(q) = q[1] /\ 1 \in DOMAIN q
      /\ \A n \in DOMAIN t : n + 1 \in DOMAIN q /\ t[n] = q[n + 1]
  BY <1>1, <1>2, SeqRest
<1>4. ASSUME NEW n \in DOMAIN t, NEW s \in t[n] PROVE CallOK(s)
  <2>1. n + 1 \in DOMAIN q /\ s \in q[n + 1] BY <1>3
  <2>. QED BY <1>1, <1>2, <2>1
<1>5. ScriptOK(t) BY <1>3, <1>4 DEF ScriptOK
<1>6. \A s \in Head(q) : CallOK(s) BY <1>1, <1>2, <1>3
<1>. QED BY <1>2, <1>5, <1>6

\* What a call records, and what it adds to what is said
LEMMA RecordedKeeps ==
    ASSUME Recording, script # <<>>, NEW s \in Head(script), NEW c, NEW calls,
           Recorded(s, c, calls), Formed(c), IsSeq(calls), Sharing(c, calls)
    PROVE  Recording'
<1>1. ScriptOK(Tail(script)) /\ CallOK(s) BY RestOfScript DEF Recording
<1>2. s.b \in Buffers BY <1>1 DEF CallOK
<1>3. PICK x : x = s.b OBVIOUS
<1>4. /\ cb' = [cb EXCEPT ![x] = c] /\ said' = [said EXCEPT ![x] = calls]
      /\ script' = Tail(script)
  BY <1>3 DEF Recorded
<1>5. /\ DOMAIN cb' = Buffers /\ DOMAIN said' = Buffers
      /\ cb'[x] = c /\ said'[x] = calls
      /\ \A b \in Buffers : b # x => cb'[b] = cb[b] /\ said'[b] = said[b]
  BY <1>2, <1>3, <1>4 DEF Recording
<1>6. ScriptOK(script') BY <1>1, <1>4
<1>7. ASSUME NEW b \in Buffers
      PROVE  Formed(cb'[b]) /\ IsSeq(said'[b]) /\ Sharing(cb'[b], said'[b])
  <2>1. CASE b = x BY <1>5, <2>1
  <2>2. CASE b # x BY <1>5, <2>2 DEF Recording
  <2>. QED BY <2>1, <2>2
<1>. QED BY <1>5, <1>6, <1>7 DEF Recording

\* A call that continues its buffer keeps the invariant.
LEMMA DoesKeeps ==
    ASSUME Recording, script # <<>>, NEW s \in Head(script), NEW c, Does(s, c),
           Continues(cb[s.b], c)
    PROVE  Recording'
<1>1. CallOK(s) BY RestOfScript DEF Recording
<1>2. s.b \in Buffers BY <1>1 DEF CallOK
<1>3. PICK calls : calls = Append(said[s.b], s) OBVIOUS
<1>4. IsSeq(said[s.b]) /\ Sharing(cb[s.b], said[s.b]) BY <1>2 DEF Recording
<1>5. IsSeq(calls) BY <1>3, <1>4, SeqAppended
<1>6. PassesBegan(calls) => PassesBegan(said[s.b]) BY <1>3, <1>4, BeganAppended
<1>7. Sharing(c, calls) BY <1>4, <1>6 DEF Sharing, Continues
<1>8. Recorded(s, c, calls) BY <1>3 DEF Does
<1>9. Formed(c) BY DEF Continues
<1>. QED BY <1>5, <1>7, <1>8, <1>9, RecordedKeeps

\* A render pass that did not begin is said not to have, and then nothing is claimed of
\* the sharing: its transitions stay in the table without a record.
LEMMA BeginRenderPassKeeps ==
    ASSUME Recording, script # <<>>, NEW s \in Head(script), vkCmdBeginRenderPass(s)
    PROVE  Recording'
<1>1. CallOK(s) BY RestOfScript DEF Recording
<1>2. s.b \in Buffers /\ "f" \in DOMAIN s BY <1>1 DEF CallOK
<1>3. s.f = "BeginRenderPass" BY DEF vkCmdBeginRenderPass
<1>4. IsSeq(s.pass.atts) BY <1>1, <1>3 DEF CallOK
<1>5. PICK c : c = BeginRenderPass(cb[s.b], s) OBVIOUS
<1>6. PICK x : x = [y \in DOMAIN s \cup {"began"} |-> IF y = "began" THEN c.rendering ELSE s[y]]
  OBVIOUS
<1>7. Recorded(s, c, Append(said[s.b], x)) BY <1>5, <1>6 DEF vkCmdBeginRenderPass
<1>8. x.f = "BeginRenderPass" /\ x.began = c.rendering BY <1>2, <1>3, <1>6
<1>9. Formed(cb[s.b]) /\ IsSeq(said[s.b]) /\ Sharing(cb[s.b], said[s.b])
  BY <1>2 DEF Recording
<1>10. Formed(c) /\ (c.rendering => Continues(cb[s.b], c))
  BY <1>4, <1>5, <1>9, BeginRenderPassStep
<1>11. PICK calls : calls = Append(said[s.b], x) OBVIOUS
<1>12. IsSeq(calls) BY <1>9, <1>11, SeqAppended
<1>13. PassesBegan(calls) => PassesBegan(said[s.b]) /\ c.rendering
  BY <1>8, <1>9, <1>11, BeganAppended
<1>14. Sharing(c, calls) BY <1>9, <1>10, <1>13 DEF Sharing, Continues
<1>. QED BY <1>7, <1>10, <1>11, <1>12, <1>14, RecordedKeeps

\* The secondaries are buffers of the invariant, too.
LEMMA ExecuteCommandsKeeps ==
    ASSUME Recording, script # <<>>, NEW s \in Head(script), vkCmdExecuteCommands(s)
    PROVE  Recording'
<1>1. CallOK(s) BY RestOfScript DEF Recording
<1>2. s.b \in Buffers BY <1>1 DEF CallOK
<1>3. s.f = "ExecuteCommands" BY DEF vkCmdExecuteCommands
<1>4. s.bufs \in Seq(Buffers) BY <1>1, <1>3 DEF CallOK
<1>5. PICK N \in Nat : N = Len(s.bufs) /\ DOMAIN s.bufs = 1..N BY <1>4
<1>6. \A n \in 1..N : s.bufs[n] \in Buffers BY <1>4, <1>5
<1>7. PICK ds : ds = [n \in DOMAIN s.bufs |-> cb[s.bufs[n]]] OBVIOUS
<1>8. PICK q : q = [n \in DOMAIN s.bufs |-> said[s.bufs[n]]] OBVIOUS
<1>9. IsSeq(ds) /\ DOMAIN ds = 1..N
  <2>1. ds = [n \in 1..N |-> ds[n]] BY <1>5, <1>7
  <2>. QED BY <2>1, SeqMade
<1>10. IsSeq(q) /\ DOMAIN q = 1..N
  <2>1. q = [n \in 1..N |-> q[n]] BY <1>5, <1>8
  <2>. QED BY <2>1, SeqMade
<1>11. \A n \in 1..N : Formed(ds[n]) /\ IsSeq(q[n]) /\ Sharing(ds[n], q[n])
  BY <1>5, <1>6, <1>7, <1>8 DEF Recording
<1>12. PICK c, e : c = cb[s.b] /\ e = ExecuteCommands(c, ds) OBVIOUS
<1>13. PICK old : old = said[s.b] OBVIOUS
<1>14. Recorded(s, e, old \o FlattenSeq(q))
  BY <1>7, <1>8, <1>12, <1>13 DEF vkCmdExecuteCommands
<1>15. Formed(c) /\ IsSeq(old) /\ Sharing(c, old) BY <1>2, <1>12, <1>13 DEF Recording
<1>16. /\ Formed(e) /\ (Usable(e) => Usable(c))
       /\ Usable(e) /\ Tiled(c) /\ (\A n \in DOMAIN ds : Usable(ds[n]) => Tiled(ds[n]))
             => Tiled(e)
  BY <1>9, <1>11, <1>12, <1>15, ExecuteCommandsStep
<1>17. PICK calls : calls = old \o FlattenSeq(q) OBVIOUS
<1>18. IsSeq(FlattenSeq(q)) BY <1>10, <1>11, FlattenFacts
<1>19. IsSeq(calls) BY <1>15, <1>17, <1>18, SeqJoined
<1>20. PassesBegan(calls) => PassesBegan(old) /\ \A n \in DOMAIN q : PassesBegan(q[n])
  BY <1>10, <1>11, <1>15, <1>17, BeganJoined
<1>21. Sharing(e, calls)
  <2>1. SUFFICES ASSUME Usable(e), PassesBegan(calls) PROVE Tiled(e) BY DEF Sharing
  <2>2. Tiled(c) BY <1>15, <1>16, <1>20, <2>1 DEF Sharing
  <2>3. \A n \in DOMAIN ds : Usable(ds[n]) => Tiled(ds[n])
    BY <1>9, <1>10, <1>11, <1>20, <2>1 DEF Sharing
  <2>. QED BY <1>16, <2>1, <2>2, <2>3
<1>. QED BY <1>14, <1>16, <1>17, <1>19, <1>21, RecordedKeeps

\* A recording begins.
LEMMA BeginKeeps ==
    ASSUME Recording, script # <<>>, NEW s \in Head(script), vkBeginCommandBuffer(s)
    PROVE  Recording'
<1>1. PICK c : c = Begin(cb[s.b], s) OBVIOUS
<1>2. Formed(c) /\ Tiled(c) BY <1>1, BeginStep
<1>3. Recorded(s, c, <<>>) BY <1>1 DEF vkBeginCommandBuffer
<1>4. Sharing(c, <<>>) BY <1>2 DEF Sharing
<1>. QED BY <1>2, <1>3, <1>4, SeqEmpty, RecordedKeeps

\* Every call keeps it.
LEMMA CallKeeps ==
    ASSUME Recording, script # <<>>, NEW s \in Head(script), Call(s)
    PROVE  Recording'
<1>1. CallOK(s) BY RestOfScript DEF Recording
<1>2. s.b \in Buffers BY <1>1 DEF CallOK
<1>3. PICK c : c = cb[s.b] OBVIOUS
<1>4. Formed(c) BY <1>2, <1>3 DEF Recording
<1>5. ASSUME NEW d, Does(s, d), Continues(c, d) PROVE Recording'
  BY <1>3, <1>5, DoesKeeps
<1>6. CASE vkBeginCommandBuffer(s) BY <1>6, BeginKeeps
<1>7. CASE vkCmdBindPipeline(s) BY <1>3, <1>4, <1>5, <1>7, BindPipelineStep DEF vkCmdBindPipeline
<1>8. CASE vkCmdBindVertexBuffers(s)
  BY <1>3, <1>4, <1>5, <1>8, BindVertexBuffersStep DEF vkCmdBindVertexBuffers
<1>9. CASE vkCmdBindIndexBuffer(s)
  BY <1>3, <1>4, <1>5, <1>9, BindIndexBufferStep DEF vkCmdBindIndexBuffer
<1>10. CASE vkCmdSetDynamicState(s)
  BY <1>3, <1>4, <1>5, <1>10, SetDynamicStateStep DEF vkCmdSetDynamicState
<1>11. CASE vkCmdPushConstants(s)
  BY <1>3, <1>4, <1>5, <1>11, PushConstantsStep DEF vkCmdPushConstants
<1>12. CASE vkCmdBindDescriptorSets(s)
  <2>1. IsSeq(s.offsets) BY <1>1, <1>12 DEF CallOK, vkCmdBindDescriptorSets
  <2>. QED BY <1>3, <1>4, <1>5, <1>12, <2>1, BindDescriptorSetsStep DEF vkCmdBindDescriptorSets
<1>13. CASE vkCmdBeginRendering(s)
  BY <1>3, <1>4, <1>5, <1>13, BeginRenderingStep DEF vkCmdBeginRendering
<1>14. CASE vkCmdEndRendering(s)
  BY <1>3, <1>4, <1>5, <1>14, EndRenderingStep DEF vkCmdEndRendering
<1>15. CASE vkCmdDraw(s) BY <1>3, <1>4, <1>5, <1>15, DrawStep DEF vkCmdDraw
<1>16. CASE vkCmdClearAttachments(s)
  <2>1. IsSeq(s.atts) /\ IsSeq(s.rects) BY <1>1, <1>16 DEF CallOK, vkCmdClearAttachments
  <2>. QED BY <1>3, <1>4, <1>5, <1>16, <2>1, ClearAttachmentsStep DEF vkCmdClearAttachments
<1>17. CASE vkCmdPipelineBarrier(s)
  <2>1. s.memory \in Nat /\ IsSeq(s.bufs) /\ IsSeq(s.images)
    BY <1>1, <1>17 DEF CallOK, vkCmdPipelineBarrier
  <2>. QED BY <1>3, <1>4, <1>5, <1>17, <2>1, PipelineBarrierStep DEF vkCmdPipelineBarrier
<1>18. CASE vkCmdSetEvent(s) BY <1>3, <1>4, <1>5, <1>18, SetEventStep DEF vkCmdSetEvent
<1>19. CASE vkCmdWaitEvents(s)
  <2>1. s.memory \in Nat /\ IsSeq(s.bufs) /\ IsSeq(s.images)
    BY <1>1, <1>19 DEF CallOK, vkCmdWaitEvents
  <2>. QED BY <1>3, <1>4, <1>5, <1>19, <2>1, WaitEventsStep DEF vkCmdWaitEvents
<1>20. CASE vkCmdBeginRenderPass(s) BY <1>20, BeginRenderPassKeeps
<1>21. CASE vkCmdNextSubpass(s)
  BY <1>3, <1>4, <1>5, <1>21, NextSubpassStep DEF vkCmdNextSubpass
<1>22. CASE vkCmdEndRenderPass(s)
  BY <1>3, <1>4, <1>5, <1>22, EndRenderPassStep DEF vkCmdEndRenderPass
<1>23. CASE vkCmdTransfer(s)
  <2>1. s.kind \in Transfers /\ IsSeq(s.regions) BY <1>1, <1>23 DEF CallOK, vkCmdTransfer
  <2>. QED BY <1>3, <1>4, <1>5, <1>23, <2>1, TransferStep DEF vkCmdTransfer
<1>24. CASE vkCmdFillOrUpdate(s)
  BY <1>3, <1>4, <1>5, <1>24, FillOrUpdateStep DEF vkCmdFillOrUpdate
<1>25. CASE vkCmdDispatch(s) BY <1>3, <1>4, <1>5, <1>25, DispatchStep DEF vkCmdDispatch
<1>26. CASE vkCmdQuery(s) BY <1>3, <1>4, <1>5, <1>26, QueryStep DEF vkCmdQuery
<1>27. CASE vkCmdExecuteCommands(s) BY <1>27, ExecuteCommandsKeeps
<1>. QED BY <1>6, <1>7, <1>8, <1>9, <1>10, <1>11, <1>12, <1>13, <1>14, <1>15, <1>16, <1>17,
            <1>18, <1>19, <1>20, <1>21, <1>22, <1>23, <1>24, <1>25, <1>26, <1>27 DEF Call

\* Nothing is recorded while the host executes operations.
LEMMA HostKeeps ==
    ASSUME Recording, script # <<>>, NEW c, NEW ops, HostRuns(c, ops)
    PROVE  Recording'
<1>1. ScriptOK(Tail(script)) BY RestOfScript DEF Recording
<1>2. cb' = cb /\ said' = said /\ script' = Tail(script) BY DEF HostRuns
<1>3. ScriptOK(script') BY <1>1, <1>2
<1>. QED BY <1>2, <1>3 DEF Recording

\* What the steps do to the recording and to the images
LEMMA StepIs ==
    ASSUME FNext
    PROVE  /\ script # <<>>
           /\ \/ \E s \in Head(script) : Call(s)
              \/ \E s \in Head(script) :
                    \/ HostRuns(cb[s.b], OpsBefore(cb[s.b]))
                    \/ HostRuns(cb[s.b], OpsBefore(cb[s.b]) \o OpsAfter(cb[s.b]))
<1>1. PICK s \in Head(script) : (Call(s) /\ UNCHANGED sent) \/ SubmitFrame(s) \/ SubmitHostWork(s)
  BY DEF FNext
<1>2. SubmitFrame(s) => \/ HostRuns(cb[s.b], OpsBefore(cb[s.b]))
                        \/ HostRuns(cb[s.b], OpsBefore(cb[s.b]) \o OpsAfter(cb[s.b]))
  BY DEF SubmitFrame
<1>3. SubmitHostWork(s) => HostRuns(cb[s.b], OpsBefore(cb[s.b]) \o OpsAfter(cb[s.b]))
  BY DEF SubmitHostWork, Submit
<1>. QED BY <1>1, <1>2, <1>3 DEF FNext

\* The invariant holds in the beginning: every buffer is blank.
LEMMA RecordingStarts ==
    ASSUME FInit
    PROVE  Recording
<1>1. cb = [b \in Buffers |-> Blank(b)] /\ said = [b \in Buffers |-> <<>>] /\ script \in Scripts
  BY DEF FInit, Init
<1>2. ScriptOK(script) BY <1>1, ScriptsAssumption
<1>3. \A b \in Buffers : Formed(cb[b]) /\ Tiled(cb[b]) BY <1>1, BlankIsFormed
<1>4. \A b \in Buffers : IsSeq(said[b]) BY <1>1, SeqEmpty
<1>5. DOMAIN cb = Buffers /\ DOMAIN said = Buffers BY <1>1
<1>. QED BY <1>2, <1>3, <1>4, <1>5 DEF Recording, Sharing

\* Every step of the recording and of the submission keeps it.
LEMMA RecordingStep ==
    ASSUME Recording, [FNext]_fvars
    PROVE  Recording'
<1>1. CASE FNext BY <1>1, StepIs, CallKeeps, HostKeeps
<1>2. CASE UNCHANGED fvars
  <2>1. cb' = cb /\ said' = said /\ script' = script BY <1>2 DEF fvars, vars
  <2>. QED BY <2>1 DEF Recording
<1>. QED BY <1>1, <1>2

\* Whatever the application records, in whatever order, its buffers stay well
\* formed (the arrays of the recording in pdocker_vulkan_icd.c).
THEOREM RecordingIsFormed == FSpec => []Recording
<1>1. FInit => Recording BY RecordingStarts
<1>2. Recording /\ [FNext]_fvars => Recording' BY RecordingStep
<1>. QED BY <1>1, <1>2, PTL DEF FSpec

----------------------------------------------------------------------------
\* What it means for the tables

\* The place that the first k records leave off at
LEMMA EndBeforeIs ==
    ASSUME NEW c, Formed(c), NEW t, NEW e, Tiling(e, c.tab["rec"], t, Size(c, t))
    PROVE  \A k \in 0..Size(c, "rec") : EndBefore(c, t, k + 1) = e[k]
<1>1. PICK L \in Nat : L = Size(c, "rec") BY SizeFacts, TableNames
<1>2. DOMAIN c.tab["rec"] = 1..L /\ L = Len(c.tab["rec"]) BY <1>1, SizeFacts, TableNames DEF Size
<1>3. /\ e \in [0..L -> Nat] /\ e[0] = 0
      /\ \A k \in 1..L : Continuing(c.tab["rec"][k].span, t, e[k - 1], e[k])
  BY <1>2 DEF Tiling
<1>4. PICK R : R = Reading(c, t) OBVIOUS
<1>5. /\ R \subseteq 1..L
      /\ \A n \in 1..L : n \in R <=> t \in DOMAIN c.tab["rec"][n].span /\ c.tab["rec"][n].span[t][2] > 0
  BY <1>2, <1>4 DEF Reading
<1>. DEFINE Upto(k) == {m \in R : m < k}
<1>6. \A k : EndBefore(c, t, k) = IF Upto(k) = {} THEN 0 ELSE SpanEnd(c, t, Max(Upto(k)))
  BY <1>4 DEF EndBefore
<1>. DEFINE T == {k \in Nat : k \in 0..L => EndBefore(c, t, k + 1) = e[k]}
<1>7. 0 \in T
  <2>1. \A m \in 1..L : ~(m < 0 + 1) OBVIOUS
  <2>2. Upto(0 + 1) = {} BY <1>5, <2>1
  <2>. HIDE DEF Upto
  <2>3. EndBefore(c, t, 0 + 1) = 0 BY <1>6, <2>2
  <2>. QED BY <1>3, <2>3
<1>8. ASSUME NEW k \in T PROVE k + 1 \in T
  <2>1. SUFFICES ASSUME k + 1 \in 0..L PROVE EndBefore(c, t, (k + 1) + 1) = e[k + 1] OBVIOUS
  <2>2. k \in Nat /\ k \in 0..L /\ k + 1 \in 1..L /\ (k + 1) - 1 = k BY <1>1, <2>1
  <2>3. EndBefore(c, t, k + 1) = e[k] BY <1>8, <2>2
  <2>. HIDE DEF T
  <2>4. PICK span : span = c.tab["rec"][k + 1].span OBVIOUS
  <2>5. Continuing(span, t, e[k], e[k + 1]) BY <1>3, <2>2, <2>4
  <2>6. PICK A, B : A = Upto(k + 1) /\ B = Upto((k + 1) + 1) OBVIOUS
  <2>7. CASE k + 1 \in R
    <3>1. t \in DOMAIN span /\ span[t][2] > 0 BY <1>5, <2>2, <2>4, <2>7
    <3>2. span[t][1] = e[k] /\ e[k + 1] = e[k] + span[t][2] BY <2>5, <3>1 DEF Continuing
    <3>3. B \in SUBSET (1..(k + 1)) /\ k + 1 \in B
      <4>1. \A m \in 1..L : m < (k + 1) + 1 => m \in 1..(k + 1) BY <2>2
      <4>2. k + 1 < (k + 1) + 1 BY <2>2
      <4>. QED BY <1>5, <2>6, <2>7, <4>1, <4>2
    <3>4. Max(B) \in B /\ k + 1 <= Max(B)
      <4>1. k + 1 \in Nat BY <2>2
      <4>. QED BY <3>3, <4>1, MaxOf
    <3>5. Max(B) = k + 1
      <4>1. Max(B) \in 1..(k + 1) BY <3>3, <3>4
      <4>. QED BY <2>2, <3>4, <4>1
    <3>6. EndBefore(c, t, (k + 1) + 1) = SpanEnd(c, t, k + 1) BY <1>6, <2>6, <3>3, <3>5
    <3>7. SpanEnd(c, t, k + 1) = span[t][1] + span[t][2] BY <2>4 DEF SpanEnd
    <3>. QED BY <3>2, <3>6, <3>7
  <2>8. CASE k + 1 \notin R
    <3>1. e[k + 1] = e[k]
      <4>1. ~(t \in DOMAIN span /\ span[t][2] > 0) BY <1>5, <2>2, <2>4, <2>8
      <4>. QED BY <2>5, <4>1 DEF Continuing
    <3>2. A = B
      <4>1. \A m \in 1..L : m # k + 1 => (m < (k + 1) + 1 <=> m < k + 1) BY <2>2
      <4>. QED BY <1>5, <2>6, <2>8, <4>1
    <3>3. EndBefore(c, t, (k + 1) + 1) = EndBefore(c, t, k + 1)
      <4>. HIDE DEF Upto
      <4>. QED BY <1>6, <2>6, <3>2
    <3>. QED BY <2>3, <3>1, <3>3
  <2>. QED BY <2>7, <2>8
<1>9. T = Nat BY <1>7, <1>8, Induction
<1>. QED BY <1>1, <1>9

\* Records that take the entries one after the other share the table out.
LEMMA TiledShares ==
    ASSUME NEW c, Formed(c), Tiled(c), NEW t \in Shared
    PROVE  /\ \A n \in Reading(c, t) : c.tab["rec"][n].span[t][1] = EndBefore(c, t, n)
           /\ EndBefore(c, t, Size(c, "rec") + 1) = Size(c, t)
<1>1. PICK e : Tiling(e, c.tab["rec"], t, Size(c, t)) BY DEF Tiled, Tiles
<1>2. PICK L \in Nat : L = Size(c, "rec") BY SizeFacts, TableNames
<1>3. DOMAIN c.tab["rec"] = 1..L /\ L = Len(c.tab["rec"]) BY <1>2, SizeFacts, TableNames DEF Size
<1>4. \A k \in 0..L : EndBefore(c, t, k + 1) = e[k] BY <1>1, <1>2, EndBeforeIs
<1>5. ASSUME NEW n \in Reading(c, t) PROVE c.tab["rec"][n].span[t][1] = EndBefore(c, t, n)
  <2>1. n \in 1..L /\ t \in DOMAIN c.tab["rec"][n].span /\ c.tab["rec"][n].span[t][2] > 0
    BY <1>3 DEF Reading
  <2>2. PICK k \in 0..L : k + 1 = n /\ n - 1 = k
    <3>1. n - 1 \in 0..L /\ (n - 1) + 1 = n BY <1>2, <2>1
    <3>. QED BY <3>1
  <2>3. Continuing(c.tab["rec"][n].span, t, e[n - 1], e[n]) BY <1>1, <1>3, <2>1 DEF Tiling
  <2>4. c.tab["rec"][n].span[t][1] = e[k] BY <2>1, <2>2, <2>3 DEF Continuing
  <2>5. EndBefore(c, t, k + 1) = e[k] BY <1>4
  <2>. QED BY <2>2, <2>4, <2>5
<1>6. L \in 0..L BY <1>2
<1>7. e[L] = Size(c, t) BY <1>1, <1>3 DEF Tiling
<1>. QED BY <1>2, <1>4, <1>5, <1>6, <1>7

\* In a command buffer that may be submitted, and whose render passes all began,
\* no record reads an entry of another and none is left out, also after secondary
\* buffers were copied in (append_secondary_command_buffer).
THEOREM RecordsAreApart == FSpec => []RecordsShareTables
<1>1. ASSUME Recording PROVE RecordsShareTables
  <2>1. SUFFICES ASSUME NEW b \in Buffers, Accepted(cb[b]), PassesBegan(said[b])
                 PROVE  \A t \in Shared :
                          /\ \A n \in Reading(cb[b], t) :
                                cb[b].tab["rec"][n].span[t][1] = EndBefore(cb[b], t, n)
                          /\ EndBefore(cb[b], t, Size(cb[b], "rec") + 1) = Size(cb[b], t)
    BY DEF RecordsShareTables
  <2>2. PICK c : c = cb[b] OBVIOUS
  <2>3. Formed(c) /\ Tiled(c) BY <1>1, <2>1, <2>2 DEF Recording, Sharing, Usable, Accepted
  <2>4. \A t \in Shared : /\ \A n \in Reading(c, t) : c.tab["rec"][n].span[t][1] = EndBefore(c, t, n)
                          /\ EndBefore(c, t, Size(c, "rec") + 1) = Size(c, t)
    BY <2>3, TiledShares
  <2>. QED BY <2>2, <2>4
<1>. QED BY <1>1, RecordingIsFormed, PTL

\* No table of a command buffer outgrows its array, and every range of a buffer
\* that is not to be refused lies in its table.
THEOREM RecordingStaysInside == FSpec => []TypeOK
<1>1. ASSUME Recording PROVE TypeOK
  <2>1. SUFFICES ASSUME NEW b \in Buffers, NEW c, c = cb[b]
        PROVE  /\ \A t \in Tables : Size(c, t) <= Room[t]
               /\ ~c.unsupported /\ ~c.badSets =>
                    \A x \in ToSet(c.tab["rec"]) \cup ToSet(c.tab["op"]) :
                        \A t \in DOMAIN x.span : x.span[t][1] + x.span[t][2] <= Size(c, t)
               /\ \A m, n \in DOMAIN c.tab["rec"] :
                    /\ m < n => c.tab["rec"][m].seq <= c.tab["rec"][n].seq
                    /\ c.tab["rec"][n].seq <= Size(c, "op")
    BY DEF TypeOK
  <2>2. Formed(c) BY <1>1, <2>1 DEF Recording
  <2>3. \A t \in Tables : Size(c, t) <= Room[t] BY <2>2, SizeFacts
  <2>4. ASSUME ~c.unsupported, ~c.badSets, NEW x \in ToSet(c.tab["rec"]) \cup ToSet(c.tab["op"]),
               NEW t \in DOMAIN x.span
        PROVE  x.span[t][1] + x.span[t][2] <= Size(c, t)
    <3>1. \/ \E n \in DOMAIN c.tab["rec"] : x = c.tab["rec"][n]
          \/ \E n \in DOMAIN c.tab["op"] : x = c.tab["op"][n]
      BY <2>4 DEF ToSet
    <3>2. SpanOK(c, x.span) BY <2>2, <3>1 DEF Formed, RecsOK, OpsOK, RecOK, OpOK
    <3>. QED BY <2>4, <3>2 DEF SpanOK, Usable
  <2>5. \A m, n \in DOMAIN c.tab["rec"] :
            /\ m < n => c.tab["rec"][m].seq <= c.tab["rec"][n].seq
            /\ c.tab["rec"][n].seq <= Size(c, "op")
    BY <2>2 DEF Formed, RecsOK, RecOK
  <2>. QED BY <2>3, <2>4, <2>5
<1>. QED BY <1>1, RecordingIsFormed, PTL

----------------------------------------------------------------------------
\* What the ICD knows of the layouts of an image

\* While the cache holds, its ranges have no subresource in common, and each
\* subresource is in the layout of its range, or in that of the whole image.
Known(im, tr) ==
    /\ DOMAIN im = {"current", "mixed", "ranges", "overflow"}
    /\ IsSeq(im.ranges)
    /\ \A n \in DOMAIN im.ranges : DOMAIN im.ranges[n] = {"range", "layout"}
    /\ ~im.overflow =>
         \A p \in Parts :
            /\ \A m, n \in DOMAIN im.ranges :
                    p \in im.ranges[m].range /\ p \in im.ranges[n].range => m = n
            /\ (\A n \in DOMAIN im.ranges : p \notin im.ranges[n].range) => tr[p] = im.current
            /\ \A n \in DOMAIN im.ranges : p \in im.ranges[n].range => tr[p] = im.ranges[n].layout
Layouts == /\ DOMAIN image = Images /\ DOMAIN truth = Images
           /\ \A i \in Images : Known(image[i], truth[i])

\* One barrier: the range is replaced, added, or covers the whole image; a range that
\* overlaps another one in part, or finds no room, gives the cache up
\* (execute_recorded_image_barrier_op and image_layout_range_record).
LEMMA HostBarrierKnows ==
    ASSUME NEW im, NEW tr, Known(im, tr), NEW x
    PROVE  Known(HostBarrier(im, x), [p \in Parts |-> IF p \in x.range THEN x.new ELSE tr[p]])
<1>1. PICK new : new = [p \in Parts |-> IF p \in x.range THEN x.new ELSE tr[p]] OBVIOUS
<1>2. \A p \in Parts : new[p] = IF p \in x.range THEN x.new ELSE tr[p] BY <1>1
<1>3. CASE x.range # {} /\ x.range = Parts
  <2>1. PICK w : w = [current |-> x.new, mixed |-> FALSE, ranges |-> <<>>, overflow |-> FALSE]
    OBVIOUS
  <2>2. HostBarrier(im, x) = w BY <1>3, <2>1 DEF HostBarrier
  <2>3. /\ DOMAIN w = {"current", "mixed", "ranges", "overflow"}
        /\ w.ranges = <<>> /\ w.current = x.new
    BY <2>1
  <2>4. \A p \in Parts : new[p] = x.new BY <1>2, <1>3
  <2>5. IsSeq(w.ranges) /\ DOMAIN w.ranges = {} BY <2>3, SeqEmpty
  <2>6. Known(w, new) BY <2>3, <2>4, <2>5 DEF Known
  <2>. QED BY <1>1, <2>2, <2>6
<1>4. CASE x.range = {}
  <2>1. PICK w : w = [im EXCEPT !.mixed = TRUE, !.overflow = TRUE] OBVIOUS
  <2>2. HostBarrier(im, x) = w BY <1>4, <2>1 DEF HostBarrier
  <2>3. /\ DOMAIN w = DOMAIN im /\ w.ranges = im.ranges /\ w.overflow = TRUE
    BY <2>1 DEF Known
  <2>4. Known(w, new) BY <2>3 DEF Known
  <2>. QED BY <1>1, <2>2, <2>4
<1>5. CASE x.range # Parts /\ x.range # {}
  <2>1. PICK i : i = [im EXCEPT !.mixed = TRUE] OBVIOUS
  <2>2. HostBarrier(im, x) = RangeCache(i, x.range, x.new) BY <1>5, <2>1 DEF HostBarrier
  <2>3. /\ DOMAIN i = {"current", "mixed", "ranges", "overflow"}
        /\ i.ranges = im.ranges /\ i.overflow = im.overflow /\ i.current = im.current
    BY <2>1 DEF Known
  <2>4. Known(i, tr) BY <2>3 DEF Known
  <2>5. PICK rows : rows = i.ranges OBVIOUS
  <2>6. /\ IsSeq(rows) /\ \A n \in DOMAIN rows : DOMAIN rows[n] = {"range", "layout"}
        /\ ~i.overflow =>
             \A p \in Parts :
                /\ \A m, n \in DOMAIN rows : p \in rows[m].range /\ p \in rows[n].range => m = n
                /\ (\A n \in DOMAIN rows : p \notin rows[n].range) => tr[p] = i.current
                /\ \A n \in DOMAIN rows : p \in rows[n].range => tr[p] = rows[n].layout
    BY <2>4, <2>5 DEF Known
  <2>7. Len(rows) \in Nat /\ DOMAIN rows = 1..Len(rows) BY <2>6, SeqFacts
  <2>8. CASE \E n \in DOMAIN rows : rows[n].range = x.range
    <3>1. PICK k \in DOMAIN rows : rows[k].range = x.range BY <2>8
    <3>2. PICK q : q = [n \in DOMAIN rows |->
                          IF rows[n].range = x.range THEN [rows[n] EXCEPT !.layout = x.new]
                          ELSE rows[n]]
      OBVIOUS
    <3>3. PICK w : w = [i EXCEPT !.ranges = q] OBVIOUS
    <3>4. RangeCache(i, x.range, x.new) = w BY <2>5, <2>8, <3>2, <3>3 DEF RangeCache
    <3>5. /\ DOMAIN w = {"current", "mixed", "ranges", "overflow"} /\ w.ranges = q
          /\ w.overflow = i.overflow /\ w.current = i.current
      BY <2>3, <3>3
    <3>6. IsSeq(q) /\ DOMAIN q = DOMAIN rows
      <4>1. q = [n \in 1..Len(rows) |-> q[n]] BY <2>7, <3>2
      <4>. QED BY <2>7, <4>1, SeqMade
    <3>7. \A n \in DOMAIN rows : /\ DOMAIN q[n] = {"range", "layout"}
                                 /\ q[n].range = rows[n].range
                                 /\ q[n].layout = IF rows[n].range = x.range THEN x.new
                                                  ELSE rows[n].layout
      BY <2>6, <3>2
    <3>8. ASSUME ~i.overflow, NEW p \in Parts
          PROVE  /\ \A m, n \in DOMAIN q : p \in q[m].range /\ p \in q[n].range => m = n
                 /\ (\A n \in DOMAIN q : p \notin q[n].range) => new[p] = i.current
                 /\ \A n \in DOMAIN q : p \in q[n].range => new[p] = q[n].layout
      <4>1. /\ \A m, n \in DOMAIN rows : p \in rows[m].range /\ p \in rows[n].range => m = n
            /\ (\A n \in DOMAIN rows : p \notin rows[n].range) => tr[p] = i.current
            /\ \A n \in DOMAIN rows : p \in rows[n].range => tr[p] = rows[n].layout
        BY <2>6, <3>8
      <4>2. \A m, n \in DOMAIN q : p \in q[m].range /\ p \in q[n].range => m = n
        BY <3>6, <3>7, <4>1
      <4>3. ASSUME \A n \in DOMAIN q : p \notin q[n].range PROVE new[p] = i.current
        <5>1. \A n \in DOMAIN rows : p \notin rows[n].range BY <3>6, <3>7, <4>3
        <5>2. p \notin x.range BY <3>1, <5>1
        <5>. QED BY <1>2, <4>1, <5>1, <5>2
      <4>4. ASSUME NEW n \in DOMAIN q, p \in q[n].range PROVE new[p] = q[n].layout
        <5>1. n \in DOMAIN rows /\ p \in rows[n].range BY <3>6, <3>7, <4>4
        <5>2. CASE rows[n].range = x.range BY <1>2, <3>7, <5>1, <5>2
        <5>3. CASE rows[n].range # x.range
          <6>1. p \notin x.range BY <3>1, <4>1, <5>1, <5>3
          <6>. QED BY <1>2, <3>7, <4>1, <5>1, <5>3, <6>1
        <5>. QED BY <5>2, <5>3
      <4>. QED BY <4>2, <4>3, <4>4
    <3>9. Known(w, new) BY <3>5, <3>6, <3>7, <3>8 DEF Known
    <3>. QED BY <1>1, <2>2, <3>4, <3>9
  <2>9. CASE /\ ~(\E n \in DOMAIN rows : rows[n].range = x.range)
             /\ \/ \E n \in DOMAIN rows : Overlaps(rows[n].range, x.range)
                \/ Len(rows) >= Room["image"]
    <3>1. PICK w : w = [i EXCEPT !.overflow = TRUE] OBVIOUS
    <3>2. RangeCache(i, x.range, x.new) = w BY <2>5, <2>9, <3>1 DEF RangeCache
    <3>3. /\ DOMAIN w = {"current", "mixed", "ranges", "overflow"} /\ w.ranges = rows
          /\ w.overflow = TRUE
      BY <2>3, <2>5, <3>1
    <3>4. Known(w, new) BY <2>6, <3>3 DEF Known
    <3>. QED BY <1>1, <2>2, <3>2, <3>4
  <2>10. CASE /\ ~(\E n \in DOMAIN rows : rows[n].range = x.range)
              /\ ~(\/ \E n \in DOMAIN rows : Overlaps(rows[n].range, x.range)
                   \/ Len(rows) >= Room["image"])
    <3>1. PICK row : row = [range |-> x.range, layout |-> x.new] OBVIOUS
    <3>2. PICK q : q = Append(rows, row) OBVIOUS
    <3>3. PICK w : w = [i EXCEPT !.ranges = q] OBVIOUS
    <3>4. RangeCache(i, x.range, x.new) = w BY <2>5, <2>10, <3>1, <3>2, <3>3 DEF RangeCache
    <3>5. /\ DOMAIN w = {"current", "mixed", "ranges", "overflow"} /\ w.ranges = q
          /\ w.overflow = i.overflow /\ w.current = i.current
      BY <2>3, <3>3
    <3>6. PICK L \in Nat : L = Len(rows) BY <2>7
    <3>7. /\ IsSeq(q) /\ Len(q) = L + 1 /\ q[L + 1] = row
          /\ \A n \in 1..L : q[n] = rows[n]
      BY <2>6, <3>2, <3>6, SeqAppended
    <3>8. DOMAIN q = 1..(L + 1) /\ DOMAIN rows = 1..L BY <2>7, <3>6, <3>7, SeqFacts
    <3>9. DOMAIN row = {"range", "layout"} /\ row.range = x.range /\ row.layout = x.new BY <3>1
    <3>10. \A n \in DOMAIN q : n = L + 1 \/ n \in DOMAIN rows BY <3>6, <3>8
    <3>11. \A n \in DOMAIN rows : n \in DOMAIN q /\ q[n] = rows[n] /\ n # L + 1
      BY <3>6, <3>7, <3>8
    <3>12. L + 1 \in DOMAIN q BY <3>6, <3>8
    <3>13. \A n \in DOMAIN q : DOMAIN q[n] = {"range", "layout"}
      BY <2>6, <3>7, <3>9, <3>10, <3>11
    <3>14. ASSUME NEW n \in DOMAIN rows, NEW p \in rows[n].range PROVE p \notin x.range
      <4>1. rows[n].range \cap x.range = {} BY <2>10 DEF Overlaps
      <4>. QED BY <4>1
    <3>15. ASSUME ~i.overflow, NEW p \in Parts
           PROVE  /\ \A m, n \in DOMAIN q : p \in q[m].range /\ p \in q[n].range => m = n
                  /\ (\A n \in DOMAIN q : p \notin q[n].range) => new[p] = i.current
                  /\ \A n \in DOMAIN q : p \in q[n].range => new[p] = q[n].layout
      <4>1. /\ \A m, n \in DOMAIN rows : p \in rows[m].range /\ p \in rows[n].range => m = n
            /\ (\A n \in DOMAIN rows : p \notin rows[n].range) => tr[p] = i.current
            /\ \A n \in DOMAIN rows : p \in rows[n].range => tr[p] = rows[n].layout
        BY <2>6, <3>15
      <4>2. ASSUME NEW m \in DOMAIN q, NEW n \in DOMAIN q, p \in q[m].range, p \in q[n].range
            PROVE  m = n
        <5>1. CASE m \in DOMAIN rows /\ n \in DOMAIN rows BY <3>11, <4>1, <4>2, <5>1
        <5>2. CASE m = L + 1 /\ n \in DOMAIN rows
          BY <3>7, <3>9, <3>11, <3>14, <4>2, <5>2
        <5>3. CASE n = L + 1 /\ m \in DOMAIN rows
          BY <3>7, <3>9, <3>11, <3>14, <4>2, <5>3
        <5>. QED BY <3>10, <5>1, <5>2, <5>3
      <4>3. ASSUME \A n \in DOMAIN q : p \notin q[n].range PROVE new[p] = i.current
        <5>1. \A n \in DOMAIN rows : p \notin rows[n].range BY <3>11, <4>3
        <5>2. p \notin x.range BY <3>7, <3>9, <3>12, <4>3
        <5>. QED BY <1>2, <4>1, <5>1, <5>2
      <4>4. ASSUME NEW n \in DOMAIN q, p \in q[n].range PROVE new[p] = q[n].layout
        <5>1. CASE n = L + 1 BY <1>2, <3>7, <3>9, <4>4, <5>1
        <5>2. CASE n \in DOMAIN rows
          <6>1. p \in rows[n].range /\ q[n] = rows[n] BY <3>11, <4>4, <5>2
          <6>2. p \notin x.range BY <3>14, <5>2, <6>1
          <6>. QED BY <1>2, <4>1, <5>2, <6>1, <6>2
        <5>. QED BY <3>10, <5>1, <5>2
      <4>. QED BY <4>2, <4>3, <4>4
    <3>16. Known(w, new) BY <3>5, <3>7, <3>13, <3>15 DEF Known
    <3>. QED BY <1>1, <2>2, <3>4, <3>16
  <2>. QED BY <2>8, <2>9, <2>10
<1>. QED BY <1>3, <1>4, <1>5

\* The barriers among the operations are a sequence.
LEMMA BarriersOfSeq ==
    ASSUME NEW c, NEW ops, IsSeq(ops)
    PROVE  IsSeq(BarriersOf(c, ops))
<1>1. PICK q : q = [k \in DOMAIN ops |->
                      IF ops[k].type = "imageBarrier"
                      THEN <<c.tab["image"][ops[k].span["image"][1] + 1]>> ELSE <<>>]
  OBVIOUS
<1>2. Len(ops) \in Nat /\ DOMAIN ops = 1..Len(ops) BY SeqFacts
<1>3. IsSeq(q) /\ DOMAIN q = DOMAIN ops
  <2>1. q = [k \in 1..Len(ops) |-> q[k]] BY <1>1, <1>2
  <2>. QED BY <1>2, <2>1, SeqMade
<1>4. ASSUME NEW y PROVE IsSeq(<<y>>)
  <2>1. <<y>> \in Seq({y}) OBVIOUS
  <2>. QED BY <2>1, SeqTyped
<1>5. ASSUME NEW k \in DOMAIN q PROVE IsSeq(q[k])
  <2>1. PICK y : y = c.tab["image"][ops[k].span["image"][1] + 1] OBVIOUS
  <2>2. q[k] = <<y>> \/ q[k] = <<>> BY <1>1, <1>3, <2>1
  <2>3. IsSeq(<<y>>) BY <1>4
  <2>. QED BY <2>2, <2>3, SeqEmpty
<1>6. IsSeq(FlattenSeq(q)) BY <1>3, <1>5, FlattenFacts
<1>7. BarriersOf(c, ops) = FlattenSeq(q) BY <1>1 DEF BarriersOf
<1>. QED BY <1>6, <1>7

\* The operations around a frame are sequences.
LEMMA AroundSeq ==
    ASSUME NEW c, Formed(c)
    PROVE  IsSeq(OpsBefore(c)) /\ IsSeq(OpsBefore(c) \o OpsAfter(c))
<1>1. PICK N \in Nat : N = Size(c, "op") BY SizeFacts, TableNames
<1>2. PICK S : S = Seqs(c) OBVIOUS
<1>3. S \in SUBSET Nat /\ \A q \in S : q <= N
  BY <1>1, <1>2 DEF Seqs, Formed, RecsOK, RecOK
<1>4. PICK ops : ops = c.tab["op"] OBVIOUS
<1>5. IsSeq(ops) /\ Len(ops) = N BY <1>1, <1>4, SizeFacts, TableNames DEF Size
<1>6. PICK first : first = CHOOSE q \in S : \A r \in S : q <= r OBVIOUS
<1>7. PICK last : last = CHOOSE q \in S : \A r \in S : q >= r OBVIOUS
<1>8. PICK top : top = IF first < N THEN first ELSE N OBVIOUS
<1>9. OpsBefore(c) = IF S = {} THEN ops ELSE SubSeq(ops, 1, top)
  BY <1>1, <1>2, <1>4, <1>6, <1>8 DEF OpsBefore
<1>10. OpsAfter(c) = IF S = {} THEN <<>> ELSE SubSeq(ops, last + 2, N)
  BY <1>1, <1>2, <1>4, <1>7 DEF OpsAfter
<1>11. CASE S = {}
  <2>1. IsSeq(ops \o <<>>) BY <1>5, SeqEmpty, SeqJoined
  <2>. QED BY <1>5, <1>9, <1>10, <1>11, <2>1
<1>12. CASE S # {}
  <2>1. \E q \in S : \A r \in S : q <= r BY <1>3, <1>12, LeastExists
  <2>2. \E q \in S : \A r \in S : r <= q BY <1>3, <1>12, GreatestExists
  <2>3. \E q \in S : \A r \in S : q >= r
    <3>1. \A q, r \in S : r <= q => q >= r BY <1>3
    <3>. QED BY <2>2, <3>1
  <2>4. first \in S BY <1>6, <2>1
  <2>5. last \in S BY <1>7, <2>3
  <2>6. first \in Nat /\ last \in Nat BY <1>3, <2>4, <2>5
  <2>7. top \in Nat /\ top <= N BY <1>8, <2>6
  <2>8. last + 2 \in Nat /\ last + 2 >= 1 /\ N <= N BY <2>6
  <2>9. IsSeq(SubSeq(ops, 1, top)) BY <1>5, <2>7, SeqPart
  <2>10. IsSeq(SubSeq(ops, last + 2, N)) BY <1>5, <2>8, SeqPart
  <2>11. PICK a, b : a = SubSeq(ops, 1, top) /\ b = SubSeq(ops, last + 2, N) OBVIOUS
  <2>12. IsSeq(a \o b)
    <3>1. IsSeq(a) /\ IsSeq(b) BY <2>9, <2>10, <2>11
    <3>. QED BY ONLY <3>1, SeqJoined
  <2>. QED BY <1>9, <1>10, <1>12, <2>9, <2>11, <2>12
<1>. QED BY <1>11, <1>12

\* What the ICD believes and what the barriers leave, barrier by barrier
LEMMA HostKnows ==
    ASSUME Layouts, NEW c, NEW ops, IsSeq(ops), HostRuns(c, ops)
    PROVE  Layouts'
<1>1. PICK q : q = BarriersOf(c, ops) OBVIOUS
<1>2. IsSeq(q) BY <1>1, BarriersOfSeq
<1>3. Len(q) \in Nat /\ DOMAIN q = 1..Len(q) BY <1>2, SeqFacts
<1>4. PICK f : Goes("believed", 0, f, image, q) /\ f[Len(q)] = FoldLeft(Believed, image, q)
  BY <1>3, BelievedFold
<1>5. PICK g : Goes("truly", 0, g, truth, q) /\ g[Len(q)] = FoldLeft(Truly, truth, q)
  BY <1>3, TrulyFold
<1>6. image' = f[Len(q)] /\ truth' = g[Len(q)]
  BY <1>1, <1>4, <1>5 DEF HostRuns, AfterBarriers, TrulyAfter
<1>. DEFINE All(im, tr) == /\ DOMAIN im = Images /\ DOMAIN tr = Images
                           /\ \A i \in Images : Known(im[i], tr[i])
            T == {k \in Nat : k \in 0..Len(q) => All(f[k], g[k])}
<1>7. 0 \in T BY <1>4, <1>5 DEF Goes, Layouts
<1>8. ASSUME NEW k \in T PROVE k + 1 \in T
  <2>1. SUFFICES ASSUME k + 1 \in 0..Len(q) PROVE All(f[k + 1], g[k + 1]) OBVIOUS
  <2>2. k \in Nat /\ k \in 0..Len(q) /\ k + 1 \in 1..Len(q) BY <1>3, <2>1
  <2>3. All(f[k], g[k]) BY <1>8, <2>2
  <2>. HIDE DEF T
  <2>4. PICK im, tr, x, i : im = f[k] /\ tr = g[k] /\ x = q[k + 1] /\ i = x.image OBVIOUS
  <2>5. f[k + 1] = Believed(im, x) /\ g[k + 1] = Truly(tr, x)
    BY <1>4, <1>5, <2>2, <2>4 DEF Goes, Step
  <2>6. PICK known, new : /\ known = HostBarrier(im[i], x)
                          /\ new = [p \in Parts |-> IF p \in x.range THEN x.new ELSE tr[i][p]]
    OBVIOUS
  <2>7. f[k + 1] = [im EXCEPT ![i] = known] BY <2>4, <2>5, <2>6 DEF Believed
  <2>8. g[k + 1] = [tr EXCEPT ![i] = new] BY <2>4, <2>5, <2>6 DEF Truly
  <2>9. DOMAIN im = Images /\ DOMAIN tr = Images /\ \A j \in Images : Known(im[j], tr[j])
    BY <2>3, <2>4
  <2>10. i \in Images => Known(known, new) BY <2>6, <2>9, HostBarrierKnows
  <2>11. DOMAIN f[k + 1] = Images /\ DOMAIN g[k + 1] = Images BY <2>7, <2>8, <2>9
  <2>12. ASSUME NEW j \in Images PROVE Known(f[k + 1][j], g[k + 1][j])
    <3>1. CASE j = i
      <4>1. f[k + 1][j] = known /\ g[k + 1][j] = new BY <2>7, <2>8, <2>9, <3>1
      <4>. QED BY <2>10, <3>1, <4>1
    <3>2. CASE j # i
      <4>1. f[k + 1][j] = im[j] /\ g[k + 1][j] = tr[j] BY <2>7, <2>8, <2>9, <3>2
      <4>. QED BY <2>9, <4>1
    <3>. QED BY <3>1, <3>2
  <2>. QED BY <2>11, <2>12
<1>9. T = Nat BY <1>7, <1>8, Induction
<1>10. All(f[Len(q)], g[Len(q)]) BY <1>3, <1>9
<1>. QED BY <1>6, <1>10 DEF Layouts

\* Only the host's execution changes what is known or what is true.
LEMMA CallLeavesImages ==
    ASSUME NEW s, Call(s)
    PROVE  image' = image /\ truth' = truth
<1>1. (\E c, calls : Recorded(s, c, calls)) => image' = image /\ truth' = truth BY DEF Recorded
<1>2. (\E c : Does(s, c)) => image' = image /\ truth' = truth BY DEF Does, Recorded
<1>3. vkBeginCommandBuffer(s) => image' = image /\ truth' = truth
  BY DEF vkBeginCommandBuffer, Recorded
<1>4. vkCmdBeginRenderPass(s) => image' = image /\ truth' = truth
  BY DEF vkCmdBeginRenderPass, Recorded
<1>5. vkCmdExecuteCommands(s) => image' = image /\ truth' = truth
  BY DEF vkCmdExecuteCommands, Recorded
<1>. QED
  BY <1>2, <1>3, <1>4, <1>5
     DEF Call, vkCmdBindPipeline, vkCmdBindVertexBuffers, vkCmdBindIndexBuffer,
         vkCmdSetDynamicState, vkCmdPushConstants, vkCmdBindDescriptorSets, vkCmdBeginRendering,
         vkCmdEndRendering, vkCmdDraw, vkCmdClearAttachments, vkCmdPipelineBarrier, vkCmdSetEvent,
         vkCmdWaitEvents, vkCmdNextSubpass, vkCmdEndRenderPass, vkCmdTransfer, vkCmdFillOrUpdate,
         vkCmdDispatch, vkCmdQuery

\* In the beginning nothing is cached and every subresource is undefined.
LEMMA LayoutsStart ==
    ASSUME FInit
    PROVE  Layouts
<1>1. PICK w : w = [current |-> "undefined", mixed |-> FALSE, ranges |-> <<>>, overflow |-> FALSE]
  OBVIOUS
<1>2. PICK z : z = [p \in Parts |-> "undefined"] OBVIOUS
<1>3. image = [i \in Images |-> w] /\ truth = [i \in Images |-> z]
  BY <1>1, <1>2 DEF FInit, Init
<1>4. /\ DOMAIN w = {"current", "mixed", "ranges", "overflow"}
      /\ w.ranges = <<>> /\ w.current = "undefined"
  BY <1>1
<1>5. \A p \in Parts : z[p] = "undefined" BY <1>2
<1>6. IsSeq(w.ranges) /\ DOMAIN w.ranges = {} BY <1>4, SeqEmpty
<1>7. Known(w, z) BY <1>4, <1>5, <1>6 DEF Known
<1>. QED BY <1>3, <1>7 DEF Layouts

\* Only barriers that the host executes change what is believed, and what is true.
LEMMA LayoutsStep ==
    ASSUME Recording, Layouts, [FNext]_fvars
    PROVE  Layouts'
<1>1. CASE FNext
  <2>1. CASE \E s \in Head(script) : Call(s)
    <3>1. image' = image /\ truth' = truth BY <2>1, CallLeavesImages
    <3>. QED BY <3>1 DEF Layouts
  <2>2. CASE \E s \in Head(script) :
                \/ HostRuns(cb[s.b], OpsBefore(cb[s.b]))
                \/ HostRuns(cb[s.b], OpsBefore(cb[s.b]) \o OpsAfter(cb[s.b]))
    <3>1. PICK s \in Head(script) :
                \/ HostRuns(cb[s.b], OpsBefore(cb[s.b]))
                \/ HostRuns(cb[s.b], OpsBefore(cb[s.b]) \o OpsAfter(cb[s.b]))
      BY <2>2
    <3>2. CallOK(s) BY <1>1, StepIs, RestOfScript DEF Recording
    <3>3. s.b \in Buffers BY <3>2 DEF CallOK
    <3>4. PICK c : c = cb[s.b] OBVIOUS
    <3>5. Formed(c) BY <3>3, <3>4 DEF Recording
    <3>6. IsSeq(OpsBefore(c)) /\ IsSeq(OpsBefore(c) \o OpsAfter(c)) BY <3>5, AroundSeq
    <3>. QED BY <3>1, <3>4, <3>6, HostKnows
  <2>. QED BY <1>1, <2>1, <2>2, StepIs
<1>2. CASE UNCHANGED fvars
  <2>1. image' = image /\ truth' = truth BY <1>2 DEF fvars, vars
  <2>. QED BY <2>1 DEF Layouts
<1>. QED BY <1>1, <1>2

\* What the ICD knows of the layouts of an image, as long as it has not given the
\* cache up, is what the barriers it executed left in each subresource (the range
\* cache of an image in pdocker_vulkan_icd.c).
THEOREM KnownLayoutsAreTrue == FSpec => []LayoutIsKnown
<1>1. FInit => Layouts BY LayoutsStart
<1>2. Recording /\ Layouts /\ [FNext]_fvars => Layouts' BY LayoutsStep
<1>3. Layouts => LayoutIsKnown
  <2>1. SUFFICES ASSUME Layouts, NEW i \in Images, ~image[i].overflow, NEW p \in Parts
        PROVE  LET rows == image[i].ranges
                   mine == {n \in DOMAIN rows : p \in rows[n].range}
               IN  /\ mine = {} => truth[i][p] = image[i].current
                   /\ \A n \in mine : truth[i][p] = rows[n].layout
    BY DEF LayoutIsKnown
  <2>2. Known(image[i], truth[i]) BY <2>1 DEF Layouts
  <2>. QED BY <2>1, <2>2 DEF Known
<1>. QED BY <1>1, <1>2, <1>3, RecordingIsFormed, PTL DEF FSpec

----------------------------------------------------------------------------
\* The layouts that the replay follows

\* The tables of a frame are sequences.
IsFrame(v) == "t" \in DOMAIN v /\ \A s \in Sections : IsSeq(v.t[s])

\* What the executor believes of the image layouts while it replays: of an image
\* that was sent with several, the layout of each subresource is the one that the
\* last move over it left, or the first; its own moves so far began there.
Follows(w, n, im, moves) ==
    /\ DOMAIN im = {"active", "current", "ranges"}
    /\ im.active = FirstLayouts(w)[n].active
    /\ \A e \in im.ranges : DOMAIN e = {"range", "layout"}
    /\ im.active => \A p : LayoutOf(im, {p}) = LayoutBefore(w, moves, Len(moves) + 1, n, p)
Tracks(w, acc) ==
    /\ {"ok", "layouts", "moves"} \subseteq DOMAIN acc
    /\ IsSeq(acc.moves)
    /\ DOMAIN acc.layouts = Numbers(w, "image")
    /\ \A n \in Numbers(w, "image") : Follows(w, n, acc.layouts[n], acc.moves)
    /\ Chained(w, acc.moves)

\* A move is the last one from then on, over its range; nothing earlier changes.
LEMMA LayoutAfterMove ==
    ASSUME NEW w, NEW moves, IsSeq(moves), NEW m, NEW n, NEW p
    PROVE  /\ \A k \in 1..Len(moves) + 1 :
                LayoutBefore(w, Append(moves, m), k, n, p) = LayoutBefore(w, moves, k, n, p)
           /\ LayoutBefore(w, Append(moves, m), Len(moves) + 2, n, p) =
                IF m.image = n /\ p \in m.range THEN m.new
                ELSE LayoutBefore(w, moves, Len(moves) + 1, n, p)
<1>1. PICK q : q = Append(moves, m) OBVIOUS
<1>2. PICK L : L = Len(moves) OBVIOUS
<1>3. /\ L \in Nat /\ q[L + 1] = m
      /\ \A j \in 1..L : q[j] = moves[j]
  BY <1>1, <1>2, SeqAppended, SeqFacts
<1>. DEFINE Over(s, k) == {j \in 1..k - 1 : s[j].image = n /\ p \in s[j].range}
<1>4. ASSUME NEW k \in 1..L + 1
      PROVE  LayoutBefore(w, q, k, n, p) = LayoutBefore(w, moves, k, n, p)
  <2>1. k - 1 \in Nat /\ \A j \in 1..k - 1 : j \in 1..L BY <1>3
  <2>2. Over(q, k) = Over(moves, k) BY <1>3, <2>1
  <2>3. Over(moves, k) \in SUBSET (1..(k - 1)) OBVIOUS
  <2>4. ASSUME Over(moves, k) # {}
        PROVE  q[Max(Over(moves, k))] = moves[Max(Over(moves, k))]
    <3>1. PICK s : s = Over(moves, k) OBVIOUS
    <3>2. Max(s) \in s BY <2>1, <2>3, <2>4, <3>1, MaxOf
    <3>3. Max(s) \in 1..L BY <2>1, <2>3, <3>1, <3>2
    <3>. QED BY <1>3, <3>1, <3>3
  <2>. QED BY <2>2, <2>4 DEF LayoutBefore
<1>5. LayoutBefore(w, q, L + 2, n, p) =
        IF m.image = n /\ p \in m.range THEN m.new ELSE LayoutBefore(w, moves, L + 1, n, p)
  <2>1. L + 1 \in Nat /\ (L + 2) - 1 = L + 1 /\ L + 1 \in 1..(L + 1) BY <1>3
  <2>2. CASE m.image = n /\ p \in m.range
    <3>1. PICK s : s = Over(q, L + 2) OBVIOUS
    <3>2. s \in SUBSET (1..(L + 1)) BY <2>1, <3>1
    <3>3. L + 1 \in s BY <1>3, <2>1, <2>2, <3>1
    <3>4. Max(s) \in s /\ L + 1 <= Max(s) BY <2>1, <3>2, <3>3, MaxOf
    <3>a. PICK x : x = Max(s) OBVIOUS
    <3>b. x \in 1..(L + 1) /\ L + 1 <= x BY <3>2, <3>4, <3>a
    <3>5. Max(s) = L + 1 BY <1>3, <3>a, <3>b
    <3>6. LayoutBefore(w, q, L + 2, n, p) = q[Max(s)].new BY <3>1, <3>3 DEF LayoutBefore
    <3>. QED BY <1>3, <2>2, <3>5, <3>6
  <2>3. CASE ~(m.image = n /\ p \in m.range)
    <3>1. \A j \in 1..(L + 1) : j \in 1..L \/ j = L + 1 BY <1>3
    <3>2. 1..(L + 2) - 1 = 1..(L + 1) /\ 1..(L + 1) - 1 = 1..L BY <1>3
    <3>3. Over(q, L + 2) = Over(q, L + 1)
      <4>1. \A j \in Over(q, L + 2) : j \in Over(q, L + 1) BY <1>3, <2>3, <3>1, <3>2
      <4>2. \A j \in Over(q, L + 1) : j \in Over(q, L + 2) BY <1>3, <3>2
      <4>. QED BY <4>1, <4>2
    <3>4. LayoutBefore(w, q, L + 2, n, p) = LayoutBefore(w, q, L + 1, n, p)
      BY <3>3 DEF LayoutBefore
    <3>. QED BY <1>4, <2>1, <2>3, <3>4
  <2>. QED BY <2>2, <2>3
<1>. QED BY <1>1, <1>2, <1>3, <1>4, <1>5

\* The layout of a range depends on the entries it meets, and else on the image's.
LEMMA SameNamed ==
    ASSUME NEW a, NEW b, a.active, b.active, a.current = b.current,
           NEW q, NEW r, Named(a, q) = Named(b, r)
    PROVE  LayoutOf(a, q) = LayoutOf(b, r)
<1>1. CASE Named(a, q) = {} BY <1>1 DEF LayoutOf
<1>2. CASE Named(a, q) # {}
  <2>1. LayoutOf(a, q) = (CHOOSE e \in Named(a, q) : TRUE).layout BY <1>2 DEF LayoutOf
  <2>2. LayoutOf(b, r) = (CHOOSE e \in Named(b, r) : TRUE).layout BY <1>2 DEF LayoutOf
  <2>. QED BY <2>1, <2>2
<1>. QED BY <1>1, <1>2

\* A layout has been written over a range.
Written(im, new, range, layout) ==
    /\ DOMAIN new = {"active", "current", "ranges"} /\ new.active = im.active
    /\ \A e \in new.ranges : DOMAIN e = {"range", "layout"}
    /\ \A p : LayoutOf(new, {p}) = IF p \in range THEN layout ELSE LayoutOf(im, {p})

\* Of an image with ranges, a layout that may be written over a range is written
\* for the subresources of the range and no others
\* (vulkan_replay_image_set_layout_for_range).
LEMMA WrittenLayouts ==
    ASSUME NEW im, DOMAIN im = {"active", "current", "ranges"}, im.active,
           \A e \in im.ranges : DOMAIN e = {"range", "layout"},
           NEW range, Writable(im, range), NEW layout, NEW new, new = WithLayout(im, range, layout)
    PROVE  Written(im, new, range, layout)
<1>1. new = WithLayout(im, range, layout) OBVIOUS
<1>2. PICK rows : /\ rows = new.ranges
                  /\ new = [im EXCEPT !.ranges = rows]
                  /\ rows = IF Named(im, range) = {}
                            THEN im.ranges \cup {[range |-> range, layout |-> layout]}
                            ELSE {IF Overlaps(e.range, range) THEN [e EXCEPT !.layout = layout]
                                  ELSE e : e \in im.ranges}
  <2>1. CASE Named(im, range) = {}
    <3>1. new = [im EXCEPT !.ranges = im.ranges \cup {[range |-> range, layout |-> layout]}]
      BY <1>1, <2>1 DEF WithLayout
    <3>2. new.ranges = im.ranges \cup {[range |-> range, layout |-> layout]} BY <3>1
    <3>. QED BY <2>1, <3>1, <3>2
  <2>2. CASE Named(im, range) # {}
    <3>1. new = [im EXCEPT !.ranges = {IF Overlaps(e.range, range)
                                       THEN [e EXCEPT !.layout = layout] ELSE e : e \in im.ranges}]
      BY <1>1, <2>2 DEF WithLayout
    <3>2. new.ranges = {IF Overlaps(e.range, range) THEN [e EXCEPT !.layout = layout] ELSE e :
                        e \in im.ranges}
      BY <3>1
    <3>. QED BY <2>2, <3>1, <3>2
  <2>. QED BY <2>1, <2>2
<1>3. /\ DOMAIN new = {"active", "current", "ranges"}
      /\ new.active = im.active /\ new.current = im.current /\ new.ranges = rows
  BY <1>2
<1>4. \A e \in im.ranges : Overlaps(e.range, range) => e.range = range BY DEF Writable, Named
<1>5. \A r \in rows : /\ DOMAIN r = {"range", "layout"}
                      /\ \/ r.range = range /\ r.layout = layout
                         \/ r \in im.ranges /\ ~Overlaps(r.range, range)
  <2>1. CASE Named(im, range) = {} BY <1>2, <2>1 DEF Named
  <2>2. CASE Named(im, range) # {}
    <3>1. SUFFICES ASSUME NEW r \in rows
          PROVE  /\ DOMAIN r = {"range", "layout"}
                 /\ \/ r.range = range /\ r.layout = layout
                    \/ r \in im.ranges /\ ~Overlaps(r.range, range)
      OBVIOUS
    <3>2. PICK e \in im.ranges : r = IF Overlaps(e.range, range) THEN [e EXCEPT !.layout = layout]
                                     ELSE e
      BY <1>2, <2>2
    <3>3. DOMAIN e = {"range", "layout"} OBVIOUS
    <3>4. CASE Overlaps(e.range, range)
      <4>1. r = [e EXCEPT !.layout = layout] BY <3>2, <3>4
      <4>2. DOMAIN r = {"range", "layout"} /\ r.range = e.range /\ r.layout = layout
        BY <3>3, <4>1
      <4>. QED BY <1>4, <3>4, <4>2
    <3>5. CASE ~Overlaps(e.range, range) BY <3>2, <3>3, <3>5
    <3>. QED BY <3>4, <3>5
  <2>. QED BY <2>1, <2>2
<1>6. \A e \in im.ranges : ~Overlaps(e.range, range) => e \in rows BY <1>2
<1>7. range # {} => \E r \in rows : r.range = range
  <2>1. CASE Named(im, range) = {}
    <3>1. [range |-> range, layout |-> layout] \in rows BY <1>2, <2>1
    <3>. QED BY <3>1
  <2>2. CASE Named(im, range) # {}
    <3>1. PICK e \in im.ranges : Overlaps(e.range, range) BY <2>2 DEF Named
    <3>2. [e EXCEPT !.layout = layout] \in rows BY <1>2, <2>2, <3>1
    <3>3. [e EXCEPT !.layout = layout].range = range BY <1>4, <3>1
    <3>. QED BY <3>2, <3>3
  <2>. QED BY <2>1, <2>2
<1>8. ASSUME NEW p PROVE LayoutOf(new, {p}) = IF p \in range THEN layout ELSE LayoutOf(im, {p})
  <2>1. Named(new, {p}) = {r \in rows : p \in r.range} BY <1>3 DEF Named, Overlaps
  <2>2. Named(im, {p}) = {e \in im.ranges : p \in e.range} BY DEF Named, Overlaps
  <2>3. CASE p \in range
    <3>1. \A r \in Named(new, {p}) : r.layout = layout
      BY <1>5, <2>1, <2>3 DEF Overlaps
    <3>2. Named(new, {p}) # {} BY <1>7, <2>1, <2>3
    <3>. QED BY <1>3, <2>3, <3>1, <3>2 DEF LayoutOf
  <2>4. CASE p \notin range
    <3>1. \A r \in Named(new, {p}) : r \in Named(im, {p}) BY <1>5, <2>1, <2>2, <2>4
    <3>2. \A e \in Named(im, {p}) : e \in Named(new, {p})
      BY <1>4, <1>6, <2>1, <2>2, <2>4
    <3>3. Named(new, {p}) = Named(im, {p}) BY <3>1, <3>2
    <3>4. new.active /\ im.active BY <1>3
    <3>. QED BY <1>3, <2>4, <3>3, <3>4, SameNamed
  <2>. QED BY <2>3, <2>4
<1>. QED BY <1>3, <1>5, <1>8 DEF Written

\* A layout that is read of a range is that of each of its subresources
\* (vulkan_replay_image_layout_for_range).
LEMMA ReadLayouts ==
    ASSUME NEW im, NEW range, Readable(im, range), NEW p \in range
    PROVE  LayoutOf(im, range) = LayoutOf(im, {p})
<1>1. \A e \in Named(im, range) : e \in Named(im, {p}) BY DEF Readable, Named, Overlaps
<1>2. \A e \in Named(im, {p}) : e \in Named(im, range) BY DEF Named, Overlaps
<1>3. Named(im, range) = Named(im, {p}) BY <1>1, <1>2
<1>. QED BY <1>3 DEF LayoutOf

\* What a step of the replay leaves alone
Same(acc, d) == /\ {"ok", "layouts", "moves"} \subseteq DOMAIN d
                /\ d.layouts = acc.layouts /\ d.moves = acc.moves

\* A step that moves no image keeps track.
LEMMA SameTracks ==
    ASSUME NEW w, NEW acc, Tracks(w, acc), NEW d, Same(acc, d)
    PROVE  Tracks(w, d)
BY DEF Tracks, Same

\* A move that is not refused keeps track of the layouts: it writes what it
\* leaves, and one of the replay's own reads first where it begins.
LEMMA MoveTracks ==
    ASSUME NEW w, NEW acc, Tracks(w, acc), NEW i \in Numbers(w, "image"),
           NEW range, NEW new, NEW own \in BOOLEAN
    PROVE  Tracks(w, Move(acc, i, range, new, own))
<1>1. PICK im : im = acc.layouts[i] OBVIOUS
<1>2. Follows(w, i, im, acc.moves) BY <1>1 DEF Tracks
<1>3. CASE im.active /\ (~Writable(im, range) \/ (own /\ ~Readable(im, range)))
  <2>1. Move(acc, i, range, new, own) = [acc EXCEPT !.ok = FALSE] BY <1>1, <1>3 DEF Move
  <2>2. Same(acc, [acc EXCEPT !.ok = FALSE]) BY DEF Tracks, Same
  <2>. QED BY <2>1, <2>2, SameTracks
<1>4. CASE ~(im.active /\ (~Writable(im, range) \/ (own /\ ~Readable(im, range))))
  <2>1. PICK m : m = [image |-> i, range |-> range, new |-> new,
                      old |-> IF own THEN LayoutOf(im, range) ELSE None]
    OBVIOUS
  <2>2. m.image = i /\ m.range = range /\ m.new = new
        /\ m.old = IF own THEN LayoutOf(im, range) ELSE None
    BY <2>1
  <2>3. PICK q : q = Append(acc.moves, m) OBVIOUS
  <2>4. PICK x : x = WithLayout(im, range, new) OBVIOUS
  <2>5. PICK d : d = [acc EXCEPT !.layouts[i] = x, !.moves = q] OBVIOUS
  <2>6. Move(acc, i, range, new, own) = d BY <1>1, <1>4, <2>1, <2>3, <2>4, <2>5 DEF Move
  <2>7. /\ {"ok", "layouts", "moves"} \subseteq DOMAIN d /\ d.moves = q
        /\ d.layouts = [acc.layouts EXCEPT ![i] = x]
    BY <2>5 DEF Tracks
  <2>8. PICK L : L = Len(acc.moves) OBVIOUS
  <2>9. /\ L \in Nat /\ IsSeq(q) /\ Len(q) = L + 1 /\ q[L + 1] = m
        /\ \A j \in 1..L : q[j] = acc.moves[j]
        /\ DOMAIN q = 1..(L + 1) /\ DOMAIN acc.moves = 1..L
    BY <2>3, <2>8, SeqAppended, SeqFacts DEF Tracks
  <2>10. /\ \A n, p : \A k \in 1..L + 1 :
                LayoutBefore(w, q, k, n, p) = LayoutBefore(w, acc.moves, k, n, p)
         /\ \A n, p : LayoutBefore(w, q, L + 2, n, p) =
                        IF i = n /\ p \in range THEN new ELSE LayoutBefore(w, acc.moves, L + 1, n, p)
    <3>1. IsSeq(acc.moves) BY DEF Tracks
    <3>. QED BY <2>2, <2>3, <2>8, <3>1, LayoutAfterMove
  <2>11. Len(q) + 1 = L + 2 BY <2>9
  <2>12. Follows(w, i, x, q)
    <3>1. CASE ~im.active
      <4>1. x = [im EXCEPT !.current = new] BY <2>4, <3>1 DEF WithLayout
      <4>2. /\ DOMAIN x = {"active", "current", "ranges"}
            /\ x.active = im.active /\ x.ranges = im.ranges
        BY <1>2, <4>1 DEF Follows
      <4>. QED BY <1>2, <3>1, <4>2 DEF Follows
    <3>2. CASE im.active
      <4>1. Writable(im, range) BY <1>4, <3>2
      <4>2. DOMAIN im = {"active", "current", "ranges"}
            /\ \A e \in im.ranges : DOMAIN e = {"range", "layout"}
        BY <1>2 DEF Follows
      <4>3. Written(im, x, range, new) BY <2>4, <3>2, <4>1, <4>2, WrittenLayouts
      <4>4. \A p : LayoutOf(im, {p}) = LayoutBefore(w, acc.moves, L + 1, i, p)
        BY <1>2, <2>8, <3>2 DEF Follows
      <4>5. \A p : LayoutOf(x, {p}) = LayoutBefore(w, q, L + 2, i, p) BY <2>10, <4>3, <4>4 DEF Written
      <4>. QED BY <1>2, <2>11, <4>3, <4>5 DEF Follows, Written
    <3>. QED BY <3>1, <3>2
  <2>13. ASSUME NEW n \in Numbers(w, "image") PROVE Follows(w, n, d.layouts[n], q)
    <3>1. CASE n = i BY <2>7, <2>12, <3>1 DEF Tracks
    <3>2. CASE n # i
      <4>1. d.layouts[n] = acc.layouts[n] BY <2>7, <3>2 DEF Tracks
      <4>2. Follows(w, n, acc.layouts[n], acc.moves) BY DEF Tracks
      <4>3. \A p : LayoutBefore(w, q, L + 2, n, p) = LayoutBefore(w, acc.moves, L + 1, n, p)
        BY <2>10, <3>2
      <4>. QED BY <2>8, <2>11, <4>1, <4>2, <4>3 DEF Follows
    <3>. QED BY <3>1, <3>2
  <2>14. Chained(w, q)
    <3>1. SUFFICES ASSUME NEW k \in DOMAIN q, q[k].old # None, FirstLayouts(w)[q[k].image].active,
                          NEW p \in q[k].range
          PROVE  LayoutBefore(w, q, k, q[k].image, p) = q[k].old
      BY DEF Chained
    <3>2. k \in 1..(L + 1) BY <2>9
    <3>3. LayoutBefore(w, q, k, q[k].image, p) = LayoutBefore(w, acc.moves, k, q[k].image, p)
      BY <2>10, <3>2
    <3>4. CASE k \in 1..L
      <4>1. q[k] = acc.moves[k] /\ k \in DOMAIN acc.moves BY <2>9, <3>4
      <4>2. Chained(w, acc.moves) BY DEF Tracks
      <4>. QED BY <3>1, <3>3, <4>1, <4>2 DEF Chained
    <3>5. CASE k = L + 1
      <4>1. q[k] = m BY <2>9, <3>5
      <4>2. own /\ m.old = LayoutOf(im, range) /\ p \in range BY <2>2, <3>1, <4>1
      <4>3. im.active BY <1>2, <2>2, <3>1, <4>1 DEF Follows
      <4>4. Readable(im, range) BY <1>4, <4>2, <4>3
      <4>5. LayoutOf(im, range) = LayoutOf(im, {p}) BY <4>2, <4>4, ReadLayouts
      <4>6. LayoutOf(im, {p}) = LayoutBefore(w, acc.moves, L + 1, i, p)
        BY <1>2, <2>8, <4>3 DEF Follows
      <4>. QED BY <2>2, <3>3, <3>5, <4>1, <4>2, <4>5, <4>6
    <3>6. k \in 1..L \/ k = L + 1 BY <2>9, <3>2
    <3>. QED BY <3>4, <3>5, <3>6
  <2>15. DOMAIN d.layouts = Numbers(w, "image") BY <2>7 DEF Tracks
  <2>16. Tracks(w, d) BY <2>7, <2>9, <2>13, <2>14, <2>15 DEF Tracks
  <2>. QED BY <2>6, <2>16
<1>. QED BY <1>3, <1>4

\* The replay begins with the layouts that the frame brought.
LEMMA FreshTracks ==
    ASSUME NEW w
    PROVE  Tracks(w, FreshReplay(w))
<1>1. PICK d : d = FreshReplay(w) OBVIOUS
<1>2. /\ {"ok", "layouts", "moves"} \subseteq DOMAIN d
      /\ d.layouts = FirstLayouts(w) /\ d.moves = <<>>
  BY <1>1 DEF FreshReplay
<1>3. IsSeq(d.moves) /\ Len(d.moves) = 0 /\ DOMAIN d.moves = {} BY <1>2, SeqEmpty
<1>4. DOMAIN d.layouts = Numbers(w, "image") BY <1>2 DEF FirstLayouts
<1>5. ASSUME NEW n \in Numbers(w, "image") PROVE Follows(w, n, d.layouts[n], d.moves)
  <2>1. PICK mine : mine = {x \in ToSet(w.t["layoutRange"]) : x.image = n} OBVIOUS
  <2>2. PICK im : im = d.layouts[n] OBVIOUS
  <2>3. im = [active |-> mine # {}, current |-> At(w, "image", n).layout,
              ranges |-> {[range |-> x.range, layout |-> x.layout] : x \in mine}]
    BY <1>2, <2>1, <2>2 DEF FirstLayouts
  <2>4. /\ DOMAIN im = {"active", "current", "ranges"}
        /\ \A e \in im.ranges : DOMAIN e = {"range", "layout"}
    BY <2>3
  <2>5. Len(d.moves) + 1 = 1 BY <1>3
  <2>6. ASSUME NEW p PROVE LayoutBefore(w, d.moves, 1, n, p) = LayoutOf(im, {p})
    <3>1. {j \in 1..1 - 1 : d.moves[j].image = n /\ p \in d.moves[j].range} = {} OBVIOUS
    <3>2. im = FirstLayouts(w)[n] BY <1>2, <2>2
    <3>. QED BY <3>1, <3>2 DEF LayoutBefore
  <2>7. im.active = FirstLayouts(w)[n].active BY <1>2, <2>2
  <2>. QED BY <2>2, <2>4, <2>5, <2>6, <2>7 DEF Follows
<1>6. Chained(w, d.moves) BY <1>3 DEF Chained
<1>. QED BY <1>1, <1>2, <1>3, <1>4, <1>5, <1>6 DEF Tracks

----------------------------------------------------------------------------
\* The loops of the executor

CheckLoop(v, acc, q) == FoldLeft(LAMBDA b, n : IF b.ok THEN CheckCommand(v, b, n) ELSE b, acc, q)

\* The walk over the commands before the replay goes step by step.
LEMMA CheckFold ==
    ASSUME NEW v, NEW acc, NEW q, Len(q) \in Nat, DOMAIN q = 1..Len(q)
    PROVE  \E h : Goes("preflight", v, h, acc, q) /\ h[Len(q)] = CheckLoop(v, acc, q)
<1>. DEFINE P(g) == g = [s \in SUBSET (DOMAIN q) |->
                           IF s = {} THEN acc ELSE IF g[s \ {Max(s)}].ok THEN CheckCommand(v, g[s \ {Max(s)}], q[Max(s)])
                           ELSE g[s \ {Max(s)}]]
<1>1. PICK f : Unfolds("preflight", v, f, acc, q, Len(q)) /\ f = CHOOSE g : P(g)
  <2>1. \A g : P(g) <=> Unfolds("preflight", v, g, acc, q, Len(q)) BY DEF Unfolds, Step, Below
  <2>2. \E g : Unfolds("preflight", v, g, acc, q, Len(q)) BY UnfoldingExists
  <2>. HIDE DEF P
  <2>. QED BY <2>1, <2>2
<1>2. CheckLoop(v, acc, q) = f[1..Len(q)] BY <1>1 DEF CheckLoop, FoldLeft, MapThenFoldSet
<1>. HIDE DEF P
<1>3. Unfolds("preflight", v, f, acc, q, Len(q)) BY <1>1
<1>4. PICK h : Goes("preflight", v, h, acc, q) /\ h[Len(q)] = f[1..Len(q)] BY <1>3, UnfoldingGoes
<1>. QED BY <1>2, <1>4

ReplayLoop(v, acc, q) == FoldLeft(LAMBDA b, n : IF b.ok THEN ReplayCommand(v, b, n) ELSE b, acc, q)

\* So does the replay of the commands.
LEMMA ReplayFold ==
    ASSUME NEW v, NEW acc, NEW q, Len(q) \in Nat, DOMAIN q = 1..Len(q)
    PROVE  \E h : Goes("replay", v, h, acc, q) /\ h[Len(q)] = ReplayLoop(v, acc, q)
<1>. DEFINE P(g) == g = [s \in SUBSET (DOMAIN q) |->
                           IF s = {} THEN acc ELSE IF g[s \ {Max(s)}].ok THEN ReplayCommand(v, g[s \ {Max(s)}], q[Max(s)])
                           ELSE g[s \ {Max(s)}]]
<1>1. PICK f : Unfolds("replay", v, f, acc, q, Len(q)) /\ f = CHOOSE g : P(g)
  <2>1. \A g : P(g) <=> Unfolds("replay", v, g, acc, q, Len(q)) BY DEF Unfolds, Step, Below
  <2>2. \E g : Unfolds("replay", v, g, acc, q, Len(q)) BY UnfoldingExists
  <2>. HIDE DEF P
  <2>. QED BY <2>1, <2>2
<1>2. ReplayLoop(v, acc, q) = f[1..Len(q)] BY <1>1 DEF ReplayLoop, FoldLeft, MapThenFoldSet
<1>. HIDE DEF P
<1>3. Unfolds("replay", v, f, acc, q, Len(q)) BY <1>1
<1>4. PICK h : Goes("replay", v, h, acc, q) /\ h[Len(q)] = f[1..Len(q)] BY <1>3, UnfoldingGoes
<1>. QED BY <1>2, <1>4

AttachmentLoop(v, acc, q) == 
    FoldLeft(LAMBDA b, a : MoveView(MoveView(b, v, a.view, a.role), v, a.resolve, a.role), acc, q)

\* So does the loop over the attachments of a rendering.
LEMMA AttachmentFold ==
    ASSUME NEW v, NEW acc, NEW q, Len(q) \in Nat, DOMAIN q = 1..Len(q)
    PROVE  \E h : Goes("attachment", v, h, acc, q) /\ h[Len(q)] = AttachmentLoop(v, acc, q)
<1>. DEFINE P(g) == g = [s \in SUBSET (DOMAIN q) |->
                           IF s = {} THEN acc ELSE 
                             MoveView(MoveView(g[s \ {Max(s)}], v, q[Max(s)].view, q[Max(s)].role), v,
                                      q[Max(s)].resolve, q[Max(s)].role)]
<1>1. PICK f : Unfolds("attachment", v, f, acc, q, Len(q)) /\ f = CHOOSE g : P(g)
  <2>1. \A g : P(g) <=> Unfolds("attachment", v, g, acc, q, Len(q)) BY DEF Unfolds, Step, Below
  <2>2. \E g : Unfolds("attachment", v, g, acc, q, Len(q)) BY UnfoldingExists
  <2>. HIDE DEF P
  <2>. QED BY <2>1, <2>2
<1>2. AttachmentLoop(v, acc, q) = f[1..Len(q)] BY <1>1 DEF AttachmentLoop, FoldLeft, MapThenFoldSet
<1>. HIDE DEF P
<1>3. Unfolds("attachment", v, f, acc, q, Len(q)) BY <1>1
<1>4. PICK h : Goes("attachment", v, h, acc, q) /\ h[Len(q)] = f[1..Len(q)] BY <1>3, UnfoldingGoes
<1>. QED BY <1>2, <1>4

DescriptorLoop(v, acc, q) == FoldLeft(LAMBDA b, d : MoveView(b, v, d.view, "sampled"), acc, q)

\* So does the loop over the descriptors of a bind.
LEMMA DescriptorFold ==
    ASSUME NEW v, NEW acc, NEW q, Len(q) \in Nat, DOMAIN q = 1..Len(q)
    PROVE  \E h : Goes("descriptor", v, h, acc, q) /\ h[Len(q)] = DescriptorLoop(v, acc, q)
<1>. DEFINE P(g) == g = [s \in SUBSET (DOMAIN q) |->
                           IF s = {} THEN acc ELSE MoveView(g[s \ {Max(s)}], v, q[Max(s)].view, "sampled")]
<1>1. PICK f : Unfolds("descriptor", v, f, acc, q, Len(q)) /\ f = CHOOSE g : P(g)
  <2>1. \A g : P(g) <=> Unfolds("descriptor", v, g, acc, q, Len(q)) BY DEF Unfolds, Step, Below
  <2>2. \E g : Unfolds("descriptor", v, g, acc, q, Len(q)) BY UnfoldingExists
  <2>. HIDE DEF P
  <2>. QED BY <2>1, <2>2
<1>2. DescriptorLoop(v, acc, q) = f[1..Len(q)] BY <1>1 DEF DescriptorLoop, FoldLeft, MapThenFoldSet
<1>. HIDE DEF P
<1>3. Unfolds("descriptor", v, f, acc, q, Len(q)) BY <1>1
<1>4. PICK h : Goes("descriptor", v, h, acc, q) /\ h[Len(q)] = f[1..Len(q)] BY <1>3, UnfoldingGoes
<1>. QED BY <1>2, <1>4

MovedLoop(n, acc, q) == 
    FoldLeft(LAMBDA b, x : IF x.command = n THEN Move(b, x.image, x.range, x.new, FALSE) ELSE b,
             acc, q)

\* So does the loop over the image barriers of a frame.
LEMMA MovedFold ==
    ASSUME NEW acc, NEW n, NEW q, Len(q) \in Nat, DOMAIN q = 1..Len(q)
    PROVE  \E h : Goes("moved", n, h, acc, q) /\ h[Len(q)] = MovedLoop(n, acc, q)
<1>. DEFINE P(g) == g = [s \in SUBSET (DOMAIN q) |->
                           IF s = {} THEN acc ELSE IF q[Max(s)].command = n
                           THEN Move(g[s \ {Max(s)}], q[Max(s)].image, q[Max(s)].range, q[Max(s)].new, FALSE)
                           ELSE g[s \ {Max(s)}]]
<1>1. PICK f : Unfolds("moved", n, f, acc, q, Len(q)) /\ f = CHOOSE g : P(g)
  <2>1. \A g : P(g) <=> Unfolds("moved", n, g, acc, q, Len(q)) BY DEF Unfolds, Step, Below
  <2>2. \E g : Unfolds("moved", n, g, acc, q, Len(q)) BY UnfoldingExists
  <2>. HIDE DEF P
  <2>. QED BY <2>1, <2>2
<1>2. MovedLoop(n, acc, q) = f[1..Len(q)] BY <1>1 DEF MovedLoop, FoldLeft, MapThenFoldSet
<1>. HIDE DEF P
<1>3. Unfolds("moved", n, f, acc, q, Len(q)) BY <1>1
<1>4. PICK h : Goes("moved", n, h, acc, q) /\ h[Len(q)] = f[1..Len(q)] BY <1>3, UnfoldingGoes
<1>. QED BY <1>2, <1>4

\* A loop keeps track of the layouts when each of its rounds does.
LEMMA LoopTracks ==
    ASSUME NEW w, NEW kind, NEW a, NEW h, NEW base, NEW q, IsSeq(q), Goes(kind, a, h, base, q),
           Tracks(w, base),
           \A acc : \A k \in DOMAIN q : Tracks(w, acc) => Tracks(w, Step(kind, a, acc, q[k]))
    PROVE  Tracks(w, h[Len(q)])
<1>. DEFINE T == {k \in Nat : k \in 0..Len(q) => Tracks(w, h[k])}
<1>1. Len(q) \in Nat /\ DOMAIN q = 1..Len(q) BY SeqFacts
<1>2. 0 \in T BY DEF Goes
<1>3. ASSUME NEW k \in T PROVE k + 1 \in T
  <2>1. SUFFICES ASSUME k + 1 \in 0..Len(q) PROVE Tracks(w, h[k + 1]) BY <1>3
  <2>2. k \in Nat /\ k \in 0..Len(q) /\ k + 1 \in 1..Len(q) BY <1>1, <2>1
  <2>3. Tracks(w, h[k]) BY <1>3, <2>2
  <2>4. h[k + 1] = Step(kind, a, h[k], q[k + 1]) BY <2>2 DEF Goes
  <2>. QED BY <1>1, <2>2, <2>3, <2>4
<1>4. T = Nat BY <1>2, <1>3, Induction
<1>5. Len(q) \in T BY <1>1, <1>4
<1>. QED BY <1>1, <1>5

----------------------------------------------------------------------------
\* What the checks of a frame give the replay

\* Numbers that name an object, or nothing
Refers(w, s, n) == n = Nowhere \/ n \in Numbers(w, s)

Plain == {"imageCopy", "resolve", "blit"}
Single == {"bufferImageCopy", "clearColor", "clearDepth"}
EntriesName(w) ==
    /\ \A n \in Numbers(w, "view") : At(w, "view", n).image \in Numbers(w, "image")
    /\ \A x \in ToSet(w.t["attachment"]) : Refers(w, "view", x.view) /\ Refers(w, "view", x.resolve)
    /\ \A x \in ToSet(w.t["descriptor"]) : Refers(w, "view", x.view)
    /\ \A x \in ToSet(w.t["imageBarrier"]) : x.image \in Numbers(w, "image")
    /\ \A s \in Single : \A x \in ToSet(w.t[s]) : x.image \in Numbers(w, "image")
    /\ \A s \in Plain : \A x \in ToSet(w.t[s]) : /\ x.src \in Numbers(w, "image")
                                                 /\ x.dst \in Numbers(w, "image")

\* The tables that moves are read from are sequences.
Tabled(w) == \A s \in {"command", "view", "attachment", "descriptor", "imageBarrier"} : IsSeq(w.t[s])

\* An entry by its number is one of the table.
LEMMA NumbersAreEntries ==
    ASSUME NEW w, NEW s, IsSeq(w.t[s]), NEW n \in Numbers(w, s)
    PROVE  n \in Nat /\ n + 1 \in DOMAIN w.t[s] /\ At(w, s, n) \in ToSet(w.t[s])
<1>1. Len(w.t[s]) \in Nat /\ DOMAIN w.t[s] = 1..Len(w.t[s]) BY SeqFacts
<1>2. n \in 0..Len(w.t[s]) - 1 BY DEF Numbers, Rows
<1>3. n \in Nat /\ n + 1 \in DOMAIN w.t[s] BY <1>1, <1>2
<1>. QED BY <1>3 DEF At, ToSet

\* The content checks see to it that entries name objects of the frame.
LEMMA EntriesAreChecked ==
    ASSUME NEW w, Tabled(w), WellFormed(w)
    PROVE  EntriesName(w)
<1>1. \A x \in ToSet(w.t["view"]) : x.image \in Numbers(w, "image")
  BY DEF WellFormed, ImagesFit, Every, IsImage, In, ToSet
<1>2. \A n \in Numbers(w, "view") : At(w, "view", n).image \in Numbers(w, "image")
  BY <1>1, NumbersAreEntries DEF Tabled
<1>3. \A x \in ToSet(w.t["attachment"]) : Refers(w, "view", x.view) /\ Refers(w, "view", x.resolve)
  BY DEF WellFormed, AttachmentsFit, Every, In, ToSet, Refers
<1>4. \A x \in ToSet(w.t["descriptor"]) : Refers(w, "view", x.view)
  BY DEF WellFormed, DescriptorsFit, Every, In, ToSet, Refers
<1>5. \A x \in ToSet(w.t["imageBarrier"]) : x.image \in Numbers(w, "image")
  BY DEF WellFormed, BarriersFit, Every, IsImage, In, ToSet
<1>6. ASSUME NEW s \in Single, NEW x \in ToSet(w.t[s]) PROVE x.image \in Numbers(w, "image")
  BY <1>6 DEF Single, WellFormed, TransfersFit, Every, IsImage, In, ToSet
<1>7. ASSUME NEW s \in Plain, NEW x \in ToSet(w.t[s])
      PROVE  x.src \in Numbers(w, "image") /\ x.dst \in Numbers(w, "image")
  BY <1>7 DEF Plain, WellFormed, TransfersFit, Every, IsImage, In, ToSet
<1>. QED BY <1>2, <1>3, <1>4, <1>5, <1>6, <1>7 DEF EntriesName

\* Where the entry of a transfer is
TransferTable ==
    [COPY_IMAGE |-> "imageCopy", RESOLVE_IMAGE |-> "resolve", BLIT_IMAGE |-> "blit",
     COPY_BUFFER_TO_IMAGE |-> "bufferImageCopy", COPY_IMAGE_TO_BUFFER |-> "bufferImageCopy",
     CLEAR_COLOR_IMAGE |-> "clearColor", CLEAR_DEPTH_STENCIL_IMAGE |-> "clearDepth"]

\* Such a command of a frame that fits has its entry.
LEMMA EntriesExist ==
    ASSUME NEW w, WellFormed(w), NEW n \in Numbers(w, "command"),
           NEW kind \in DOMAIN TransferTable, Kind(w, n) = kind
    PROVE  EntryOf(w, TransferTable[kind], n) \in ToSet(w.t[TransferTable[kind]])
<1>1. \E k \in DOMAIN w.t[TransferTable[kind]] : w.t[TransferTable[kind]][k].command = n
  <2>1. TransfersFit(w) BY DEF WellFormed
  <2>2. CASE kind = "COPY_IMAGE" BY <2>1, <2>2 DEF TransfersFit, Owns, TransferTable
  <2>3. CASE kind = "RESOLVE_IMAGE" BY <2>1, <2>3 DEF TransfersFit, Owns, TransferTable
  <2>4. CASE kind = "BLIT_IMAGE" BY <2>1, <2>4 DEF TransfersFit, Owns, TransferTable
  <2>5. CASE kind = "COPY_BUFFER_TO_IMAGE" BY <2>1, <2>5 DEF TransfersFit, Owns, TransferTable
  <2>6. CASE kind = "COPY_IMAGE_TO_BUFFER" BY <2>1, <2>6 DEF TransfersFit, Owns, TransferTable
  <2>7. CASE kind = "CLEAR_COLOR_IMAGE" BY <2>1, <2>7 DEF TransfersFit, Owns, TransferTable
  <2>8. CASE kind = "CLEAR_DEPTH_STENCIL_IMAGE"
    BY <2>1, <2>8 DEF TransfersFit, Owns, TransferTable
  <2>. QED BY <2>2, <2>3, <2>4, <2>5, <2>6, <2>7, <2>8 DEF TransferTable
<1>2. PICK s : s = TransferTable[kind] OBVIOUS
<1>3. \E e \in ToSet(w.t[s]) : e.command = n BY <1>1, <1>2 DEF ToSet
<1>4. EntryOf(w, s, n) \in ToSet(w.t[s]) BY <1>3 DEF EntryOf
<1>. QED BY <1>2, <1>4

\* The commands that the replay knows
Handled == Queries \cup DOMAIN TransferTable \cup
    {"BEGIN_RENDERING", "END_RENDERING", "BIND_PIPELINE", "SET_DYNAMIC_STATE", "PUSH_CONSTANTS",
     "BIND_VERTEX_BUFFERS", "BIND_INDEX_BUFFER", "BIND_DESCRIPTOR_SETS", "DRAW", "DRAW_INDEXED",
     "CLEAR_ATTACHMENTS", "BARRIER", "COPY_BUFFER", "FILL_BUFFER", "UPDATE_BUFFER"}

\* A command that passes the walk before the replay is one of them.
LEMMA CheckedIsHandled ==
    ASSUME NEW w, NEW acc, NEW n, CheckCommand(w, acc, n).ok
    PROVE  acc.ok /\ Kind(w, n) \in Handled
<1>1. PICK x : x = At(w, "command", n) OBVIOUS
<1>2. Kind(w, n) = x.kind BY <1>1 DEF Kind
<1>4. OutOfRendering \subseteq Handled BY DEF OutOfRendering, Handled, TransferTable
<1>5. Replayable \subseteq Handled /\ InRendering \subseteq Handled
  BY DEF Replayable, InRendering, Handled
<1>6. CASE x.kind \in Handled BY <1>1, <1>2, <1>6 DEF CheckCommand
<1>7. CASE x.kind \notin Handled
  <2>1. /\ x.kind # "BEGIN_RENDERING" /\ x.kind # "END_RENDERING" /\ x.kind # "BIND_PIPELINE"
        /\ x.kind # "CLEAR_ATTACHMENTS" /\ x.kind # "BARRIER"
        /\ x.kind \notin InRendering /\ x.kind \notin OutOfRendering /\ x.kind \notin Replayable
    BY <1>4, <1>5, <1>7 DEF Handled
  <2>2. ~CheckCommand(w, acc, n).ok BY <1>1, <2>1 DEF CheckCommand
  <2>. QED BY <2>2
<1>. QED BY <1>6, <1>7

\* So that is true of every command of a frame that is replayed.
LEMMA CommandsAreHandled ==
    ASSUME NEW w, Tabled(w), Preflight(w), NEW n \in Numbers(w, "command")
    PROVE  Kind(w, n) \in Handled
<1>1. PICK q : q = Steps(w) OBVIOUS
<1>2. PICK L : L = Rows(w, "command") OBVIOUS
<1>3. L \in Nat BY <1>2, SeqFacts DEF Rows, Tabled
<1>4. q = [k \in 1..L |-> k - 1] BY <1>1, <1>2 DEF Steps
<1>5. IsSeq(q) /\ Len(q) = L /\ DOMAIN q = 1..L
  <2>1. q = [k \in 1..L |-> q[k]] BY <1>4
  <2>. QED BY <1>3, <2>1, SeqMade
<1>6. PICK base : base = [in |-> None, bound |-> FALSE, ok |-> TRUE] OBVIOUS
<1>7. PICK h : Goes("preflight", w, h, base, q) /\ h[Len(q)] = CheckLoop(w, base, q)
  BY <1>3, <1>5, CheckFold
<1>8. h[L].ok BY <1>1, <1>5, <1>6, <1>7 DEF CheckLoop, Preflight
<1>. DEFINE T == {k \in Nat : k \in 0..L => (h[k].ok => \A j \in 1..k : Kind(w, q[j]) \in Handled)}
<1>9. 0 \in T OBVIOUS
<1>10. ASSUME NEW k \in T PROVE k + 1 \in T
  <2>1. SUFFICES ASSUME k + 1 \in 0..L, h[k + 1].ok, NEW j \in 1..k + 1
        PROVE  Kind(w, q[j]) \in Handled
    BY <1>10
  <2>2. k \in Nat /\ k \in 0..L /\ k + 1 \in 1..L BY <1>3, <2>1
  <2>3. h[k + 1] = IF h[k].ok THEN CheckCommand(w, h[k], q[k + 1]) ELSE h[k]
    BY <1>5, <1>7, <2>2 DEF Goes, Step
  <2>4. h[k].ok BY <2>1, <2>3
  <2>5. CheckCommand(w, h[k], q[k + 1]).ok BY <2>1, <2>3, <2>4
  <2>6. Kind(w, q[k + 1]) \in Handled BY <2>5, CheckedIsHandled
  <2>7. \A i \in 1..k : Kind(w, q[i]) \in Handled BY <1>10, <2>2, <2>4
  <2>8. j \in 1..k \/ j = k + 1 BY <2>2
  <2>. QED BY <2>6, <2>7, <2>8
<1>11. T = Nat BY <1>9, <1>10, Induction
<1>12. \A j \in 1..L : Kind(w, q[j]) \in Handled
  <2>1. L \in T BY <1>3, <1>11
  <2>. QED BY <1>3, <1>8, <2>1
<1>13. n + 1 \in 1..L /\ q[n + 1] = n
  <2>1. n \in 0..L - 1 BY <1>2 DEF Numbers
  <2>2. n \in Nat /\ n + 1 \in 1..L /\ (n + 1) - 1 = n BY <1>3, <2>1
  <2>. QED BY <1>4, <2>2
<1>. QED BY <1>12, <1>13

----------------------------------------------------------------------------
\* The commands of the replay

\* A span that was checked is a sequence of entries of its table.
LEMMA PartOfTable ==
    ASSUME NEW w, NEW s, IsSeq(w.t[s]), NEW span, SpanIn(w, s, span)
    PROVE  /\ IsSeq(Part(w, s, span))
           /\ \A k \in DOMAIN Part(w, s, span) : Part(w, s, span)[k] \in ToSet(w.t[s])
<1>1. PICK q : q = w.t[s] OBVIOUS
<1>2. PICK a, b : a = span[1] /\ b = span[2] OBVIOUS
<1>3. Len(q) \in Nat /\ DOMAIN q = 1..Len(q) /\ IsSeq(q) BY <1>1, SeqFacts
<1>4. a \in Nat /\ b \in Nat /\ a + b <= Len(q) BY <1>1, <1>2, <1>3 DEF SpanIn, Rows
<1>5. Part(w, s, span) = SubSeq(q, a + 1, a + b) BY <1>1, <1>2 DEF Part
<1>6. IsSeq(SubSeq(q, a + 1, a + b)) BY <1>3, <1>4, SeqPart
<1>7. PICK r : r = SubSeq(q, a + 1, a + b) OBVIOUS
<1>8. \A k \in DOMAIN r : r[k] \in ToSet(q)
  <2>1. q \in Seq(ToSet(q)) BY <1>3 DEF IsSeq
  <2>2. PICK S : S = ToSet(q) OBVIOUS
  <2>3. q \in Seq(S) /\ a + 1 \in Nat /\ a + b \in Nat BY <1>4, <2>1, <2>2
  <2>4. r \in Seq(S) BY <1>3, <1>4, <1>7, <2>3
  <2>. QED BY <2>2, <2>4
<1>. QED BY <1>1, <1>5, <1>6, <1>7, <1>8

\* A view moves the image it is of.
LEMMA ViewTracks ==
    ASSUME NEW w, EntriesName(w), NEW acc, Tracks(w, acc), NEW view, Refers(w, "view", view), NEW new
    PROVE  Tracks(w, MoveView(acc, w, view, new))
<1>1. CASE view = Nowhere BY <1>1 DEF MoveView
<1>2. CASE view # Nowhere
  <2>1. PICK i, r : i = At(w, "view", view).image /\ r = At(w, "view", view).obj.range OBVIOUS
  <2>2. i \in Numbers(w, "image") BY <1>2, <2>1 DEF Refers, EntriesName
  <2>3. MoveView(acc, w, view, new) = Move(acc, i, r, new, TRUE) BY <1>2, <2>1 DEF MoveView
  <2>. QED BY <2>2, <2>3, MoveTracks
<1>. QED BY <1>1, <1>2

\* What is told to the device, and what is remembered besides, moves no image.
LEMMA OutTracks ==
    ASSUME NEW w, NEW acc, Tracks(w, acc), NEW e
    PROVE  Tracks(w, Out(acc, e))
<1>1. Same(acc, Out(acc, e)) BY DEF Tracks, Same, Out
<1>. QED BY <1>1, SameTracks

\* A refusal moves no image.
LEMMA RefuseTracks ==
    ASSUME NEW w, NEW acc, Tracks(w, acc)
    PROVE  Tracks(w, Refuse(acc))
<1>1. Same(acc, Refuse(acc)) BY DEF Tracks, Same, Refuse
<1>. QED BY <1>1, SameTracks

\* BEGIN_RENDERING moves its attachments and resolve attachments to their roles.
LEMMA BeginTracks ==
    ASSUME NEW w, Tabled(w), EntriesName(w), NEW acc, Tracks(w, acc),
           NEW x, SpanIn(w, "attachment", x.attachments)
    PROVE  Tracks(w, ReplayBegin(w, acc, x))
<1>1. PICK q : q = Part(w, "attachment", x.attachments) OBVIOUS
<1>2. IsSeq(q) /\ \A k \in DOMAIN q : q[k] \in ToSet(w.t["attachment"])
  BY <1>1, PartOfTable DEF Tabled
<1>3. PICK h : Goes("attachment", w, h, acc, q) /\ h[Len(q)] = AttachmentLoop(w, acc, q)
  BY <1>2, SeqFacts, AttachmentFold
<1>4. ASSUME NEW b, NEW k \in DOMAIN q, Tracks(w, b)
      PROVE  Tracks(w, Step("attachment", w, b, q[k]))
  <2>1. Refers(w, "view", q[k].view) /\ Refers(w, "view", q[k].resolve)
    BY <1>2 DEF EntriesName
  <2>2. PICK c : c = MoveView(b, w, q[k].view, q[k].role) OBVIOUS
  <2>3. Tracks(w, c) BY <1>4, <2>1, <2>2, ViewTracks
  <2>4. Step("attachment", w, b, q[k]) = MoveView(c, w, q[k].resolve, q[k].role)
    BY <2>2 DEF Step
  <2>. QED BY <2>1, <2>3, <2>4, ViewTracks
<1>5. Tracks(w, AttachmentLoop(w, acc, q)) BY <1>2, <1>3, <1>4, LoopTracks
<1>6. PICK d : d = AttachmentLoop(w, acc, q) OBVIOUS
<1>7. PICK t : t = TargetOf(w, x) OBVIOUS
<1>8. ReplayBegin(w, acc, x) = Out([d EXCEPT !.target = t], [what |-> "BEGIN_RENDERING", target |-> t])
  BY <1>1, <1>6, <1>7 DEF ReplayBegin, AttachmentLoop
<1>9. Same(d, [d EXCEPT !.target = t]) BY <1>5, <1>6 DEF Tracks, Same
<1>10. Tracks(w, [d EXCEPT !.target = t]) BY <1>5, <1>6, <1>9, SameTracks
<1>. QED BY <1>8, <1>10, OutTracks

\* BIND_DESCRIPTOR_SETS moves the images of its descriptors.
LEMMA SetsTracks ==
    ASSUME NEW w, Tabled(w), EntriesName(w), NEW acc, Tracks(w, acc),
           NEW x, SpanIn(w, "descriptor", x.descriptors)
    PROVE  Tracks(w, ReplaySets(w, acc, x))
<1>1. PICK q : q = Part(w, "descriptor", x.descriptors) OBVIOUS
<1>2. IsSeq(q) /\ \A k \in DOMAIN q : q[k] \in ToSet(w.t["descriptor"])
  BY <1>1, PartOfTable DEF Tabled
<1>3. PICK h : Goes("descriptor", w, h, acc, q) /\ h[Len(q)] = DescriptorLoop(w, acc, q)
  BY <1>2, SeqFacts, DescriptorFold
<1>4. ASSUME NEW b, NEW k \in DOMAIN q, Tracks(w, b)
      PROVE  Tracks(w, Step("descriptor", w, b, q[k]))
  <2>1. Refers(w, "view", q[k].view) BY <1>2 DEF EntriesName
  <2>2. Step("descriptor", w, b, q[k]) = MoveView(b, w, q[k].view, "sampled") BY DEF Step
  <2>. QED BY <1>4, <2>1, <2>2, ViewTracks
<1>5. Tracks(w, DescriptorLoop(w, acc, q)) BY <1>2, <1>3, <1>4, LoopTracks
<1>6. PICK d : d = DescriptorLoop(w, acc, q) OBVIOUS
<1>7. \/ ReplaySets(w, acc, x) = Refuse(acc)
      \/ \E y : ReplaySets(w, acc, x) = [d EXCEPT !.sets = y]
  <2>1. CASE acc.pipe = None \/ q = <<>> \/ \E e \in ToSet(q) : e.set < x.firstSet
    BY <1>1, <2>1 DEF ReplaySets
  <2>2. CASE ~(acc.pipe = None \/ q = <<>> \/ \E e \in ToSet(q) : e.set < x.firstSet)
    BY <1>1, <1>6, <2>2 DEF ReplaySets, DescriptorLoop
  <2>. QED BY <2>1, <2>2
<1>8. ASSUME NEW y PROVE Tracks(w, [d EXCEPT !.sets = y])
  <2>1. Same(d, [d EXCEPT !.sets = y]) BY <1>5, <1>6 DEF Tracks, Same
  <2>. QED BY <1>5, <1>6, <2>1, SameTracks
<1>. QED BY <1>7, <1>8, RefuseTracks

\* BARRIER moves what the application said, from whatever it is in.
LEMMA BarrierTracks ==
    ASSUME NEW w, Tabled(w), EntriesName(w), NEW acc, Tracks(w, acc), NEW n
    PROVE  Tracks(w, ReplayBarrier(w, acc, n))
<1>1. PICK q : q = w.t["imageBarrier"] OBVIOUS
<1>2. IsSeq(q) BY <1>1 DEF Tabled
<1>3. PICK h : Goes("moved", n, h, acc, q) /\ h[Len(q)] = MovedLoop(n, acc, q)
  BY <1>2, SeqFacts, MovedFold
<1>4. ASSUME NEW b, NEW k \in DOMAIN q, Tracks(w, b) PROVE Tracks(w, Step("moved", n, b, q[k]))
  <2>1. q[k].image \in Numbers(w, "image") BY <1>1 DEF EntriesName, ToSet
  <2>2. Step("moved", n, b, q[k]) = IF q[k].command = n
                                    THEN Move(b, q[k].image, q[k].range, q[k].new, FALSE) ELSE b
    BY DEF Step
  <2>3. Tracks(w, Move(b, q[k].image, q[k].range, q[k].new, FALSE)) BY <1>4, <2>1, MoveTracks
  <2>. QED BY <1>4, <2>2, <2>3
<1>5. Tracks(w, MovedLoop(n, acc, q)) BY <1>2, <1>3, <1>4, LoopTracks
<1>6. \E e : ReplayBarrier(w, acc, n) = Out(MovedLoop(n, acc, q), e)
  BY <1>1 DEF ReplayBarrier, MovedLoop
<1>. QED BY <1>5, <1>6, OutTracks

\* A transfer leaves its images in the layouts they were said to be in.
LEMMA ImagesTracks ==
    ASSUME NEW w, NEW acc, Tracks(w, acc), NEW src, NEW dst, NEW e,
           Refers(w, "image", src), Refers(w, "image", dst)
    PROVE  Tracks(w, MoveImages(acc, src, dst, e))
<1>1. PICK one : one = IF src = Nowhere THEN acc
                       ELSE Move(acc, src, e.data.range, "transferSrc", FALSE)
  OBVIOUS
<1>2. Tracks(w, one) BY <1>1, MoveTracks DEF Refers
<1>3. MoveImages(acc, src, dst, e) = IF dst = Nowhere THEN one
                                     ELSE Move(one, dst, e.data.range, "transferDst", FALSE)
  BY <1>1 DEF MoveImages
<1>. QED BY <1>2, <1>3, MoveTracks DEF Refers

\* The transfers, kind by kind
LEMMA TransferTracks ==
    ASSUME NEW w, WellFormed(w), EntriesName(w), NEW acc, Tracks(w, acc),
           NEW n \in Numbers(w, "command"), NEW kind, kind = Kind(w, n),
           kind \in DOMAIN TransferTable \cup {"COPY_BUFFER", "FILL_BUFFER", "UPDATE_BUFFER"}
    PROVE  Tracks(w, ReplayTransfer(w, acc, kind, n))
<1>1. CASE kind \in {"COPY_BUFFER", "FILL_BUFFER", "UPDATE_BUFFER"}
  <2>1. \E e : ReplayTransfer(w, acc, kind, n) = Out(acc, e) BY <1>1 DEF ReplayTransfer
  <2>. QED BY <2>1, OutTracks
<1>2. CASE kind \in DOMAIN TransferTable
  <2>1. PICK s, e : s = TransferTable[kind] /\ e = EntryOf(w, s, n) OBVIOUS
  <2>2. e \in ToSet(w.t[s]) BY <1>2, <2>1, EntriesExist
  <2>3. Refers(w, "image", Nowhere) BY DEF Refers
  <2>4. CASE kind \in {"CLEAR_COLOR_IMAGE", "CLEAR_DEPTH_STENCIL_IMAGE", "COPY_BUFFER_TO_IMAGE"}
    <3>1. s \in Single BY <2>1, <2>4 DEF TransferTable, Single
    <3>2. Refers(w, "image", e.image) BY <2>2, <3>1 DEF EntriesName, Refers
    <3>3. Tracks(w, MoveImages(acc, Nowhere, e.image, e)) BY <2>3, <3>2, ImagesTracks
    <3>4. \E y : ReplayTransfer(w, acc, kind, n) = Out(MoveImages(acc, Nowhere, e.image, e), y)
      BY <2>1, <2>4 DEF ReplayTransfer, TransferTable
    <3>. QED BY <3>3, <3>4, OutTracks
  <2>5. CASE kind = "COPY_IMAGE_TO_BUFFER"
    <3>1. s \in Single BY <2>1, <2>5 DEF TransferTable, Single
    <3>2. Refers(w, "image", e.image) BY <2>2, <3>1 DEF EntriesName, Refers
    <3>3. Tracks(w, MoveImages(acc, e.image, Nowhere, e)) BY <2>3, <3>2, ImagesTracks
    <3>4. \E y : ReplayTransfer(w, acc, kind, n) = Out(MoveImages(acc, e.image, Nowhere, e), y)
      BY <2>1, <2>5 DEF ReplayTransfer, TransferTable
    <3>. QED BY <3>3, <3>4, OutTracks
  <2>6. CASE kind \in {"COPY_IMAGE", "RESOLVE_IMAGE", "BLIT_IMAGE"}
    <3>1. s \in Plain BY <2>1, <2>6 DEF TransferTable, Plain
    <3>2. Refers(w, "image", e.src) /\ Refers(w, "image", e.dst)
      BY <2>2, <3>1 DEF EntriesName, Refers
    <3>3. Tracks(w, MoveImages(acc, e.src, e.dst, e)) BY <3>2, ImagesTracks
    <3>4. \E y : ReplayTransfer(w, acc, kind, n) = Out(MoveImages(acc, e.src, e.dst, e), y)
      BY <2>1, <2>6 DEF ReplayTransfer, TransferTable
    <3>. QED BY <3>3, <3>4, OutTracks
  <2>. QED BY <1>2, <2>4, <2>5, <2>6 DEF TransferTable
<1>. QED BY <1>1, <1>2

\* Every command of a frame that was accepted keeps track of the layouts.
LEMMA CommandTracks ==
    ASSUME NEW w, Tabled(w), WellFormed(w), Preflight(w), NEW acc, Tracks(w, acc),
           NEW n \in Numbers(w, "command")
    PROVE  Tracks(w, ReplayCommand(w, acc, n))
<1>1. PICK x : x = At(w, "command", n) OBVIOUS
<1>2. EntriesName(w) BY EntriesAreChecked
<1>3. x.kind = Kind(w, n) /\ x.kind \in Handled BY <1>1, CommandsAreHandled DEF Kind
<1>4. SpanIn(w, "attachment", x.attachments) /\ SpanIn(w, "descriptor", x.descriptors)
  BY <1>1 DEF WellFormed, CommandsFit, CommandFits
<1>0. PICK r : r = ReplayCommand(w, acc, n) OBVIOUS
<1>5. ASSUME x.kind = "BEGIN_RENDERING" PROVE Tracks(w, r)
  <2>1. r = ReplayBegin(w, acc, x) BY <1>0, <1>1, <1>5 DEF ReplayCommand, Queries
  <2>. QED BY <1>2, <1>4, <2>1, BeginTracks
<1>6. ASSUME x.kind = "BIND_DESCRIPTOR_SETS" PROVE Tracks(w, r)
  <2>1. r = ReplaySets(w, acc, x) BY <1>0, <1>1, <1>6 DEF ReplayCommand, Queries
  <2>. QED BY <1>2, <1>4, <2>1, SetsTracks
<1>7. ASSUME x.kind = "BARRIER" PROVE Tracks(w, r)
  <2>1. r = ReplayBarrier(w, acc, n) BY <1>0, <1>1, <1>7 DEF ReplayCommand, Queries
  <2>. QED BY <1>2, <2>1, BarrierTracks
<1>8. ASSUME x.kind = "END_RENDERING" PROVE Tracks(w, r)
  <2>1. Same(acc, [acc EXCEPT !.target = None]) BY DEF Tracks, Same
  <2>2. r = Out([acc EXCEPT !.target = None], [what |-> "END_RENDERING"])
    BY <1>0, <1>1, <1>8 DEF ReplayCommand, Queries
  <2>. QED BY <2>1, <2>2, SameTracks, OutTracks
<1>9. ASSUME x.kind = "BIND_PIPELINE" PROVE Tracks(w, r)
  <2>1. \E y : r = [acc EXCEPT !.pipe = y] BY <1>0, <1>1, <1>9 DEF ReplayCommand, Queries
  <2>2. \A y : Same(acc, [acc EXCEPT !.pipe = y]) BY DEF Tracks, Same
  <2>. QED BY <2>1, <2>2, SameTracks
<1>10. ASSUME x.kind = "SET_DYNAMIC_STATE" PROVE Tracks(w, r)
  <2>1. \E y : r = [acc EXCEPT !.states = y] BY <1>0, <1>1, <1>10 DEF ReplayCommand, Queries, ReplayStates
  <2>2. \A y : Same(acc, [acc EXCEPT !.states = y]) BY DEF Tracks, Same
  <2>. QED BY <2>1, <2>2, SameTracks
<1>11. ASSUME x.kind = "PUSH_CONSTANTS" PROVE Tracks(w, r)
  <2>1. r = Refuse(acc) \/ \E y : r = [acc EXCEPT !.pushed = y]
    BY <1>0, <1>1, <1>11 DEF ReplayCommand, Queries, ReplayPush
  <2>2. \A y : Same(acc, [acc EXCEPT !.pushed = y]) BY DEF Tracks, Same
  <2>. QED BY <2>1, <2>2, SameTracks, RefuseTracks
<1>12. ASSUME x.kind = "BIND_VERTEX_BUFFERS" PROVE Tracks(w, r)
  <2>1. r = Refuse(acc) \/ \E y : r = [acc EXCEPT !.vertex = y]
    BY <1>0, <1>1, <1>12 DEF ReplayCommand, Queries, ReplayVertices
  <2>2. \A y : Same(acc, [acc EXCEPT !.vertex = y]) BY DEF Tracks, Same
  <2>. QED BY <2>1, <2>2, SameTracks, RefuseTracks
<1>13. ASSUME x.kind = "BIND_INDEX_BUFFER" PROVE Tracks(w, r)
  <2>1. \E y : r = [acc EXCEPT !.index = y] BY <1>0, <1>1, <1>13 DEF ReplayCommand, Queries
  <2>2. \A y : Same(acc, [acc EXCEPT !.index = y]) BY DEF Tracks, Same
  <2>. QED BY <2>1, <2>2, SameTracks
<1>14. ASSUME x.kind \in {"DRAW", "DRAW_INDEXED"} PROVE Tracks(w, r)
  <2>1. r = ReplayDraw(w, acc, x, n) BY <1>0, <1>1, <1>14 DEF ReplayCommand, Queries
  <2>2. r = Refuse(acc) \/ \E y, e : r = Out([acc EXCEPT !.index = y], e)
    BY <2>1 DEF ReplayDraw
  <2>3. \A y : Same(acc, [acc EXCEPT !.index = y]) BY DEF Tracks, Same
  <2>4. \A y : Tracks(w, [acc EXCEPT !.index = y]) BY <2>3, SameTracks
  <2>5. \A y, e : Tracks(w, Out([acc EXCEPT !.index = y], e)) BY <2>4, OutTracks
  <2>. QED BY <2>2, <2>5, RefuseTracks
<1>15. ASSUME x.kind = "CLEAR_ATTACHMENTS" PROVE Tracks(w, r)
  <2>1. \E e : r = Out(acc, e) BY <1>0, <1>1, <1>15 DEF ReplayCommand, Queries, ReplayClear
  <2>. QED BY <2>1, OutTracks
<1>16. ASSUME x.kind \in Queries PROVE Tracks(w, r)
  <2>1. r = ReplayQuery(w, acc, n) BY <1>0, <1>1, <1>16 DEF ReplayCommand, Queries
  <2>2. \E e : r = Out(acc, e) BY <2>1 DEF ReplayQuery
  <2>. QED BY <2>2, OutTracks
<1>17. ASSUME x.kind \in DOMAIN TransferTable \cup {"COPY_BUFFER", "FILL_BUFFER", "UPDATE_BUFFER"}
      PROVE  Tracks(w, r)
  <2>1. r = ReplayTransfer(w, acc, x.kind, n)
    BY <1>0, <1>1, <1>17 DEF ReplayCommand, Queries, TransferTable
  <2>. QED BY <1>2, <1>3, <1>17, <2>1, TransferTracks
<1>18. \/ x.kind \in {"BEGIN_RENDERING", "BIND_DESCRIPTOR_SETS", "BARRIER", "END_RENDERING",
                      "BIND_PIPELINE", "SET_DYNAMIC_STATE", "PUSH_CONSTANTS",
                      "BIND_VERTEX_BUFFERS", "BIND_INDEX_BUFFER", "CLEAR_ATTACHMENTS"}
       \/ x.kind \in {"DRAW", "DRAW_INDEXED"}
       \/ x.kind \in Queries
       \/ x.kind \in DOMAIN TransferTable \cup {"COPY_BUFFER", "FILL_BUFFER", "UPDATE_BUFFER"}
  BY <1>3 DEF Handled
<1>. QED BY <1>0, <1>5, <1>6, <1>7, <1>8, <1>9, <1>10, <1>11, <1>12, <1>13, <1>14, <1>15, <1>16, <1>17, <1>18

\* The replay of an accepted frame keeps track of the layouts to its end.
LEMMA ReplayTracks ==
    ASSUME NEW w, Tabled(w), WellFormed(w), Preflight(w)
    PROVE  Tracks(w, Replay(w))
<1>1. PICK q : q = Steps(w) OBVIOUS
<1>2. PICK L : L = Rows(w, "command") OBVIOUS
<1>3. L \in Nat BY <1>2, SeqFacts DEF Rows, Tabled
<1>4. q = [k \in 1..L |-> k - 1] BY <1>1, <1>2 DEF Steps
<1>5. IsSeq(q) /\ Len(q) = L /\ DOMAIN q = 1..L
  <2>1. q = [k \in 1..L |-> q[k]] BY <1>4
  <2>. QED BY <1>3, <2>1, SeqMade
<1>6. PICK h : Goes("replay", w, h, FreshReplay(w), q) /\ h[Len(q)] = ReplayLoop(w, FreshReplay(w), q)
  BY <1>3, <1>5, ReplayFold
<1>7. ASSUME NEW acc, NEW k \in DOMAIN q, Tracks(w, acc) PROVE Tracks(w, Step("replay", w, acc, q[k]))
  <2>1. q[k] \in Numbers(w, "command")
    <3>1. k \in 1..L /\ q[k] = k - 1 BY <1>4, <1>5
    <3>2. k - 1 \in 0..L - 1 BY <1>3, <3>1
    <3>. QED BY <1>2, <3>1, <3>2 DEF Numbers
  <2>2. Step("replay", w, acc, q[k]) = IF acc.ok THEN ReplayCommand(w, acc, q[k]) ELSE acc BY DEF Step
  <2>. QED BY <1>7, <2>1, <2>2, CommandTracks
<1>8. Tracks(w, h[Len(q)]) BY <1>5, <1>6, <1>7, FreshTracks, LoopTracks
<1>9. ReplayLoop(w, FreshReplay(w), q) = Replay(w) BY <1>1 DEF ReplayLoop, Replay
<1>. QED BY <1>6, <1>8, <1>9

\* The tables that moves are read from are among those of a frame.
LEMMA FrameIsTabled ==
    ASSUME NEW v, IsFrame(v)
    PROVE  Tabled(Seen(v))
<1>1. PICK w : w = Seen(v) OBVIOUS
<1>2. w.t = [s \in Sections |-> IF s \in Carried(v.minor) THEN v.t[s] ELSE <<>>]
  BY <1>1 DEF Seen, IsFrame
<1>3. \A s \in Sections : IsSeq(w.t[s]) BY <1>2, SeqEmpty DEF IsFrame
<1>4. {"command", "view", "attachment", "descriptor"} \subseteq Sections BY DEF Sections, V6
<1>5. "imageBarrier" \in Sections
  <2>1. 1 \in Minors BY DEF Minors
  <2>2. Extensions[1] = V61 BY DEF Extensions
  <2>3. "imageBarrier" \in DOMAIN V61.entry BY DEF V61
  <2>. QED BY <2>1, <2>2, <2>3 DEF Sections
<1>. QED BY <1>1, <1>3, <1>4, <1>5 DEF Tabled

\* Whatever frame the executor accepts, not only one that the builder made: if
\* its tables are arrays, as any the executor finds by places and counts are, each
\* layout change that its replay adds begins at the layout the image is in there
\* (the range helpers of the replay in pdocker_gpu_executor.c).
THEOREM ReplayKeepsLayouts ==
    ASSUME NEW v, IsFrame(v), Executed(v).ok
    PROVE  Chained(Seen(v), Executed(v).moves)
<1>1. PICK w : w = Seen(v) OBVIOUS
<1>2. PICK acc : acc = Replay(w) OBVIOUS
<1>3. WellFormed(w) /\ Preflight(w) /\ Executed(v) = Outcome(acc)
  BY <1>1, <1>2 DEF Executed, Refused
<1>4. Tabled(w) BY <1>1, FrameIsTabled
<1>5. Tracks(w, acc) BY <1>2, <1>3, <1>4, ReplayTracks
<1>6. Outcome(acc).moves = acc.moves BY <1>3 DEF Outcome, Refused
<1>. QED BY <1>1, <1>3, <1>5, <1>6 DEF Tracks

\* What the executor did with the last frame is what it does with that frame.
Answered == sent # None => sent.done = Executed(sent.v)
FramesAreSequences == sent # None => IsFrame(sent.v)

\* So the transitions chain in every state (TransitionsChain, about the range
\* helpers of the replay), as long as the tables of the frames that were built are
\* sequences: the builder only appends to them.
THEOREM TransitionsAreChained == FSpec => [](FramesAreSequences => TransitionsChain)
<1>1. FInit => Answered BY DEF FInit, Answered
<1>2. Answered /\ [FNext]_fvars => Answered'
  <2>1. SUFFICES ASSUME Answered, [FNext]_fvars PROVE Answered' OBVIOUS
  <2>2. CASE sent' = sent BY <2>1, <2>2 DEF Answered
  <2>3. CASE sent' # sent
    <3>1. \E s : SubmitFrame(s) BY <2>1, <2>3 DEF FNext, SubmitHostWork, fvars
    <3>2. \E v, x, y, z : sent' = [v |-> v, done |-> Executed(v), said |-> x, before |-> y, after |-> z]
      BY <2>3, <3>1 DEF SubmitFrame
    <3>. QED BY <3>2 DEF Answered
  <2>. QED BY <2>2, <2>3
<1>3. Answered => (FramesAreSequences => TransitionsChain)
  <2>1. SUFFICES ASSUME Answered, FramesAreSequences, sent # None, sent.done.ok
        PROVE  Chained(Seen(sent.v), sent.done.moves)
    BY DEF TransitionsChain
  <2>. QED BY <2>1, ReplayKeepsLayouts DEF Answered, FramesAreSequences
<1>. QED BY <1>1, <1>2, <1>3, PTL DEF FSpec
=============================================================================
