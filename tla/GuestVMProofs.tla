----------------------------- MODULE GuestVMProofs -----------------------------
(***************************************************************************)
(* What a page of a Jea9Linux process shows, and which pages the JIT takes *)
(* for executable, for every size of guest memory and every sequence of    *)
(* system calls.                                                           *)
(***************************************************************************)
EXTENDS GuestVM, FiniteSetTheorems, TLAPS, WellFoundedInduction, NaturalsInduction

\* A set of numbers has a least one.
LEMMA LeastNumber ==
    ASSUME NEW T \in SUBSET Nat, T # {}
    PROVE  \E x \in T : \A y \in T : x <= y
<1>1. PICK x \in T : \A y \in T : ~ (<<y, x>> \in OpToRel(<, Nat))
  BY Zenon, WFMin, NatLessThanWellFounded
<1>2. \A y \in T : ~(y < x)
  BY Zenon, <1>1 DEF OpToRel
<1> QED
  BY <1>2

\* Induction on the numbers of an interval.
LEMMA UpTo ==
    ASSUME NEW a \in Nat, NEW b \in Nat, NEW G,
           a \in G, \A n \in a..(b - 1) : n \in G => n + 1 \in G
    PROVE  \A n \in a..b : n \in G
<1> DEFINE T == {n \in a..b : n \notin G}
<1>1. T \in SUBSET Nat
  OBVIOUS
<1>2. ASSUME T # {} PROVE FALSE
  <2>1. PICK n \in T : \A m \in T : n <= m
    <3> HIDE DEF T
    <3> QED BY <1>1, <1>2, LeastNumber
  <2>2. n - 1 \in a..(b - 1) /\ (n - 1) + 1 = n /\ n - 1 \in a..b
    OBVIOUS
  <2> QED BY <2>1, <2>2
<1> QED
  BY <1>2

(* Sequences. *)

\* What a concatenation holds.
LEMMA ConcatFacts ==
    ASSUME NEW S, NEW b \in Seq(S), NEW z \in Seq(S)
    PROVE  /\ b \o z \in Seq(S) /\ Len(b \o z) = Len(b) + Len(z)
           /\ Len(b) \in Nat /\ Len(z) \in Nat
           /\ \A j \in 1..Len(b) : (b \o z)[j] = b[j]
           /\ \A j \in 1..Len(z) : (b \o z)[Len(b) + j] = z[j]
OBVIOUS

\* What an array holds after the elements of s were written after its first n.
Holds(w, S, arr, n, s) ==
    /\ w \in Seq(S) /\ n + Len(s) <= Len(w) /\ Len(arr) <= Len(w)
    /\ \A j \in 1..n : w[j] = arr[j]
    /\ \A j \in 1..Len(s) : w[n + j] = s[j]

\* What append leaves in the array: the new elements, and the rest of the old.
LEMMA WrittenFacts ==
    ASSUME NEW S, NEW arr \in Seq(S), NEW n \in 0..Len(arr), NEW s \in Seq(S)
    PROVE  Holds(Written(arr, n, s), S, arr, n, s)
<1> DEFINE w == Written(arr, n, s)
           a == SubSeq(arr, 1, n)
           m == n + Len(s)
           z == SubSeq(arr, m + 1, Len(arr))
<1>1. a \in Seq(S) /\ Len(a) = n /\ \A j \in 1..n : a[j] = arr[j]
  OBVIOUS
<1>2. /\ z \in Seq(S) /\ Len(z) = (IF m < Len(arr) THEN Len(arr) - m ELSE 0)
      /\ \A j \in 1..Len(z) : z[j] = arr[m + j] /\ m + j \in 1..Len(arr)
  OBVIOUS
<1> HIDE DEF a, z
<1> DEFINE b == a \o s
<1>3. /\ b \in Seq(S) /\ Len(b) = m /\ Len(s) \in Nat
      /\ \A j \in 1..n : b[j] = arr[j]
      /\ \A j \in 1..Len(s) : b[n + j] = s[j]
  <2>1. /\ a \o s \in Seq(S) /\ Len(a \o s) = Len(a) + Len(s) /\ Len(s) \in Nat
        /\ \A j \in 1..Len(a) : (a \o s)[j] = a[j]
        /\ \A j \in 1..Len(s) : (a \o s)[Len(a) + j] = s[j]
    <3>1. a \in Seq(S)
      BY <1>1
    <3> QED BY SMTT(30), <3>1, ConcatFacts
  <2> HIDE DEF b
  <2> QED BY Zenon, <1>1, <2>1 DEF b
<1>4. w = b \o z
  BY <1>1, <1>2 DEF Written, a, z
<1> HIDE DEF b, w
<1>5. /\ w \in Seq(S) /\ Len(w) = m + Len(z) /\ Len(z) \in Nat
      /\ \A j \in 1..m : w[j] = b[j]
      /\ \A j \in 1..Len(z) : w[m + j] = z[j]
  <2>1. /\ b \o z \in Seq(S) /\ Len(b \o z) = Len(b) + Len(z) /\ Len(z) \in Nat
        /\ \A j \in 1..Len(b) : (b \o z)[j] = b[j]
        /\ \A j \in 1..Len(z) : (b \o z)[Len(b) + j] = z[j]
    <3>1. b \in Seq(S) /\ z \in Seq(S)
      BY <1>2, <1>3
    <3> QED BY SMTT(30), <3>1, ConcatFacts
  <2> QED BY Zenon, <1>3, <1>4, <2>1
<1>6. /\ \A j \in 1..n : w[j] = arr[j]
      /\ \A j \in 1..Len(s) : w[n + j] = s[j]
  <2>1. \A j \in 1..n : j \in 1..m
    BY <1>3
  <2>2. \A j \in 1..Len(s) : n + j \in 1..m
    BY <1>3
  <2> HIDE DEF m
  <2> QED BY Zenon, <1>3, <1>5, <2>1, <2>2
<1>7. n + Len(s) <= Len(w) /\ Len(arr) <= Len(w)
  <2>1. m \in Nat /\ Len(arr) \in Nat /\ Len(z) = (IF m < Len(arr) THEN Len(arr) - m ELSE 0)
    BY <1>2, <1>3
  <2>2. Len(w) = m + Len(z) /\ Len(z) \in Nat
    BY <1>5
  <2> HIDE DEF m
  <2>3. m <= Len(w) /\ Len(arr) <= Len(w)
    BY <2>1, <2>2
  <2> QED BY <2>3 DEF m
<1> QED
  BY Zenon, <1>5, <1>6, <1>7 DEF Holds, w

(* The table of executable regions. *)

Regs == {r \in [begin : Page, end : 1..NPages, jit : BOOLEAN] : r.begin < r.end}

\* The loop of RemoveExecRegion, turn by turn.
RemoveTurns(loop, regs, begin, end) ==
    /\ RemoveExecRegion(regs, begin, end) = SubSeq(loop[Len(regs)].arr, 1, loop[Len(regs)].len)
    /\ loop[0] = [arr |-> regs, len |-> 0]
    /\ \A i \in 1..Len(regs) :
         loop[i] = RemoveTurn(loop[i - 1], Pieces(loop[i - 1].arr[i], begin, end))

\* The loop of removeExecRegion exists as the recursive function that models it.
LEMMA RemoveLoop ==
    ASSUME NEW regs, Len(regs) \in Nat, NEW begin, NEW end
    PROVE  \E loop : RemoveTurns(loop, regs, begin, end)
<1> DEFINE Step(t, i) == RemoveTurn(t, Pieces(t.arr[i], begin, end))
           first == [arr |-> regs, len |-> 0]
           Is(g, n) == g = [i \in 0..n |-> IF i = 0 THEN first ELSE Step(g[i - 1], i)]
           G == {n \in Nat : \E g : Is(g, n)}
           N == Len(regs)
<1> HIDE DEF Step, first
<1>1. 0 \in G
  <2>1. Is([i \in 0..0 |-> first], 0)
    OBVIOUS
  <2> HIDE DEF Is
  <2> QED BY <2>1
<1>2. \A n \in 0..(N - 1) : n \in G => n + 1 \in G
  <2>1. ASSUME NEW n \in 0..(N - 1), n \in G PROVE n + 1 \in G
    <3>1. PICK g : Is(g, n)
      BY <2>1
    <3> DEFINE h == [i \in 0..(n + 1) |-> IF i = n + 1 THEN Step(g[n], n + 1) ELSE g[i]]
    <3>2. ASSUME NEW i \in 0..(n + 1)
          PROVE  h[i] = IF i = 0 THEN first ELSE Step(h[i - 1], i)
      <4>1. CASE i = n + 1
        <5>1. i # 0 /\ i - 1 = n /\ n \in 0..(n + 1) /\ n # n + 1
          BY <4>1
        <5>2. h[i] = Step(g[n], i) /\ h[i - 1] = g[n]
          BY <4>1, <5>1
        <5> QED BY <5>1, <5>2
      <4>2. CASE i # n + 1
        <5>1. i \in 0..n /\ h[i] = g[i]
          BY <4>2
        <5>2. g[i] = IF i = 0 THEN first ELSE Step(g[i - 1], i)
          BY Zenon, <3>1, <5>1
        <5>3. i # 0 => h[i - 1] = g[i - 1]
          BY <5>1
        <5> QED BY <5>1, <5>2, <5>3
      <4> QED BY <4>1, <4>2
    <3>3. Is(h, n + 1)
      BY Zenon, <3>2
    <3> HIDE DEF Is, h
    <3> QED BY <3>3
  <2> QED BY Zenon, <2>1
<1>3. N \in G
  <2>1. N \in Nat /\ N \in 0..N
    OBVIOUS
  <2> HIDE DEF G, N
  <2> QED BY Zenon, <1>1, <1>2, <2>1, UpTo
<1>4. PICK g : Is(g, N)
  BY <1>3
<1> DEFINE loop == CHOOSE f : f = [i \in 0..N |-> IF i = 0 THEN first ELSE Step(f[i - 1], i)]
<1>5. Is(loop, N)
  BY Zenon, <1>4
<1>6. RemoveExecRegion(regs, begin, end) = SubSeq(loop[N].arr, 1, loop[N].len)
  BY DEF RemoveExecRegion, Step, first
<1> HIDE DEF loop
<1>7. loop[0] = first /\ \A i \in 1..N : loop[i] = Step(loop[i - 1], i)
  <2>1. \A i \in 0..N : loop[i] = IF i = 0 THEN first ELSE Step(loop[i - 1], i)
    BY Zenon, <1>5
  <2>2. 0 \in 0..N /\ \A i \in 1..N : i \in 0..N /\ i # 0
    OBVIOUS
  <2> QED BY Zenon, <2>1, <2>2
<1> QED
  BY Zenon, <1>6, <1>7 DEF RemoveTurns, Step, first

\* The loop of AddExecRegion, turn by turn.
AddTurns(loop, regs, begin, end, jit) ==
    /\ AddExecRegion(regs, begin, end, jit)
         = Append(SubSeq(loop[Len(regs)].arr, 1, loop[Len(regs)].len), loop[Len(regs)].new)
    /\ loop[0] = [arr |-> regs, len |-> 0, new |-> Region(begin, end, jit)]
    /\ \A i \in 1..Len(regs) : loop[i] = AddTurn(loop[i - 1], loop[i - 1].arr[i])

\* The loop of addExecRegion exists as the recursive function that models it.
LEMMA AddLoop ==
    ASSUME NEW regs, Len(regs) \in Nat, NEW begin, NEW end, NEW jit
    PROVE  \E loop : AddTurns(loop, regs, begin, end, jit)
<1> DEFINE Step(t, i) == AddTurn(t, t.arr[i])
           first == [arr |-> regs, len |-> 0, new |-> Region(begin, end, jit)]
           Is(g, n) == g = [i \in 0..n |-> IF i = 0 THEN first ELSE Step(g[i - 1], i)]
           G == {n \in Nat : \E g : Is(g, n)}
           N == Len(regs)
<1> HIDE DEF Step, first
<1>1. 0 \in G
  <2>1. Is([i \in 0..0 |-> first], 0)
    OBVIOUS
  <2> HIDE DEF Is
  <2> QED BY <2>1
<1>2. \A n \in 0..(N - 1) : n \in G => n + 1 \in G
  <2>1. ASSUME NEW n \in 0..(N - 1), n \in G PROVE n + 1 \in G
    <3>1. PICK g : Is(g, n)
      BY <2>1
    <3> DEFINE h == [i \in 0..(n + 1) |-> IF i = n + 1 THEN Step(g[n], n + 1) ELSE g[i]]
    <3>2. ASSUME NEW i \in 0..(n + 1)
          PROVE  h[i] = IF i = 0 THEN first ELSE Step(h[i - 1], i)
      <4>1. CASE i = n + 1
        <5>1. i # 0 /\ i - 1 = n /\ n \in 0..(n + 1) /\ n # n + 1
          BY <4>1
        <5>2. h[i] = Step(g[n], i) /\ h[i - 1] = g[n]
          BY <4>1, <5>1
        <5> QED BY <5>1, <5>2
      <4>2. CASE i # n + 1
        <5>1. i \in 0..n /\ h[i] = g[i]
          BY <4>2
        <5>2. g[i] = IF i = 0 THEN first ELSE Step(g[i - 1], i)
          BY Zenon, <3>1, <5>1
        <5>3. i # 0 => h[i - 1] = g[i - 1]
          BY <5>1
        <5> QED BY <5>1, <5>2, <5>3
      <4> QED BY <4>1, <4>2
    <3>3. Is(h, n + 1)
      BY Zenon, <3>2
    <3> HIDE DEF Is, h
    <3> QED BY <3>3
  <2> QED BY Zenon, <2>1
<1>3. N \in G
  <2>1. N \in Nat /\ N \in 0..N
    OBVIOUS
  <2> HIDE DEF G, N
  <2> QED BY Zenon, <1>1, <1>2, <2>1, UpTo
<1>4. PICK g : Is(g, N)
  BY <1>3
<1> DEFINE loop == CHOOSE f : f = [i \in 0..N |-> IF i = 0 THEN first ELSE Step(f[i - 1], i)]
<1>5. Is(loop, N)
  BY Zenon, <1>4
<1>6. AddExecRegion(regs, begin, end, jit)
        = Append(SubSeq(loop[N].arr, 1, loop[N].len), loop[N].new)
  BY DEF AddExecRegion, Step, first
<1> HIDE DEF loop
<1>7. loop[0] = first /\ \A i \in 1..N : loop[i] = Step(loop[i - 1], i)
  <2>1. \A i \in 0..N : loop[i] = IF i = 0 THEN first ELSE Step(loop[i - 1], i)
    BY Zenon, <1>5
  <2>2. 0 \in 0..N /\ \A i \in 1..N : i \in 0..N /\ i # 0
    OBVIOUS
  <2> QED BY Zenon, <2>1, <2>2
<1> QED
  BY Zenon, <1>6, <1>7 DEF AddTurns, Step, first

\* Page q lies in a region of regs.
In(regs, q) == \E k \in 1..Len(regs) : regs[k].begin <= q /\ q < regs[k].end

\* Regions that cover only pages of regs.
Inside(regs) == {r \in Regs : \A q \in Nat : r.begin <= q /\ q < r.end => In(regs, q)}

\* The fields of a region.
LEMMA RegionFacts ==
    ASSUME NEW r \in Regs
    PROVE  /\ r.begin \in Nat /\ r.end \in Nat /\ r.begin < r.end /\ r.end <= NPages
           /\ r.begin < NPages /\ r.jit \in BOOLEAN
BY VMAssumption DEF Regs, Page

\* A region built from a range is one.
LEMMA RegionType ==
    ASSUME NEW begin \in Nat, NEW end \in Nat, begin < end, end <= NPages, NEW jit \in BOOLEAN
    PROVE  /\ Region(begin, end, jit) \in Regs
           /\ Region(begin, end, jit).begin = begin /\ Region(begin, end, jit).end = end
BY VMAssumption DEF Regs, Page, Region

\* A table covers what it covers.
LEMMA InsideItself ==
    ASSUME NEW regs \in Seq(Regs)
    PROVE  regs \in Seq(Inside(regs))
<1>1. \A k \in 1..Len(regs) : regs[k] \in Inside(regs)
  BY DEF Inside, In
<1> HIDE DEF Inside
<1> QED
  BY <1>1

\* What is left of a region when a range is taken out of it.
LEMMA PiecesFacts ==
    ASSUME NEW regs, NEW r \in Inside(regs), NEW begin \in 0..NPages, NEW end \in 0..NPages
    PROVE  /\ Pieces(r, begin, end) \in Seq(Inside(regs))
           /\ \A j \in 1..Len(Pieces(r, begin, end)) : Disjoint(Pieces(r, begin, end)[j], begin, end)
<1> DEFINE left == Region(r.begin, begin, r.jit)
           right == Region(end, r.end, r.jit)
           p == Pieces(r, begin, end)
<1>1. r \in Regs /\ NPages \in Nat /\ \A q \in Nat : r.begin <= q /\ q < r.end => In(regs, q)
  BY VMAssumption DEF Inside
<1>2. /\ r.begin \in Nat /\ r.end \in Nat /\ r.begin < r.end /\ r.end <= NPages
      /\ r.jit \in BOOLEAN
  BY <1>1, RegionFacts
<1>3. CASE Disjoint(r, begin, end)
  <2>1. p = <<r>>
    BY <1>3 DEF Pieces
  <2> QED BY <1>3, <2>1
<1>4. CASE ~Disjoint(r, begin, end)
  <2>1. begin < r.end /\ r.begin < end
    BY <1>2, <1>4 DEF Disjoint
  <2>2. r.begin < begin => left \in Inside(regs) /\ Disjoint(left, begin, end)
    <3> SUFFICES ASSUME r.begin < begin PROVE left \in Inside(regs) /\ Disjoint(left, begin, end)
      OBVIOUS
    <3>1. left \in Regs /\ left.begin = r.begin /\ left.end = begin
      BY <1>1, <1>2, RegionType
    <3> HIDE DEF left
    <3> QED BY <1>1, <1>2, <2>1, <3>1 DEF Inside, Disjoint
  <2>3. r.end > end => right \in Inside(regs) /\ Disjoint(right, begin, end)
    <3> SUFFICES ASSUME r.end > end PROVE right \in Inside(regs) /\ Disjoint(right, begin, end)
      OBVIOUS
    <3>1. right \in Regs /\ right.begin = end /\ right.end = r.end
      BY <1>1, <1>2, RegionType
    <3> HIDE DEF right
    <3> QED BY <1>1, <1>2, <2>1, <3>1 DEF Inside, Disjoint
  <2> DEFINE u == IF r.begin < begin THEN <<left>> ELSE << >>
             v == IF r.end > end THEN <<right>> ELSE << >>
  <2>4. p = u \o v
    BY <1>4 DEF Pieces
  <2> HIDE DEF left, right, p
  <2>5. p \in Seq(Inside(regs)) /\ \A j \in 1..Len(p) : Disjoint(p[j], begin, end)
    <3> DEFINE S == {x \in Inside(regs) : Disjoint(x, begin, end)}
    <3>1. (r.begin < begin => left \in S) /\ (r.end > end => right \in S)
      BY <2>2, <2>3
    <3> HIDE DEF S
    <3>2. p \in Seq(S)
      <4>1. u \in Seq(S) /\ v \in Seq(S)
        BY <3>1
      <4> HIDE DEF u, v
      <4> QED BY <2>4, <4>1, ConcatFacts
    <3>3. \A j \in 1..Len(p) : p[j] \in S
      BY <3>2
    <3>4. p \in Seq(Inside(regs))
      BY <3>2 DEF S
    <3> QED BY <3>3, <3>4 DEF S
  <2> QED BY <2>5 DEF p
<1> QED
  BY <1>3, <1>4

\* Removing a range leaves only pages that were covered, and none of the range:
\* a piece that overwrites a region that has not been read loses coverage, and
\* never gives any.
LEMMA RemoveFacts ==
    ASSUME NEW regs \in Seq(Regs), NEW begin \in 0..NPages, NEW end \in 0..NPages
    PROVE  /\ RemoveExecRegion(regs, begin, end) \in Seq(Inside(regs))
           /\ \A j \in 1..Len(RemoveExecRegion(regs, begin, end)) :
                Disjoint(RemoveExecRegion(regs, begin, end)[j], begin, end)
<1> DEFINE S == Inside(regs)
           N == Len(regs)
           out == RemoveExecRegion(regs, begin, end)
<1>1. N \in Nat
  OBVIOUS
<1>2. PICK loop : RemoveTurns(loop, regs, begin, end)
  BY Zenon, <1>1, RemoveLoop
<1>3. /\ out = SubSeq(loop[N].arr, 1, loop[N].len)
        /\ loop[0] = [arr |-> regs, len |-> 0]
        /\ \A i \in 1..N : loop[i] = RemoveTurn(loop[i - 1], Pieces(loop[i - 1].arr[i], begin, end))
  BY Zenon, <1>2 DEF RemoveTurns
<1> DEFINE Good(t) == /\ t.arr \in Seq(S) /\ N <= Len(t.arr) /\ t.len \in 0..Len(t.arr)
                      /\ \A j \in 1..t.len : Disjoint(t.arr[j], begin, end)
           G == {i \in Nat : Good(loop[i])}
<1> HIDE DEF S
<1>4. 0 \in G
  <2>1. regs \in Seq(S)
    BY InsideItself DEF S
  <2>2. loop[0].arr = regs /\ loop[0].len = 0
    BY <1>3
  <2> QED BY <1>1, <2>1, <2>2
<1>5. ASSUME NEW n \in 0..(N - 1), n \in G PROVE n + 1 \in G
  <2> DEFINE t == loop[n]
             s == Pieces(t.arr[n + 1], begin, end)
             w == Written(t.arr, t.len, s)
  <2>1. Good(t)
    BY <1>5
  <2>2. loop[n + 1].arr = w /\ loop[n + 1].len = t.len + Len(s)
    <3>1. n + 1 \in 1..N /\ (n + 1) - 1 = n
      BY <1>1
    <3>2. loop[n + 1] = RemoveTurn(t, s)
      BY <1>3, <3>1
    <3> QED BY <3>2 DEF RemoveTurn
  <2> HIDE DEF t
  <2>3. t.arr[n + 1] \in S
    BY <1>1, <2>1
  <2>4. s \in Seq(S) /\ \A j \in 1..Len(s) : Disjoint(s[j], begin, end)
    BY Zenon, <2>3, PiecesFacts DEF S
  <2>5. Holds(w, S, t.arr, t.len, s)
    BY <2>1, <2>4, WrittenFacts
  <2> HIDE DEF s, w
  <2>6. /\ w \in Seq(S) /\ t.len + Len(s) <= Len(w) /\ Len(t.arr) <= Len(w)
        /\ \A j \in 1..t.len : w[j] = t.arr[j]
        /\ \A j \in 1..Len(s) : w[t.len + j] = s[j]
    BY Zenon, <2>5 DEF Holds
  <2>7. Len(s) \in Nat /\ Len(w) \in Nat /\ t.len \in Nat /\ Len(t.arr) \in Nat
    BY <2>1, <2>4, <2>6
  <2>8. ASSUME NEW j \in 1..(t.len + Len(s)) PROVE Disjoint(w[j], begin, end)
    <3>1. CASE j \in 1..t.len
      BY Zenon, <2>1, <2>6, <3>1
    <3>2. CASE j \notin 1..t.len
      <4>1. j - t.len \in 1..Len(s) /\ t.len + (j - t.len) = j
        BY <2>7, <3>2
      <4>2. w[t.len + (j - t.len)] = s[j - t.len]
        BY Zenon, <2>6, <4>1
      <4> QED BY <2>4, <4>1, <4>2
    <3> QED BY <3>1, <3>2
  <2>9. N <= Len(w) /\ t.len + Len(s) \in 0..Len(w)
    BY <1>1, <2>1, <2>6, <2>7
  <2>10. Good(loop[n + 1])
    BY Zenon, <2>2, <2>6, <2>8, <2>9
  <2> HIDE DEF Good
  <2> QED BY <2>10
<1>6. N \in G
  <2>1. N \in 0..N
    BY <1>1
  <2> HIDE DEF G, N
  <2> QED BY Zenon, <1>1, <1>4, <1>5, <2>1, UpTo
<1> DEFINE t == loop[N]
<1>7. /\ t.arr \in Seq(S) /\ t.len \in 0..Len(t.arr)
      /\ \A j \in 1..t.len : Disjoint(t.arr[j], begin, end)
  BY <1>6
<1>8. out = SubSeq(t.arr, 1, t.len)
  BY <1>3
<1> HIDE DEF t, out
<1>9. out \in Seq(S) /\ Len(out) = t.len /\ \A j \in 1..t.len : out[j] = t.arr[j]
  BY <1>7, <1>8
<1> QED
  BY <1>7, <1>9 DEF out, S

\* Adding a range covers it and what was covered, and nothing else.
LEMMA AddFacts ==
    ASSUME NEW regs \in Seq(Regs), NEW begin \in Nat, NEW end \in Nat, begin < end,
           end <= NPages, NEW jit \in BOOLEAN
    PROVE  /\ AddExecRegion(regs, begin, end, jit) \in Seq(Regs)
           /\ \A q \in Nat : In(AddExecRegion(regs, begin, end, jit), q)
                              => In(regs, q) \/ (begin <= q /\ q < end)
<1> DEFINE S == Inside(regs)
           N == Len(regs)
           out == AddExecRegion(regs, begin, end, jit)
           Only(r) == r \in Regs /\ \A q \in Nat : r.begin <= q /\ q < r.end
                                               => In(regs, q) \/ (begin <= q /\ q < end)
<1>1. N \in Nat
  OBVIOUS
<1>2. PICK loop : AddTurns(loop, regs, begin, end, jit)
  BY Zenon, <1>1, AddLoop
<1>3. /\ out = Append(SubSeq(loop[N].arr, 1, loop[N].len), loop[N].new)
        /\ loop[0] = [arr |-> regs, len |-> 0, new |-> Region(begin, end, jit)]
        /\ \A i \in 1..N : loop[i] = AddTurn(loop[i - 1], loop[i - 1].arr[i])
  BY Zenon, <1>2 DEF AddTurns
<1> DEFINE T == [arr : Seq(S), len : Nat, new : {r \in Regs : Only(r)}]
           Good(t) == t \in T /\ N <= Len(t.arr) /\ t.len <= Len(t.arr)
           G == {i \in Nat : Good(loop[i])}
<1> HIDE DEF S
<1>4. 0 \in G
  <2> DEFINE new == Region(begin, end, jit)
  <2>1. regs \in Seq(S)
    BY InsideItself DEF S
  <2>2. Only(new) /\ new \in Regs
    <3>1. new \in Regs /\ new.begin = begin /\ new.end = end
      BY RegionType
    <3> HIDE DEF new
    <3> QED BY <3>1
  <2> HIDE DEF Only, new
  <2>3. loop[0] = [arr |-> regs, len |-> 0, new |-> new]
    BY <1>3 DEF new
  <2> QED BY <1>1, <2>1, <2>2, <2>3
<1>5. ASSUME NEW n \in 0..(N - 1), n \in G PROVE n + 1 \in G
  <2> DEFINE t == loop[n]
             r == t.arr[n + 1]
             s == <<r>>
             w == Written(t.arr, t.len, s)
  <2>1. Good(t)
    BY <1>5
  <2>2. loop[n + 1] = AddTurn(t, r)
    <3>1. n + 1 \in 1..N /\ (n + 1) - 1 = n
      BY <1>1
    <3> QED BY <1>3, <3>1
  <2> HIDE DEF t
  <2>3. r \in S
    BY <1>1, <2>1
  <2> HIDE DEF r
  <2>4. CASE Disjoint(r, t.new.begin, t.new.end)
    <3>1. s \in Seq(S) /\ Len(s) = 1 /\ t.arr \in Seq(S) /\ t.len \in 0..Len(t.arr)
      <4> HIDE DEF Only
      <4> QED BY <2>1, <2>3
    <3>2. w = Written(t.arr, t.len, s)
      OBVIOUS
    <3> HIDE DEF w, s
    <3>3. w \in Seq(S) /\ t.len + Len(s) <= Len(w) /\ Len(t.arr) <= Len(w)
      BY Zenon, <3>1, <3>2, WrittenFacts DEF Holds
    <3>4. loop[n + 1] = [t EXCEPT !.arr = w, !.len = t.len + 1]
      BY Zenon, <2>2, <2>4, <3>2 DEF AddTurn, s
    <3> DEFINE x == [t EXCEPT !.arr = w]
               News == {r2 \in Regs : Only(r2)}
    <3> HIDE DEF Only, News
    <3>5. loop[n + 1] \in T /\ loop[n + 1].arr = w /\ loop[n + 1].len = t.len + 1
      <4>1. t \in [arr : Seq(S), len : Nat, new : News]
        BY <2>1 DEF News
      <4>2. x \in [arr : Seq(S), len : Nat, new : News] /\ x.arr = w /\ x.len = t.len
        BY Zenon, <3>3, <4>1
      <4>3. loop[n + 1] = [x EXCEPT !.len = t.len + 1] /\ t.len + 1 \in Nat
        BY <3>4, <4>1
      <4> HIDE DEF x
      <4>4. loop[n + 1] \in [arr : Seq(S), len : Nat, new : News]
        BY Zenon, <4>2, <4>3
      <4> QED BY <4>2, <4>3, <4>4 DEF News
    <3>6. N <= Len(w) /\ t.len + 1 <= Len(w)
      BY <1>1, <2>1, <3>1, <3>3
    <3> QED BY <3>5, <3>6
  <2>5. CASE ~Disjoint(r, t.new.begin, t.new.end)
    <3> DEFINE b == IF r.begin < t.new.begin THEN r.begin ELSE t.new.begin
               e == IF r.end > t.new.end THEN r.end ELSE t.new.end
               new == [t.new EXCEPT !.begin = b, !.end = e]
    <3>1. r \in Regs /\ t.new \in Regs /\ Only(t.new)
      BY <2>1, <2>3 DEF S, Inside
    <3>2. \A q \in Nat : r.begin <= q /\ q < r.end => In(regs, q)
      BY <2>3 DEF S, Inside
    <3>3. /\ r.begin \in Nat /\ r.end \in Nat /\ r.begin < r.end
          /\ t.new.begin \in Nat /\ t.new.end \in Nat /\ t.new.begin < t.new.end
      BY <3>1, RegionFacts
    <3>4. b \in {r.begin, t.new.begin} /\ e \in {r.end, t.new.end} /\ b < e
      BY <3>3
    <3>5. ASSUME NEW q \in Nat, b <= q, q < e
          PROVE  (r.begin <= q /\ q < r.end) \/ (t.new.begin <= q /\ q < t.new.end)
      BY <2>5, <3>3, <3>5 DEF Disjoint
    <3>6. new \in Regs /\ new.begin = b /\ new.end = e
      <4>1. b \in Page /\ e \in 1..NPages
        BY <3>1, <3>4 DEF Regs
      <4> HIDE DEF b, e
      <4> QED BY Zenon, <3>1, <3>4, <4>1 DEF Regs
    <3>7. Only(new)
      <4> HIDE DEF b, e, new
      <4> QED BY <3>1, <3>2, <3>5, <3>6
    <3>8. loop[n + 1] = [t EXCEPT !.new = new]
      BY Zenon, <2>1, <2>2, <2>5 DEF AddTurn
    <3> HIDE DEF Only, new
    <3>9. loop[n + 1] \in T /\ loop[n + 1].arr = t.arr /\ loop[n + 1].len = t.len
      BY Zenon, <2>1, <3>6, <3>7, <3>8
    <3> QED BY <2>1, <3>9
  <2> QED BY <2>4, <2>5
<1>6. N \in G
  <2>1. N \in 0..N
    BY <1>1
  <2> HIDE DEF G, N
  <2> QED BY Zenon, <1>1, <1>4, <1>5, <2>1, UpTo
<1> DEFINE t == loop[N]
           kept == SubSeq(t.arr, 1, t.len)
<1>7. t.arr \in Seq(S) /\ t.len \in 0..Len(t.arr) /\ t.new \in Regs /\ Only(t.new)
  <2> HIDE DEF Only
  <2> QED BY <1>6
<1>8. out = Append(kept, t.new)
  BY <1>3
<1>9. kept \in Seq(S) /\ S \subseteq Regs /\ kept \in Seq(Regs)
  BY <1>7 DEF S, Inside
<1> HIDE DEF t, out, kept
<1>10. /\ out \in Seq(Regs) /\ Len(out) = Len(kept) + 1 /\ out[Len(out)] = t.new
      /\ \A k \in 1..Len(out) : k = Len(out) \/ out[k] \in S
  BY <1>7, <1>8, <1>9
<1>11. ASSUME NEW q \in Nat, In(out, q) PROVE In(regs, q) \/ (begin <= q /\ q < end)
  <2>1. PICK k \in 1..Len(out) : out[k].begin <= q /\ q < out[k].end
    BY <1>11 DEF In
  <2>2. CASE k = Len(out)
    BY Zenon, <1>7, <1>10, <2>1, <2>2
  <2>3. CASE out[k] \in S
    BY Zenon, <2>1, <2>3 DEF S, Inside
  <2> QED BY Zenon, <1>10, <2>2, <2>3
<1> QED
  BY <1>10, <1>11 DEF out

(* The invariant. *)

PageStates == {Untracked, Unmapped} \cup {Mapped(t, nz) : t \in SUBSET {"r", "w", "x"}, nz \in BOOLEAN}

\* A page in state pg may hold c when d is due: zeroing has been put off only
\* where nobody can read, and nothing was written there since.
Fits(pg, c, d) ==
    /\ pg.state = "mapped" /\ pg.needsZero => pg.prot = {} /\ d = "zero"
    /\ pg.state = "untracked" \/ (pg.state = "mapped" /\ ~pg.needsZero) => d = "any" \/ c = d

Types ==
    /\ pages \in [Page -> PageStates]
    /\ brk \in MinBrk..(NPages - 3) /\ mmapNext \in MmapBase..(NPages - 2)
    /\ restorer \in {0} \cup MmapBase..(NPages - 3)
    /\ regions \in Seq(Regs)
    /\ content \in [Page -> {"zero", "data"}]
    /\ due \in [Page -> {"zero", "data", "any"}]

Contents == \A p \in Page : Fits(pages[p], content[p], due[p])

IInv == Types /\ Contents /\ RegionsOnlyExec

\* The layout of guest memory.
LEMMA SizeFacts ==
    /\ NPages \in Nat /\ NPages > 2 /\ MinBrk \in 1..(NPages - 3) /\ MmapBase \in 1..(NPages - 3)
    /\ Page \in SUBSET Nat
BY VMAssumption DEF Page

\* The page states, told apart.
LEMMA StateFacts ==
    /\ Untracked.state = "untracked" /\ Unmapped.state = "unmapped"
    /\ Untracked \in PageStates /\ Unmapped \in PageStates
    /\ \A t \in SUBSET {"r", "w", "x"}, nz \in BOOLEAN :
         /\ Mapped(t, nz) \in PageStates /\ Mapped(t, nz).state = "mapped"
         /\ Mapped(t, nz).prot = t /\ Mapped(t, nz).needsZero = nz
<1>1. Untracked.state = "untracked" /\ Unmapped.state = "unmapped"
  BY DEF Untracked, Unmapped
<1>2. ASSUME NEW t \in SUBSET {"r", "w", "x"}, NEW nz \in BOOLEAN
      PROVE  /\ Mapped(t, nz).state = "mapped"
             /\ Mapped(t, nz).prot = t /\ Mapped(t, nz).needsZero = nz
  BY DEF Mapped
<1>3. /\ Untracked \in PageStates /\ Unmapped \in PageStates
      /\ \A t \in SUBSET {"r", "w", "x"}, nz \in BOOLEAN : Mapped(t, nz) \in PageStates
  BY DEF PageStates
<1> QED
  BY ZenonT(60), <1>1, <1>2, <1>3

\* A page is in one of its states.
LEMMA OneState ==
    ASSUME NEW pg \in PageStates
    PROVE  \/ pg = Untracked
           \/ pg = Unmapped
           \/ \E t \in SUBSET {"r", "w", "x"}, nz \in BOOLEAN : pg = Mapped(t, nz)
BY DEF PageStates

\* The fields of a mapped page.
LEMMA MappedFacts ==
    ASSUME NEW t \in SUBSET {"r", "w", "x"}, NEW nz \in BOOLEAN
    PROVE  /\ Mapped(t, nz) \in PageStates /\ Mapped(t, nz).state = "mapped"
           /\ Mapped(t, nz).prot = t /\ Mapped(t, nz).needsZero = nz
BY Zenon, StateFacts

\* The names of the states.
LEMMA ThreeStates ==
    ASSUME NEW pg \in PageStates
    PROVE  pg.state = "untracked" \/ pg.state = "unmapped" \/ pg.state = "mapped"
<1>1. CASE pg = Untracked \/ pg = Unmapped
  BY Zenon, <1>1, StateFacts
<1>2. CASE \E t \in SUBSET {"r", "w", "x"}, nz \in BOOLEAN : pg = Mapped(t, nz)
  BY <1>2, MappedFacts
<1> QED
  BY Zenon, <1>1, <1>2, OneState

\* What fits.
LEMMA FitsFacts ==
    ASSUME NEW c, NEW d, NEW t \in SUBSET {"r", "w", "x"}
    PROVE  /\ Fits(Unmapped, c, d)
           /\ Fits(Mapped(t, FALSE), d, d)
           /\ Fits(Mapped(t, FALSE), c, "any")
           /\ Fits(Mapped({}, TRUE), c, "zero")
           /\ Fits(Untracked, d, d)
BY StateFacts, Zenon DEF Fits

\* A page the guest may read shows what is due.
LEMMA InvContents == IInv => MappedContents
<1> SUFFICES ASSUME IInv PROVE MappedContents
  OBVIOUS
<1>1. TypeOK
  <2>1. \A i \in DOMAIN regions : /\ regions[i] \in [begin : Page, end : 1..NPages, jit : BOOLEAN]
                                  /\ regions[i].begin < regions[i].end
    <3>1. \A i \in DOMAIN regions : regions[i] \in Regs
      BY DEF IInv, Types
    <3> QED BY <3>1 DEF Regs
  <2> HIDE DEF PageStates
  <2> QED BY <2>1 DEF IInv, Types, TypeOK, PageStates
<1>2. ASSUME NEW p \in Page, Allows(p, "r"), due[p] # "any" PROVE content[p] = due[p]
  <2>1. pages[p] \in PageStates /\ Fits(pages[p], content[p], due[p])
    BY DEF IInv, Types, Contents
  <2>2. \/ pages[p].state = "untracked"
        \/ pages[p].state = "mapped" /\ "r" \in pages[p].prot
    BY <1>2 DEF Allows, IsMapped
  <2> QED BY Zenon, <1>2, <2>1, <2>2 DEF Fits
<1> QED
  BY Zenon, <1>1, <1>2 DEF MappedContents

\* Every page starts as the loader left it.
LEMMA InitInv == Init => IInv
<1> SUFFICES ASSUME Init PROVE IInv
  OBVIOUS
<1>1. regions \in Seq(Regs)
  <2>1. CASE Text = {}
    BY <2>1 DEF Init
  <2>2. CASE Text # {}
    <3> DEFINE lo == CHOOSE p \in Text : \A q \in Text : p <= q
    <3>1. Text \subseteq 1..(NPages - 1) /\ Text \in SUBSET Nat
      BY VMAssumption
    <3>2. PICK x \in Text : \A y \in Text : x <= y
      BY <2>2, <3>1, LeastNumber
    <3>3. lo \in Text /\ \A y \in Text : lo <= y
      BY Zenon, <3>2
    <3> HIDE DEF lo
    <3>4. lo \in 1..(NPages - 1) /\ Text \subseteq lo..(NPages - 1)
      BY <3>1, <3>3
    <3>5. /\ IsFiniteSet(lo..(NPages - 1))
          /\ Cardinality(lo..(NPages - 1)) = NPages - lo
      BY <3>4, SizeFacts, FS_Interval
    <3>6. IsFiniteSet(Text) /\ Cardinality(Text) <= NPages - lo
      <4> DEFINE I == lo..(NPages - 1)
      <4>1. Text \in SUBSET I /\ IsFiniteSet(I)
        BY <3>4, <3>5
      <4>2. Cardinality(I) = NPages - lo
        BY <3>5
      <4> HIDE DEF I
      <4>3. IsFiniteSet(Text) /\ Cardinality(Text) <= Cardinality(I)
        BY Zenon, <4>1, FS_Subset
      <4> QED BY Zenon, <4>2, <4>3
    <3>7. Cardinality(Text) \in Nat /\ Cardinality(Text) # 0
      BY <2>2, <3>6, FS_CardinalityType, FS_EmptySet
    <3> DEFINE hi == lo + Cardinality(Text)
               r == Region(lo, hi, FALSE)
    <3>8. lo \in Nat /\ hi \in Nat /\ lo < hi /\ hi <= NPages
      BY <3>4, <3>6, <3>7, SizeFacts
    <3>9. regions = <<r>>
      BY Zenon, <2>2 DEF Init, lo
    <3> HIDE DEF hi
    <3>10. r \in Regs
      BY Zenon, <3>8, RegionType
    <3> HIDE DEF r
    <3> QED BY <3>9, <3>10
  <2> QED BY <2>1, <2>2
<1>2. Types
  <2>1. brk \in MinBrk..(NPages - 3) /\ mmapNext \in MmapBase..(NPages - 2)
    BY SizeFacts DEF Init
  <2> QED BY Zenon, <1>1, <2>1, StateFacts DEF Init, Types
<1>3. Contents
  BY StateFacts DEF Init, Contents, Fits
<1>4. RegionsOnlyExec
  <2> SUFFICES ASSUME NEW p \in Page, Covered(p) PROVE Allows(p, "x")
    BY DEF RegionsOnlyExec
  <2>1. PICK i \in DOMAIN regions : regions[i].begin <= p
    BY DEF Covered
  <2>2. Text # {}
    BY <2>1 DEF Init
  <2> DEFINE lo == CHOOSE x \in Text : \A y \in Text : x <= y
  <2>3. Text \subseteq 1..(NPages - 1) /\ Text \in SUBSET Nat
    BY VMAssumption
  <2>4. PICK x \in Text : \A y \in Text : x <= y
    BY <2>2, <2>3, LeastNumber
  <2>5. lo \in Text
    BY Zenon, <2>4
  <2>6. regions[i].begin = lo
    <3>1. regions = <<Region(lo, lo + Cardinality(Text), FALSE)>>
      BY Zenon, <2>2 DEF Init
    <3> HIDE DEF lo
    <3> QED BY <3>1 DEF Region
  <2> HIDE DEF lo
  <2>7. p # 0
    BY <2>1, <2>3, <2>5, <2>6, SizeFacts
  <2> QED BY Zenon, <2>7, StateFacts DEF Init, Allows
<1> QED
  BY <1>2, <1>3, <1>4 DEF IInv

(* Steps of the table. *)

\* The pages covered are those inside a region of the table.
LEMMA CoveredIn ==
    ASSUME NEW p, regions \in Seq(Regs)
    PROVE  Covered(p) <=> In(regions, p)
<1>1. DOMAIN regions = 1..Len(regions)
  OBVIOUS
<1> QED
  BY Zenon, <1>1 DEF Covered, In

\* The same after a step.
LEMMA CoveredNext ==
    ASSUME NEW p, regions' \in Seq(Regs)
    PROVE  Covered(p)' <=> In(regions', p)
<1>1. (DOMAIN regions)' = 1..Len(regions')
  OBVIOUS
<1> QED
  BY Zenon, <1>1 DEF Covered, In

\* removeExecRegion keeps a table and adds nothing to it, and none of the range
\* is left.
LEMMA RemoveTable ==
    ASSUME NEW regs \in Seq(Regs), NEW begin \in 0..NPages, NEW end \in 0..NPages,
           NEW out, out = RemoveExecRegion(regs, begin, end)
    PROVE  /\ out \in Seq(Regs)
           /\ \A p \in Nat : In(out, p) => In(regs, p) /\ p \notin Span(begin, end)
<1>1. /\ out \in Seq(Inside(regs)) /\ Inside(regs) \subseteq Regs
      /\ \A j \in 1..Len(out) : Disjoint(out[j], begin, end)
  BY RemoveFacts DEF Inside
<1>2. out \in Seq(Regs) /\ \A j \in 1..Len(out) : out[j] \in Inside(regs) /\ out[j] \in Regs
  BY <1>1
<1>3. ASSUME NEW p \in Nat, In(out, p) PROVE In(regs, p) /\ p \notin Span(begin, end)
  <2>1. PICK j \in 1..Len(out) : out[j].begin <= p /\ p < out[j].end
    BY <1>3 DEF In
  <2>2. In(regs, p)
    BY Zenon, <1>2, <2>1 DEF Inside
  <2> DEFINE r == out[j]
  <2>3. r.begin \in Nat /\ r.end \in Nat
    BY <1>2, RegionFacts
  <2>4. r.end <= begin \/ r.begin >= end
    BY <1>1 DEF Disjoint
  <2> HIDE DEF r
  <2>5. r.begin <= p /\ p < r.end
    BY <2>1 DEF r
  <2>6. p \notin Span(begin, end)
    BY <2>3, <2>4, <2>5, SizeFacts DEF Span
  <2> QED BY <2>2, <2>6
<1> QED
  BY <1>2, <1>3

\* A system call that maps or protects a range: only its pages become covered,
\* and only if they are executable.
LEMMA ExecStep ==
    ASSUME IInv, NEW begin \in 0..NPages, NEW end \in 0..NPages, begin < end,
           NEW prot \in SUBSET {"r", "w", "x"}, UpdateExecMetadata(begin, end, prot), brk' = brk,
           \A p \in Page \ Span(begin, end) : pages'[p] = pages[p],
           \A p \in Page \cap Span(begin, end) :
             p # 0 /\ pages'[p].state = "mapped" /\ pages'[p].prot = prot
    PROVE  regions' \in Seq(Regs) /\ RegionsOnlyExec'
<1>1. regions \in Seq(Regs)
  BY DEF IInv, Types
<1>2. CASE "x" \in prot
  <2>1. regions' = AddExecRegion(regions, begin, end, "w" \in prot)
    BY <1>2 DEF UpdateExecMetadata
  <2>2. begin \in Nat /\ end \in Nat /\ end <= NPages /\ ("w" \in prot) \in BOOLEAN
    BY SizeFacts
  <2> DEFINE out == AddExecRegion(regions, begin, end, "w" \in prot)
  <2>a. /\ out \in Seq(Regs)
        /\ \A p \in Nat : In(out, p) => In(regions, p) \/ (begin <= p /\ p < end)
    BY Zenon, <1>1, <2>2, AddFacts
  <2>3. /\ regions' \in Seq(Regs)
        /\ \A p \in Nat : In(regions', p) => In(regions, p) \/ (begin <= p /\ p < end)
    BY Zenon, <2>1, <2>a
  <2>4. ASSUME NEW p \in Page, Covered(p)', p \notin Span(MinBrk, brk) PROVE Allows(p, "x")'
    <3>1. p \in Nat
      BY SizeFacts
    <3>2. In(regions', p)
      BY <2>3, <2>4, CoveredNext
    <3>3. CASE p \in Span(begin, end)
      BY Zenon, <1>2, <3>3 DEF Allows, IsMapped
    <3>4. CASE p \notin Span(begin, end)
      <4>1. In(regions, p)
        BY <2>2, <2>3, <3>1, <3>2, <3>4 DEF Span
      <4>2. Allows(p, "x")
        BY Zenon, <1>1, <2>4, <4>1, CoveredIn DEF IInv, RegionsOnlyExec
      <4> QED BY Zenon, <3>4, <4>2 DEF Allows, IsMapped
    <3> QED BY <3>3, <3>4
  <2> QED BY Zenon, <2>3, <2>4 DEF RegionsOnlyExec
<1>3. CASE "x" \notin prot
  <2>1. regions' = RemoveExecRegion(regions, begin, end)
    BY <1>3 DEF UpdateExecMetadata
  <2>2. /\ regions' \in Seq(Regs)
        /\ \A p \in Nat : In(regions', p) => In(regions, p) /\ p \notin Span(begin, end)
    BY <1>1, <2>1, RemoveTable
  <2>3. ASSUME NEW p \in Page, Covered(p)', p \notin Span(MinBrk, brk) PROVE Allows(p, "x")'
    <3>1. p \in Nat
      BY SizeFacts
    <3>2. In(regions', p)
      BY <2>2, <2>3, CoveredNext
    <3>3. In(regions, p) /\ p \notin Span(begin, end)
      BY <2>2, <3>1, <3>2
    <3>4. Allows(p, "x")
      BY Zenon, <1>1, <2>3, <3>3, CoveredIn DEF IInv, RegionsOnlyExec
    <3> QED BY Zenon, <3>3, <3>4 DEF Allows, IsMapped
  <2> QED BY Zenon, <2>2, <2>3 DEF RegionsOnlyExec
<1> QED
  BY <1>2, <1>3

\* A system call that unmaps a range.
LEMMA UnmapStep ==
    ASSUME IInv, NEW begin \in 0..NPages, NEW end \in 0..NPages,
           regions' = RemoveExecRegion(regions, begin, end),
           \A p \in Page \ Span(begin, end) : pages'[p] = pages[p],
           \A p \in Page \ Span(begin, end) :
             p \in Span(MinBrk, brk) => p \in Span(MinBrk, brk')
    PROVE  regions' \in Seq(Regs) /\ RegionsOnlyExec'
<1>1. regions \in Seq(Regs)
  BY DEF IInv, Types
<1>2. /\ regions' \in Seq(Regs)
      /\ \A p \in Nat : In(regions', p) => In(regions, p) /\ p \notin Span(begin, end)
  BY <1>1, RemoveTable
<1>3. ASSUME NEW p \in Page, Covered(p)', p \notin Span(MinBrk, brk') PROVE Allows(p, "x")'
  <2>1. p \in Nat
    BY SizeFacts
  <2>2. In(regions', p)
    BY <1>2, <1>3, CoveredNext
  <2>3. In(regions, p) /\ p \notin Span(begin, end)
    BY <1>2, <2>1, <2>2
  <2>4. Allows(p, "x")
    BY Zenon, <1>1, <1>3, <2>3, CoveredIn DEF IInv, RegionsOnlyExec
  <2> QED BY Zenon, <2>3, <2>4 DEF Allows, IsMapped
<1> QED
  BY Zenon, <1>2, <1>3 DEF RegionsOnlyExec

-----------------------------------------------------------------------------
(* The system calls. *)

\* What allocRange returns: free pages, below the last two.
LEMMA AllocFacts ==
    ASSUME Types, NEW n \in Nat, Candidates(n) # {}
    PROVE  /\ AllocRange(n) \in MmapBase..(NPages - 2)
           /\ AllocRange(n) + n <= NPages - 2 /\ RangeFree(AllocRange(n), AllocRange(n) + n)
<1> DEFINE T == Candidates(n)
<1>1. T \in SUBSET Nat
  BY SizeFacts DEF Candidates, Types
<1>2. PICK x \in T : \A y \in T : x <= y
  <2> HIDE DEF T
  <2> QED BY <1>1, LeastNumber DEF T
<1>3. AllocRange(n) \in T
  BY Zenon, <1>2 DEF AllocRange
<1> DEFINE a == AllocRange(n)
<1> HIDE DEF a
<1>4. a \in mmapNext..(NPages - 2) /\ a + n <= NPages - 2 /\ RangeFree(a, a + n)
  BY <1>3 DEF Candidates, a
<1>5. mmapNext \in Nat /\ MmapBase <= mmapNext
  BY SizeFacts DEF Types
<1>6. a \in MmapBase..(NPages - 2)
  BY <1>4, <1>5, SizeFacts
<1> QED
  BY <1>4, <1>6 DEF a

\* A range is one of pages.
LEMMA SpanFacts ==
    ASSUME NEW begin \in 0..NPages, NEW end \in 0..NPages
    PROVE  Span(begin, end) \subseteq Page
BY SizeFacts DEF Span, Page

\* sysBrk: growing maps zeroed pages, shrinking unmaps them.
LEMMA BrkStep ==
    ASSUME IInv, NEW addr \in Page, SysBrk(addr)
    PROVE  IInv'
<1>1. /\ brk \in MinBrk..(NPages - 3) /\ brk' = addr /\ addr \in MinBrk..(NPages - 3)
      /\ addr \in Nat /\ brk \in Nat /\ addr \in 0..NPages /\ brk \in 0..NPages
  BY SizeFacts DEF IInv, Types, SysBrk, Page
<1>2. CASE addr > brk
  <2>1. /\ content' = On(content, Span(brk, addr), "zero") /\ due' = On(due, Span(brk, addr), "zero")
        /\ pages' = On(pages, Span(brk, addr), Mapped({"r", "w"}, FALSE))
        /\ UNCHANGED <<regions, mmapNext, restorer>>
    <3>1. ~ (addr < brk)
      BY <1>1, <1>2
    <3> QED BY Zenon, <3>1 DEF SysBrk, Zero, NowZero, MapRangeState
  <2>2. Mapped({"r", "w"}, FALSE) \in PageStates /\ Fits(Mapped({"r", "w"}, FALSE), "zero", "zero")
    BY Zenon, StateFacts, FitsFacts
  <2>3. Types'
    BY Zenon, <1>1, <2>1, <2>2 DEF IInv, Types, On
  <2>4. Contents'
    BY Zenon, <2>1, <2>2 DEF IInv, Types, Contents, On
  <2>5. ASSUME NEW p \in Page, Covered(p)', p \notin Span(MinBrk, addr) PROVE Allows(p, "x")'
    <3>1. p \notin Span(MinBrk, brk) /\ p \notin Span(brk, addr)
      BY <1>1, <1>2, <2>5, SizeFacts DEF Span
    <3>2. Covered(p) /\ pages'[p] = pages[p]
      BY <2>1, <2>5, <3>1 DEF Covered, On
    <3> QED BY Zenon, <3>1, <3>2 DEF IInv, RegionsOnlyExec, Allows, IsMapped
  <2> QED BY Zenon, <1>1, <2>3, <2>4, <2>5 DEF IInv, RegionsOnlyExec
<1>3. CASE addr < brk
  <2>1. /\ pages' = On(pages, Span(addr, brk), Unmapped)
        /\ regions' = RemoveExecRegion(regions, addr, brk)
        /\ UNCHANGED <<content, due, mmapNext, restorer>>
    <3>1. ~ (addr > brk)
      BY <1>1, <1>3
    <3> QED BY Zenon, <3>1 DEF SysBrk, UnmapRange
  <2>2. \A p \in Page \ Span(addr, brk) : pages'[p] = pages[p]
    BY <2>1 DEF On
  <2>3. \A p \in Page \ Span(addr, brk) : p \in Span(MinBrk, brk) => p \in Span(MinBrk, brk')
    BY <1>1, <1>3, SizeFacts DEF Span
  <2>4. regions' \in Seq(Regs) /\ RegionsOnlyExec'
    BY <1>1, <2>1, <2>2, <2>3, UnmapStep
  <2>5. Types'
    BY <1>1, <2>1, <2>4, StateFacts DEF IInv, Types, On
  <2>6. Contents'
    <3>1. \A c, d : Fits(Unmapped, c, d)
      BY Zenon, FitsFacts
    <3> QED BY <2>1, <3>1 DEF IInv, Types, Contents, On
  <2> QED BY <2>4, <2>5, <2>6 DEF IInv
<1> QED
  BY Zenon, <1>2, <1>3 DEF SysBrk

\* mapAnonymous: zeroed, or to be zeroed when access is first given.
LEMMA MapStep ==
    ASSUME IInv, NEW begin \in 1..NPages, NEW end \in 1..NPages, begin < end,
           NEW prot \in SUBSET {"r", "w", "x"}, MapAnonymous(begin, end, prot),
           mmapNext' \in MmapBase..(NPages - 2)
    PROVE  IInv'
<1> DEFINE nz == prot = {}
           S == Span(begin, end)
<1>1. /\ due' = On(due, S, "zero") /\ pages' = On(pages, S, Mapped(prot, nz))
      /\ content' = content \/ (~nz /\ content' = On(content, S, "zero"))
      /\ nz \/ content' = On(content, S, "zero")
      /\ brk' = brk /\ restorer' = restorer /\ UpdateExecMetadata(begin, end, prot)
  BY Zenon DEF MapAnonymous, NowZero, MapRangeState, Zero
<1>2. nz \in BOOLEAN /\ (nz => prot = {})
  OBVIOUS
<1> HIDE DEF nz
<1>3. /\ Mapped(prot, nz) \in PageStates /\ Mapped(prot, nz).state = "mapped"
      /\ Mapped(prot, nz).prot = prot
  BY Zenon, <1>2, StateFacts
<1>4. regions' \in Seq(Regs) /\ RegionsOnlyExec'
  <2>1. begin \in 0..NPages /\ end \in 0..NPages
    BY SizeFacts
  <2>2. \A p \in Page \ S : pages'[p] = pages[p]
    BY <1>1 DEF On
  <2>3. \A p \in Page \cap S : p # 0 /\ pages'[p].state = "mapped" /\ pages'[p].prot = prot
    BY <1>1, <1>3, SizeFacts DEF On, Span
  <2> QED BY <1>1, <2>1, <2>2, <2>3, ExecStep
<1>5. Types'
  <2>1. content' \in [Page -> {"zero", "data"}]
    BY <1>1 DEF IInv, Types, On
  <2> QED BY <1>1, <1>3, <1>4, <2>1 DEF IInv, Types, On
<1>6. ASSUME NEW p \in Page PROVE Fits(pages'[p], content'[p], due'[p])
  <2>1. CASE p \in S
    <3>1. pages'[p] = Mapped(prot, nz) /\ due'[p] = "zero"
      BY <1>1, <2>1 DEF On
    <3>2. CASE nz
      <4>1. nz = TRUE /\ prot = {}
        BY <1>2, <3>2
      <4> QED BY Zenon, <3>1, <4>1, FitsFacts
    <3>3. CASE ~nz
      <4>1. nz = FALSE
        BY <1>2, <3>3
      <4>2. content'[p] = "zero"
        BY <1>1, <2>1, <3>3 DEF On
      <4> QED BY Zenon, <3>1, <4>1, <4>2, FitsFacts
    <3> QED BY <3>2, <3>3
  <2>2. CASE p \notin S
    <3>1. pages'[p] = pages[p] /\ due'[p] = due[p] /\ content'[p] = content[p]
      BY <1>1, <2>2 DEF On
    <3> QED BY <3>1 DEF IInv, Contents
  <2> QED BY <2>1, <2>2
<1> QED
  BY <1>4, <1>5, <1>6 DEF IInv, Contents

\* sysMunmap.
LEMMA MunmapStep ==
    ASSUME IInv, NEW begin \in 0..NPages, NEW end \in 0..NPages, SysMunmap(begin, end)
    PROVE  IInv'
<1>1. /\ pages' = On(pages, Span(begin, end), Unmapped)
      /\ regions' = RemoveExecRegion(regions, begin, end)
      /\ UNCHANGED <<brk, mmapNext, restorer, content, due>>
  BY DEF SysMunmap, UnmapRange
<1>2. \A p \in Page \ Span(begin, end) : pages'[p] = pages[p]
  BY <1>1 DEF On
<1>3. \A p \in Page \ Span(begin, end) : p \in Span(MinBrk, brk) => p \in Span(MinBrk, brk')
  BY <1>1
<1>4. regions' \in Seq(Regs) /\ RegionsOnlyExec'
  BY <1>1, <1>2, <1>3, UnmapStep
<1>5. Types'
  BY <1>1, <1>4, StateFacts DEF IInv, Types, On
<1>6. Contents'
  <2>1. \A c, d : Fits(Unmapped, c, d)
    BY Zenon, FitsFacts
  <2> QED BY <1>1, <2>1 DEF IInv, Types, Contents, On
<1> QED
  BY <1>4, <1>5, <1>6 DEF IInv

\* The pages a guest may write are not waiting to be zeroed.
LEMMA WritableFacts ==
    ASSUME IInv, NEW p \in Page, NEW a, Allows(p, a)
    PROVE  \A d \in {"zero", "data"} : Fits(pages[p], d, d)
<1>1. pages[p] \in PageStates /\ Fits(pages[p], content[p], due[p])
  BY DEF IInv, Types, Contents
<1>2. pages[p].state = "mapped" => ~pages[p].needsZero
  BY Zenon, <1>1 DEF Fits, Allows, IsMapped
<1> QED
  BY Zenon, <1>2 DEF Fits

\* sysMprotect zeroes what waited for it before anybody can read it.
LEMMA MprotectStep ==
    ASSUME IInv, NEW begin \in 0..NPages, NEW end \in 0..NPages, begin < end,
           NEW prot \in SUBSET {"r", "w", "x"}, SysMprotect(begin, end, prot)
    PROVE  IInv'
<1> DEFINE S == Span(begin, end)
           nz(p) == prot = {} /\ NeedsZero(p)
           Z == {p \in S : NeedsZero(p)}
<1>1. /\ pages' = [p \in Page |-> IF p \in S THEN Mapped(prot, nz(p)) ELSE pages[p]]
      /\ (prot = {} /\ content' = content) \/ (prot # {} /\ content' = On(content, Z, "zero"))
      /\ UpdateExecMetadata(begin, end, prot) /\ UNCHANGED <<brk, mmapNext, restorer, due>>
  BY Zenon DEF SysMprotect, ProtectRange, ZeroNeededRanges
<1>2. \A p \in Page : pages'[p] = IF p \in S THEN Mapped(prot, nz(p)) ELSE pages[p]
  BY Zenon, <1>1
<1>3. S \subseteq Page /\ \A p \in S : p # 0 /\ pages[p].state # "unmapped"
  BY Zenon, SpanFacts DEF SysMprotect, RangeUnmapped
<1>4. \A p : nz(p) \in BOOLEAN
  BY Zenon
<1>5. \A p : /\ Mapped(prot, nz(p)) \in PageStates /\ Mapped(prot, nz(p)).state = "mapped"
             /\ Mapped(prot, nz(p)).prot = prot
  <2> HIDE DEF nz
  <2> QED BY <1>4, MappedFacts
<1>6. regions' \in Seq(Regs) /\ RegionsOnlyExec'
  <2>1. \A p \in Page \ S : pages'[p] = pages[p]
    BY Zenon, <1>2
  <2>2. \A p \in Page \cap S : p # 0 /\ pages'[p].state = "mapped" /\ pages'[p].prot = prot
    BY Zenon, <1>2, <1>3, <1>5
  <2>3. brk' = brk /\ UpdateExecMetadata(begin, end, prot)
    BY <1>1
  <2> QED BY Zenon, <2>1, <2>2, <2>3, ExecStep
<1>7. content' \in [Page -> {"zero", "data"}]
  BY <1>1 DEF IInv, Types, On
<1>8. pages' \in [Page -> PageStates]
  <2> HIDE DEF nz
  <2>1. pages \in [Page -> PageStates]
    BY DEF IInv, Types
  <2> QED BY <1>1, <1>5, <2>1
<1>9. Types'
  <2>1. UNCHANGED <<brk, mmapNext, restorer, due>>
    BY <1>1
  <2> QED BY <1>6, <1>7, <1>8, <2>1 DEF IInv, Types
<1>10. ASSUME NEW p \in Page PROVE Fits(pages'[p], content'[p], due'[p])
  <2>1. /\ due'[p] = due[p] /\ Fits(pages[p], content[p], due[p]) /\ pages[p] \in PageStates
        /\ content'[p] = IF prot # {} /\ p \in Z THEN "zero" ELSE content[p]
    BY Zenon, <1>1 DEF IInv, Contents, Types, On
  <2>2. CASE p \notin S
    BY Zenon, <1>2, <2>1, <2>2
  <2>3. CASE p \in S /\ NeedsZero(p)
    <3>1. due[p] = "zero" /\ p \in Z
      BY Zenon, <2>1, <2>3 DEF Fits, NeedsZero, IsMapped
    <3>2. CASE prot = {}
      <4>1. nz(p) = TRUE
        BY <2>3, <3>2
      <4> QED BY Zenon, <1>2, <2>1, <2>3, <3>1, <3>2, <4>1, FitsFacts
    <3>3. CASE prot # {}
      <4>1. nz(p) = FALSE
        BY Zenon, <3>3
      <4> QED BY Zenon, <1>2, <2>1, <2>3, <3>1, <3>3, <4>1, FitsFacts
    <3> QED BY <3>2, <3>3
  <2>4. CASE p \in S /\ ~NeedsZero(p)
    <3>1. pages[p].state = "untracked" \/ (pages[p].state = "mapped" /\ ~pages[p].needsZero)
      <4>1. \/ pages[p].state = "untracked" \/ pages[p].state = "unmapped"
            \/ pages[p].state = "mapped"
        BY Zenon, <2>1, ThreeStates
      <4> QED BY Zenon, <1>3, <2>4, <4>1 DEF NeedsZero, IsMapped
    <3>2. due[p] = "any" \/ content[p] = due[p]
      BY Zenon, <2>1, <3>1 DEF Fits
    <3>3. nz(p) = FALSE /\ p \notin Z
      BY <2>4
    <3>4. pages'[p] = Mapped(prot, FALSE) /\ content'[p] = content[p]
      BY Zenon, <1>2, <2>1, <2>4, <3>3
    <3> QED BY Zenon, <2>1, <3>2, <3>4, FitsFacts
  <2> QED BY <2>2, <2>3, <2>4
<1> QED
  BY <1>6, <1>9, <1>10 DEF IInv, Contents

\* A store reaches only pages that are not waiting to be zeroed.
LEMMA StoreStep ==
    ASSUME IInv, NEW p \in Page, Store(p)
    PROVE  IInv'
<1>1. /\ content' = [content EXCEPT ![p] = "data"] /\ due' = [due EXCEPT ![p] = "data"]
      /\ UNCHANGED <<pages, brk, mmapNext, regions, restorer>> /\ Allows(p, "w")
  BY DEF Store
<1>2. Fits(pages[p], "data", "data")
  BY Zenon, <1>1, WritableFacts
<1>3. Types'
  BY <1>1 DEF IInv, Types
<1>4. Contents'
  BY <1>1, <1>2 DEF IInv, Types, Contents
<1>5. RegionsOnlyExec'
  BY <1>1 DEF IInv, RegionsOnlyExec, Covered, Allows, IsMapped
<1> QED
  BY <1>3, <1>4, <1>5 DEF IInv

\* ensureSignalRestorer, whose store may fault.
LEMMA RestorerStep ==
    ASSUME IInv, EnsureSignalRestorer
    PROVE  IInv'
<1> DEFINE a == AllocRange(1)
           S == Span(a, a + 1)
           rx == {"r", "x"}
<1>1. a \in MmapBase..(NPages - 2) /\ a + 1 <= NPages - 2 /\ RangeFree(a, a + 1)
  BY AllocFacts DEF IInv, EnsureSignalRestorer
<1>2. /\ mmapNext' = a + 1 /\ brk' = brk
      /\ \/ /\ Allows(a, "w")
            /\ content' = [content EXCEPT ![a] = "data"] /\ due' = [due EXCEPT ![a] = "data"]
            /\ pages' = On(pages, S, Mapped(rx, FALSE))
            /\ UpdateExecMetadata(a, a + 1, rx) /\ restorer' = a
         \/ /\ ~Allows(a, "w") /\ content' = [content EXCEPT ![a] = "zero"]
            /\ UNCHANGED <<due, pages, regions, restorer>>
  BY Zenon DEF EnsureSignalRestorer, MapRangeState
<1> HIDE DEF a
<1>3. /\ a \in 0..NPages /\ a + 1 \in 0..NPages /\ a < a + 1 /\ a \in Page /\ a # 0
      /\ a + 1 \in MmapBase..(NPages - 2) /\ a \in MmapBase..(NPages - 3)
      /\ S = {a}
  BY <1>1, SizeFacts DEF Span, Page
<1>4. CASE Allows(a, "w")
  <2>1. rx \in SUBSET {"r", "w", "x"} /\ FALSE \in BOOLEAN
    OBVIOUS
  <2>2. /\ Mapped(rx, FALSE) \in PageStates /\ Mapped(rx, FALSE).state = "mapped"
        /\ Mapped(rx, FALSE).prot = rx /\ Fits(Mapped(rx, FALSE), "data", "data")
    <3> HIDE DEF rx
    <3> QED BY Zenon, <2>1, MappedFacts, FitsFacts
  <2>3. /\ content' = [content EXCEPT ![a] = "data"] /\ due' = [due EXCEPT ![a] = "data"]
        /\ pages' = On(pages, S, Mapped(rx, FALSE))
        /\ UpdateExecMetadata(a, a + 1, rx) /\ restorer' = a
    BY Zenon, <1>2, <1>4
  <2>4. \A p \in Page \ S : pages'[p] = pages[p]
    BY <2>3 DEF On
  <2>5. \A p \in Page \cap S : p # 0 /\ pages'[p].state = "mapped" /\ pages'[p].prot = rx
    BY Zenon, <1>3, <2>2, <2>3 DEF On
  <2>6. regions' \in Seq(Regs) /\ RegionsOnlyExec'
    BY ZenonT(60), <1>2, <1>3, <2>1, <2>3, <2>4, <2>5, ExecStep
  <2>7. pages' \in [Page -> PageStates]
    BY Zenon, <2>2, <2>3 DEF IInv, Types, On
  <2>8. Types'
    BY Zenon, <1>2, <1>3, <2>3, <2>6, <2>7 DEF IInv, Types
  <2>9. ASSUME NEW p \in Page PROVE Fits(pages'[p], content'[p], due'[p])
    <3>1. CASE p = a
      BY Zenon, <1>3, <2>2, <2>3, <3>1 DEF IInv, Types, On
    <3>2. CASE p # a
      BY Zenon, <1>3, <2>3, <2>4, <3>2 DEF IInv, Types, Contents
    <3> QED BY <3>1, <3>2
  <2> QED BY <2>6, <2>8, <2>9 DEF IInv, Contents
<1>5. CASE ~Allows(a, "w")
  <2>1. content' = [content EXCEPT ![a] = "zero"] /\ UNCHANGED <<due, pages, regions, restorer>>
    BY Zenon, <1>2, <1>5
  <2>2. pages[a].state = "unmapped"
    <3>1. pages[a] \in PageStates /\ ~IsMapped(a)
      BY <1>1, <1>3 DEF IInv, Types, RangeFree
    <3> QED BY Zenon, <1>3, <1>5, <3>1, ThreeStates DEF Allows, IsMapped
  <2>3. Types'
    BY <1>2, <1>3, <2>1 DEF IInv, Types
  <2>4. ASSUME NEW p \in Page PROVE Fits(pages'[p], content'[p], due'[p])
    <3>1. CASE p = a
      BY Zenon, <2>1, <2>2, <3>1 DEF Fits
    <3>2. CASE p # a
      BY <2>1, <3>2 DEF IInv, Types, Contents
    <3> QED BY <3>1, <3>2
  <2>5. RegionsOnlyExec'
    BY <1>2, <2>1 DEF IInv, RegionsOnlyExec, Covered, Allows, IsMapped
  <2> QED BY <2>3, <2>4, <2>5 DEF IInv, Contents
<1> QED
  BY <1>4, <1>5

\* Every step keeps the invariant.
LEMMA NextInv == IInv /\ [Next]_vars => IInv'
<1> SUFFICES ASSUME IInv, [Next]_vars PROVE IInv'
  OBVIOUS
<1>1. ASSUME NEW p \in Page, SysBrk(p) \/ Store(p) PROVE IInv'
  BY <1>1, BrkStep, StoreStep
<1>2. ASSUME NEW g \in Ranges, NEW prot \in Prots PROVE
        /\ g[1] \in 0..NPages /\ g[2] \in 0..NPages /\ g[1] < g[2]
        /\ prot \in SUBSET {"r", "w", "x"}
  BY VMAssumption
<1>3. ASSUME NEW g \in Ranges, NEW prot \in Prots, SysMmapFixed(g[1], g[2], prot) PROVE IInv'
  <2>1. /\ g[1] \in 1..NPages /\ g[2] \in 1..NPages /\ g[1] < g[2]
        /\ prot \in SUBSET {"r", "w", "x"}
    BY <1>2, <1>3, SizeFacts DEF SysMmapFixed
  <2>2. MapAnonymous(g[1], g[2], prot) /\ mmapNext' \in MmapBase..(NPages - 2)
    BY <1>3 DEF SysMmapFixed, IInv, Types
  <2> QED BY Zenon, <2>1, <2>2, MapStep
<1>4. ASSUME NEW g \in Ranges, NEW prot \in Prots, SysMprotect(g[1], g[2], prot) PROVE IInv'
  BY Zenon, <1>2, <1>4, MprotectStep
<1>5. ASSUME NEW g \in Ranges, NEW prot \in Prots, SysMmap(g[2] - g[1], prot) PROVE IInv'
  <2> DEFINE n == g[2] - g[1]
             a == AllocRange(n)
  <2>1. n \in Nat /\ n > 0
    BY <1>2, SizeFacts
  <2>2. Candidates(n) # {} /\ mmapNext' = a + n /\ MapAnonymous(a, a + n, prot)
    BY Zenon, <1>5 DEF SysMmap
  <2> HIDE DEF n
  <2>3. a \in MmapBase..(NPages - 2) /\ a + n <= NPages - 2
    BY <2>1, <2>2, AllocFacts DEF IInv
  <2> HIDE DEF a
  <2>4. /\ a \in 1..NPages /\ a + n \in 1..NPages /\ a < a + n
        /\ mmapNext' \in MmapBase..(NPages - 2)
    BY <2>1, <2>2, <2>3, SizeFacts
  <2> QED BY Zenon, <1>2, <2>2, <2>4, MapStep
<1>6. ASSUME NEW g \in Ranges, SysMunmap(g[1], g[2]) PROVE IInv'
  <2>1. g[1] \in 0..NPages /\ g[2] \in 0..NPages
    BY VMAssumption
  <2> QED BY Zenon, <1>6, <2>1, MunmapStep
<1>7. CASE UNCHANGED vars
  BY <1>7 DEF vars, IInv, Types, Contents, RegionsOnlyExec, Covered, Allows, IsMapped
<1> QED
  BY Zenon, <1>1, <1>3, <1>4, <1>5, <1>6, <1>7, RestorerStep DEF Next

\* The page overlay puts off zeroing and never forgets it.
THEOREM AlwaysMappedContents == Spec => []MappedContents
<1>1. Init => IInv
  BY InitInv
<1>2. IInv /\ [Next]_vars => IInv'
  BY NextInv
<1>3. IInv => MappedContents
  BY InvContents
<1> QED
  BY <1>1, <1>2, <1>3, PTL DEF Spec

\* Unmapping, protecting and mapping keep the table of regions within the pages
\* that are executable.
THEOREM AlwaysRegionsOnlyExec == Spec => []RegionsOnlyExec
<1>1. Init => IInv
  BY InitInv
<1>2. IInv /\ [Next]_vars => IInv'
  BY NextInv
<1>3. IInv => RegionsOnlyExec
  BY DEF IInv
<1> QED
  BY <1>1, <1>2, <1>3, PTL DEF Spec
================================================================================
