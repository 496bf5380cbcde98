---------------------------- MODULE VirtioNetProofs ----------------------------
(***************************************************************************)
(* Descriptors of the network device are neither lost nor shared, and      *)
(* received frames are signalled, for every size of the rings and of their *)
(* indices, and every workload.                                            *)
(***************************************************************************)
EXTENDS VirtioNet, FiniteSetTheorems, TLAPS

(* Arithmetic of ring indices. *)

\* Quotient and remainder.
LEMMA DivMod ==
    ASSUME NEW a \in Nat, NEW b \in Nat \ {0}
    PROVE  /\ a \div b \in Nat /\ a % b \in Nat /\ a % b < b
           /\ a = b * (a \div b) + (a % b)
OBVIOUS

\* A remainder is what is left of a number after any multiple of the divisor.
LEMMA ModIs ==
    ASSUME NEW b \in Nat \ {0}, NEW x \in Nat, NEW q \in Int, NEW r \in 0..(b - 1),
           x = b * q + r
    PROVE  x % b = r
<1> DEFINE e == x \div b
           w == x % b
<1>1. e \in Nat /\ w \in Nat /\ w < b /\ x = b * e + w
  BY DivMod
<1> HIDE DEF e, w
<1>2. \A m, n \in Int : m < n => b * m + b <= b * n
  <2>1. ASSUME NEW m \in Int, NEW n \in Int, m < n PROVE b * m + b <= b * n
    <3>1. PICK k \in Nat : n = m + 1 + k
      <4>1. n - m - 1 \in Nat /\ n = m + 1 + (n - m - 1)
        BY <2>1
      <4> QED BY <4>1
    <3>2. b * n = b * m + b + b * k /\ b * k \in Nat /\ b * m \in Int
      BY <3>1
    <3> HIDE <3>1
    <3> QED BY <3>2
  <2> QED BY <2>1
<1>3. b * e \in Int /\ b * q \in Int /\ e \in Int
  BY <1>1
<1>4. ~(e < q)
  BY <1>1, <1>2, <1>3
<1>5. ~(q < e)
  BY <1>1, <1>2, <1>3
<1>6. e = q
  BY <1>3, <1>4, <1>5
<1>7. w = r
  BY <1>1, <1>3, <1>6
<1> QED
  BY <1>7 DEF w

\* The sizes of the rings.
LEMMA Sizes ==
    /\ QNum \in Nat /\ QNum > 0 /\ IdxMod \in Nat /\ IdxMod > 0 /\ IdxMod > QNum
    /\ QNum \in Nat \ {0} /\ IdxMod \in Nat \ {0}
BY VirtioAssumption

\* A remainder below twice the divisor.
LEMMA ModOnce ==
    ASSUME NEW b \in Nat \ {0}, NEW x \in 0..(2 * b - 1)
    PROVE  x % b = IF x < b THEN x ELSE x - b
<1>1. CASE x < b
  <2>1. x = b * 0 + x /\ x \in 0..(b - 1)
    BY <1>1
  <2> QED BY <1>1, <2>1, ModIs
<1>2. CASE x >= b
  <2> DEFINE r == x - b
  <2>1. x = b * 1 + r /\ r \in 0..(b - 1)
    BY <1>2
  <2> HIDE DEF r
  <2>2. x % b = r
    BY <2>1, ModIs
  <2> QED BY <1>2, <2>2 DEF r
<1> QED BY <1>1, <1>2

\* Advancing an index.
LEMMA PlusIs ==
    ASSUME NEW i \in Idx, NEW n \in 0..IdxMod
    PROVE  /\ Plus(i, n) = IF i + n < IdxMod THEN i + n ELSE i + n - IdxMod
           /\ Plus(i, n) \in Idx
<1>1. i + n \in 0..(2 * IdxMod - 1)
  BY Sizes DEF Idx
<1>2. Plus(i, n) = IF i + n < IdxMod THEN i + n ELSE i + n - IdxMod
  <2> DEFINE y == i + n
  <2>1. y \in 0..(2 * IdxMod - 1) /\ Plus(i, n) = y % IdxMod
    BY <1>1 DEF Plus
  <2> HIDE DEF y
  <2>2. Plus(i, n) = IF y < IdxMod THEN y ELSE y - IdxMod
    BY Zenon, <2>1, Sizes, ModOnce
  <2> QED BY <2>2, Sizes DEF y, Idx
<1> QED
  BY <1>1, <1>2, Sizes DEF Idx

\* The distance between two indices.
LEMMA AheadIs ==
    ASSUME NEW i \in Idx, NEW j \in Idx
    PROVE  /\ Ahead(i, j) = IF i < j THEN i + IdxMod - j ELSE i - j
           /\ Ahead(i, j) \in 0..(IdxMod - 1)
<1>1. i + IdxMod - j \in 0..(2 * IdxMod - 1)
  BY Sizes DEF Idx
<1>2. Ahead(i, j) = IF i < j THEN i + IdxMod - j ELSE i - j
  BY <1>1, Sizes, ModOnce DEF Ahead, Idx
<1> QED
  BY <1>1, <1>2, Sizes DEF Idx

\* Distances after one of the indices advances.
LEMMA Distances ==
    ASSUME NEW i \in Idx, NEW j \in Idx, NEW n \in Nat
    PROVE  /\ Ahead(i, j) = 0 <=> i = j
           /\ Plus(j, Ahead(i, j)) = i
           /\ n + Ahead(i, j) < IdxMod => Ahead(Plus(i, n), j) = Ahead(i, j) + n
           /\ n <= Ahead(i, j) => Ahead(i, Plus(j, n)) = Ahead(i, j) - n
<1>1. /\ Ahead(i, j) = IF i < j THEN i + IdxMod - j ELSE i - j
      /\ Ahead(i, j) \in 0..(IdxMod - 1)
  BY AheadIs
<1>2. i \in Nat /\ j \in Nat /\ i < IdxMod /\ j < IdxMod
  BY Sizes DEF Idx
<1>3. Plus(j, Ahead(i, j)) = i
  <2>1. Plus(j, Ahead(i, j)) = IF j + Ahead(i, j) < IdxMod THEN j + Ahead(i, j) ELSE j + Ahead(i, j) - IdxMod
    <3>1. Ahead(i, j) \in 0..IdxMod
      BY <1>1, Sizes
    <3> QED BY <3>1, PlusIs
  <2> QED BY <1>1, <1>2, <2>1, Sizes
<1>4. ASSUME n + Ahead(i, j) < IdxMod PROVE Ahead(Plus(i, n), j) = Ahead(i, j) + n
  <2>1. n \in 0..IdxMod
    BY <1>1, <1>4, Sizes
  <2>2. /\ Plus(i, n) = IF i + n < IdxMod THEN i + n ELSE i + n - IdxMod
        /\ Plus(i, n) \in Idx
    BY <2>1, PlusIs
  <2>3. Ahead(Plus(i, n), j) = IF Plus(i, n) < j THEN Plus(i, n) + IdxMod - j ELSE Plus(i, n) - j
    BY <2>2, AheadIs
  <2> QED BY <1>1, <1>2, <1>4, <2>2, <2>3, Sizes
<1>5. ASSUME n <= Ahead(i, j) PROVE Ahead(i, Plus(j, n)) = Ahead(i, j) - n
  <2>1. n \in 0..IdxMod
    BY <1>1, <1>5, Sizes
  <2>2. /\ Plus(j, n) = IF j + n < IdxMod THEN j + n ELSE j + n - IdxMod
        /\ Plus(j, n) \in Idx
    BY <2>1, PlusIs
  <2>3. Ahead(i, Plus(j, n)) = IF i < Plus(j, n) THEN i + IdxMod - Plus(j, n) ELSE i - Plus(j, n)
    BY <2>2, AheadIs
  <2> QED BY <1>1, <1>2, <1>5, <2>2, <2>3, Sizes
<1> QED
  BY <1>1, <1>2, <1>3, <1>4, <1>5, Sizes

\* The same, one by one.
LEMMA Advance ==
    ASSUME NEW i \in Idx, NEW j \in Idx, NEW n \in Nat, n + Ahead(i, j) < IdxMod
    PROVE  Ahead(Plus(i, n), j) = Ahead(i, j) + n
BY Distances

LEMMA CatchUp ==
    ASSUME NEW i \in Idx, NEW j \in Idx, NEW n \in Nat, n <= Ahead(i, j)
    PROVE  Ahead(i, Plus(j, n)) = Ahead(i, j) - n
BY Distances

LEMMA Apart ==
    ASSUME NEW i \in Idx, NEW j \in Idx, i # j
    PROVE  Ahead(i, j) > 0
<1>1. Ahead(i, j) # 0
  <2>1. 0 \in Nat
    OBVIOUS
  <2> QED BY Zenon, <2>1, Distances
<1> QED
  BY <1>1, AheadIs, Sizes

\* The slot of an index does not depend on whether the index has wrapped.
LEMMA SlotOf ==
    ASSUME NEW x \in Nat, NEW t \in Nat
    PROVE  ((x % IdxMod) + t) % QNum = (x + t) % QNum
<1> DEFINE c == IdxMod \div QNum
           d == x \div IdxMod
           m == x % IdxMod
           e == (m + t) \div QNum
           s == (m + t) % QNum
<1>1. c \in Nat /\ IdxMod = QNum * c
  BY Sizes, DivMod, VirtioAssumption
<1>2. d \in Nat /\ m \in Nat /\ x = IdxMod * d + m
  BY Sizes, DivMod
<1> HIDE DEF c, d, m
<1>3. m + t \in Nat
  BY <1>2
<1>4. e \in Nat /\ s \in Nat /\ s < QNum /\ m + t = QNum * e + s
  BY Zenon, <1>3, Sizes, DivMod
<1> HIDE DEF e, s
<1>5. x + t = QNum * (c * d + e) + s
  <2>1. IdxMod * d = QNum * (c * d)
    BY <1>1, <1>2, Sizes
  <2>2. QNum * (c * d + e) = QNum * (c * d) + QNum * e
    BY <1>1, <1>2, <1>4, Sizes
  <2>3. QNum * (c * d) \in Nat /\ QNum * e \in Nat
    BY <1>1, <1>2, <1>4, Sizes
  <2> QED BY <1>2, <1>4, <2>1, <2>2, <2>3
<1>6. (x + t) % QNum = s
  <2> DEFINE q == c * d + e
             y == x + t
  <2>1. q \in Int /\ y \in Nat /\ y = QNum * q + s /\ s \in 0..(QNum - 1)
    BY <1>1, <1>2, <1>4, <1>5, Sizes
  <2> HIDE DEF q, y
  <2>2. y % QNum = s
    BY <2>1, Sizes, ModIs
  <2> QED BY <2>2 DEF y
<1> QED
  BY <1>6 DEF s, m

\* How far slot t of a window is after slot u.
LEMMA SlotDistance ==
    ASSUME NEW x \in Nat, NEW t \in Nat, NEW u \in Nat, t <= u + QNum - 1, u <= t + QNum
    PROVE  (((x + t) % QNum) + QNum - ((x + u) % QNum)) % QNum = IF u <= t THEN t - u ELSE t + QNum - u
<1> DEFINE a == (x + t) \div QNum
           s == (x + t) % QNum
           b == (x + u) \div QNum
           f == (x + u) % QNum
           y == s + QNum - f
           r == IF u <= t THEN t - u ELSE t + QNum - u
           q == IF u <= t THEN (b - a) + 1 ELSE b - a
<1>1. a \in Nat /\ s \in Nat /\ s < QNum /\ x + t = QNum * a + s
  BY Sizes, DivMod
<1>2. b \in Nat /\ f \in Nat /\ f < QNum /\ x + u = QNum * b + f
  BY Sizes, DivMod
<1> HIDE DEF a, s, b, f
<1>3. y \in Nat /\ r \in 0..(QNum - 1) /\ q \in Int
  BY <1>1, <1>2, Sizes
<1>4. y = QNum * q + r
  <2>1. QNum * (b - a) = QNum * b - QNum * a /\ QNum * ((b - a) + 1) = QNum * b - QNum * a + QNum
    BY <1>1, <1>2, Sizes
  <2>2. QNum * b \in Int /\ QNum * a \in Int
    BY <1>1, <1>2, Sizes
  <2> QED BY <1>1, <1>2, <2>1, <2>2, Sizes
<1>5. y % QNum = r
  <2> HIDE DEF y, r, q
  <2> QED BY <1>3, <1>4, Sizes, ModIs
<1> QED
  BY <1>5 DEF s, f

\* The slots of a window no longer than the ring are distinct.
LEMMA SlotsDiffer ==
    ASSUME NEW x \in Nat, NEW t \in Nat, NEW u \in Nat, t < u, u < t + QNum
    PROVE  (x + t) % QNum # (x + u) % QNum
<1>1. (((x + t) % QNum) + QNum - ((x + u) % QNum)) % QNum = t + QNum - u
  <2>1. t <= u + QNum - 1 /\ u <= t + QNum /\ ~(u <= t)
    BY Sizes
  <2> QED BY Zenon, <2>1, SlotDistance
<1>2. QNum % QNum = 0
  BY Sizes, ModOnce
<1>3. (x + t) % QNum \in Nat /\ (x + u) % QNum \in Nat
  BY Sizes, DivMod
<1>4. ASSUME (x + t) % QNum = (x + u) % QNum PROVE FALSE
  <2>1. ((x + t) % QNum) + QNum - ((x + u) % QNum) = QNum
    BY <1>3, <1>4, Sizes
  <2> QED BY <1>1, <1>2, <2>1, Sizes
<1> QED
  BY <1>4

-----------------------------------------------------------------------------
(* The loops of the device. *)

\* A set of numbers has a least one.
LEMMA LeastNumber ==
    ASSUME NEW T \in SUBSET Nat, T # {}
    PROVE  \E x \in T : \A y \in T : x <= y
<1>1. PICK x \in T : \A y \in T : ~ (<<y, x>> \in OpToRel(<, Nat))
  BY Zenon, WFMin, NatLessThanWellFounded
<1>2. \A y \in T : ~(y < x)
  BY Zenon, <1>1 DEF OpToRel
<1> QED
  BY <1>2

\* Induction on the numbers up to b.
LEMMA UpTo ==
    ASSUME NEW b \in Nat, NEW G, 0 \in G, \A n \in 0..(b - 1) : n \in G => n + 1 \in G
    PROVE  \A n \in 0..b : n \in G
<1> DEFINE T == {n \in 0..b : n \notin G}
<1>1. T \in SUBSET Nat
  OBVIOUS
<1>2. ASSUME T # {} PROVE FALSE
  <2>1. PICK n \in T : \A m \in T : n <= m
    <3> HIDE DEF T
    <3> QED BY <1>1, <1>2, LeastNumber
  <2>2. n - 1 \in 0..(b - 1) /\ (n - 1) + 1 = n /\ n - 1 \in 0..b
    OBVIOUS
  <2> QED BY <2>1, <2>2
<1> QED
  BY <1>2

\* A loop stops at the greatest number of turns it can make.
LEMMA Greatest ==
    ASSUME NEW b \in Nat, NEW S \in SUBSET (0..b), 0 \in S
    PROVE  LET m == CHOOSE m \in S : \A o \in S : o <= m
           IN  m \in S /\ \A o \in S : o <= m
<1> DEFINE T == {n \in 0..b : \A o \in S : o <= n}
<1>1. T \in SUBSET Nat /\ b \in T
  OBVIOUS
<1>2. PICK m \in T : \A n \in T : m <= n
  <2> HIDE DEF T
  <2> QED BY <1>1, LeastNumber
<1>3. m \in S
  <2> SUFFICES ASSUME m \notin S PROVE FALSE
    OBVIOUS
  <2>1. m \in 0..b /\ \A o \in S : o <= m /\ o # m /\ o \in 0..b
    BY <1>2
  <2>2. m - 1 \in 0..b
    BY <2>1
  <2>3. \A o \in S : o <= m - 1
    BY <2>1
  <2> QED BY <1>2, <2>1, <2>2, <2>3
<1>4. \A o \in S : o <= m
  BY <1>2
<1> QED
  BY Zenon, <1>3, <1>4

\* The recursion that defines FramesOf has a solution.
LEMMA FramesDef ==
    ASSUME NEW c
    PROVE  /\ FramesOf(c)[0] = << >>
           /\ \A i \in 1..IdxMod : FramesOf(c)[i] = AddFrame(FramesOf(c)[i - 1], c[i])
<1> DEFINE Is(g, n) == g = [i \in 0..n |-> IF i = 0 THEN << >> ELSE AddFrame(g[i - 1], c[i])]
           G == {n \in Nat : \E g : Is(g, n)}
<1>1. 0 \in G
  <2>1. Is([i \in 0..0 |-> << >>], 0)
    OBVIOUS
  <2> QED BY Zenon, <2>1
<1>2. ASSUME NEW n \in Nat, n \in G PROVE n + 1 \in G
  <2>1. PICK g : Is(g, n)
    BY Zenon, <1>2
  <2> DEFINE h == [i \in 0..(n + 1) |-> IF i = n + 1 THEN AddFrame(g[n], c[n + 1]) ELSE g[i]]
  <2>2. \A i \in 0..(n + 1) : h[i] = IF i = 0 THEN << >> ELSE AddFrame(h[i - 1], c[i])
    <3> SUFFICES ASSUME NEW i \in 0..(n + 1)
                 PROVE  h[i] = IF i = 0 THEN << >> ELSE AddFrame(h[i - 1], c[i])
      BY Zenon
    <3>1. CASE i = 0
      BY <2>1, <3>1
    <3>2. CASE i # 0
      <4>1. i - 1 \in 0..n /\ h[i - 1] = g[i - 1]
        BY <3>2
      <4>2. CASE i = n + 1
        BY <3>2, <4>1, <4>2
      <4>3. CASE i # n + 1
        <5>1. i \in 0..n /\ h[i] = g[i]
          BY <4>3
        <5>2. g[i] = AddFrame(g[i - 1], c[i])
          BY <2>1, <3>2, <5>1
        <5> QED BY <3>2, <4>1, <5>1, <5>2
      <4> QED BY <4>2, <4>3
    <3> QED BY <3>1, <3>2
  <2>3. Is(h, n + 1)
    BY Zenon, <2>2
  <2>4. n + 1 \in Nat
    OBVIOUS
  <2> QED BY Zenon, <2>3, <2>4
<1>3. IdxMod \in G
  <2>1. \A n \in 0..(IdxMod - 1) : n \in G => n + 1 \in G
    BY Zenon, <1>2
  <2> HIDE DEF G
  <2>2. \A n \in 0..IdxMod : n \in G
    BY <1>1, <2>1, Sizes, UpTo
  <2> QED BY <2>2, Sizes
<1>4. PICK g : Is(g, IdxMod)
  BY Zenon, <1>3
<1>5. FramesOf(c) = [i \in 0..IdxMod |-> IF i = 0 THEN << >> ELSE AddFrame(FramesOf(c)[i - 1], c[i])]
  BY Zenon, <1>4 DEF FramesOf
<1> DEFINE f == FramesOf(c)
<1> HIDE DEF f
<1>6. f = [i \in 0..IdxMod |-> IF i = 0 THEN << >> ELSE AddFrame(f[i - 1], c[i])]
  BY Zenon, <1>5 DEF f
<1>7. f[0] = << >> /\ \A i \in 1..IdxMod : f[i] = AddFrame(f[i - 1], c[i])
  BY <1>6, Sizes
<1> QED
  BY Zenon, <1>7 DEF f

\* Chains that hold frames give a sequence of frames.
LEMMA FramesTyped ==
    ASSUME NEW c, NEW n \in 0..IdxMod, \A i \in 1..n : c[i].frame \in Nat
    PROVE  \A i \in 0..n : FramesOf(c)[i] \in Seq(Nat)
<1> DEFINE f == FramesOf(c)
           G == {i \in Nat : f[i] \in Seq(Nat)}
<1>1. f[0] = << >> /\ \A i \in 1..IdxMod : f[i] = AddFrame(f[i - 1], c[i])
  BY Zenon, FramesDef
<1> HIDE DEF f
<1>2. 0 \in G
  <2>1. f[0] = << >>
    BY <1>1
  <2>2. << >> \in Seq(Nat)
    OBVIOUS
  <2> QED BY Zenon, <2>1, <2>2
<1>3. ASSUME NEW i \in 0..(n - 1), i \in G PROVE i + 1 \in G
  <2>1. i + 1 \in 1..IdxMod /\ i + 1 \in 1..n /\ (i + 1) - 1 = i /\ i + 1 \in Nat
    BY Sizes
  <2>2. f[i + 1] = AddFrame(f[i], c[i + 1])
    BY <1>1, <2>1
  <2>3. f[i] \in Seq(Nat) /\ c[i + 1].frame \in Nat
    BY <1>3, <2>1
  <2>4. f[i + 1] \in Seq(Nat)
    BY <2>2, <2>3 DEF AddFrame
  <2> QED BY <2>1, <2>4
<1>4. \A i \in 0..n : i \in G
  <2> HIDE DEF G
  <2> QED BY <1>2, <1>3, Sizes, UpTo
<1> QED
  BY <1>4 DEF f

-----------------------------------------------------------------------------
(* Who owns the descriptors of a ring. *)

Ring == [avail : [Desc -> Desc], availIdx : Idx, used : [Desc -> Desc], usedIdx : Idx]

\* The ring r as the driver sees it after it has looked at the used entries
\* before L: first the entries handed back, then those published and not
\* consumed, then, if p is 1, the one being posted.  The two rings share one
\* window because the device returns the descriptors in the order it takes them.
Back(r, L) == Ahead(r.usedIdx, L)

Out(r) == Ahead(r.availIdx, r.usedIdx)

InPlay(r, L, p) == Back(r, L) + Out(r) + p

Entry(r, L, t) == IF t < Back(r, L) THEN r.used[(L + t) % QNum] ELSE r.avail[(L + t) % QNum]

\* The descriptors F are free and every other one is among the first n entries
\* of e, once.
Whole(n, F, e) ==
    /\ Cardinality(F) + n = QNum
    /\ \A t \in 0..(n - 1) : e[t] \in Desc \ F
    /\ \A d \in Desc \ F : \E t \in 0..(n - 1) : e[t] = d
    /\ \A s, t \in 0..(n - 1) : e[s] = e[t] => s = t

Partition(r, L, F, p) == Whole(InPlay(r, L, p), F, [t \in Nat |-> Entry(r, L, t)])

\* Sets of descriptors are finite, and there are QNum descriptors.
LEMMA Descriptors ==
    ASSUME NEW F \in SUBSET Desc
    PROVE  /\ IsFiniteSet(F) /\ Cardinality(F) \in Nat
           /\ Cardinality(Desc) = QNum
           /\ \A d \in F : Cardinality(F \ {d}) = Cardinality(F) - 1
           /\ \A d \in Desc \ F : Cardinality(F \cup {d}) = Cardinality(F) + 1
<1>1. IsFiniteSet(Desc) /\ Cardinality(Desc) = QNum
  <2>1. 0 \in Int /\ QNum - 1 \in Int /\ (QNum - 1) - 0 + 1 = QNum /\ 0 <= QNum - 1
    BY Sizes
  <2> QED BY <2>1, FS_Interval, Sizes DEF Desc
<1>2. IsFiniteSet(F) /\ Cardinality(F) \in Nat
  BY <1>1, FS_Subset, FS_CardinalityType
<1>3. \A d \in F : Cardinality(F \ {d}) = Cardinality(F) - 1
  BY Zenon, <1>2, FS_RemoveElement
<1>4. \A d \in Desc \ F : Cardinality(F \cup {d}) = Cardinality(F) + 1
  BY Zenon, <1>2, FS_AddElement
<1> QED BY <1>1, <1>2, <1>3, <1>4

\* The window may grow by a free descriptor.
LEMMA WholeGrows ==
    ASSUME NEW n \in Nat, NEW F \in SUBSET Desc, NEW e, NEW g, Whole(n, F, e), NEW d \in F,
           \A t \in 0..(n - 1) : g[t] = e[t], g[n] = d
    PROVE  Whole(n + 1, F \ {d}, g)
<1>1. Cardinality(F \ {d}) + (n + 1) = QNum
  <2>1. Cardinality(F \ {d}) = Cardinality(F) - 1 /\ Cardinality(F) \in Nat
    BY Zenon, Descriptors
  <2>2. Cardinality(F) + n = QNum
    BY Zenon DEF Whole
  <2> QED BY <2>1, <2>2
<1>2. \A t \in 0..n : t \in 0..(n - 1) \/ t = n
  OBVIOUS
<1>3. (n + 1) - 1 = n
  OBVIOUS
<1>4. \A t \in 0..n : g[t] \in Desc \ (F \ {d})
  BY <1>2 DEF Whole
<1>5. \A c \in Desc \ (F \ {d}) : \E t \in 0..n : g[t] = c
  <2> TAKE c \in Desc \ (F \ {d})
  <2>1. CASE c = d
    BY <2>1
  <2>2. CASE c # d
    <3>1. PICK t \in 0..(n - 1) : e[t] = c
      BY <2>2 DEF Whole
    <3>2. t \in 0..n /\ g[t] = c
      BY <3>1
    <3> QED BY Zenon, <3>2
  <2> QED BY <2>1, <2>2
<1>6. \A s, t \in 0..n : g[s] = g[t] => s = t
  <2>1. \A t \in 0..(n - 1) : g[t] # d
    BY DEF Whole
  <2> QED BY <1>2, <2>1 DEF Whole
<1> QED
  BY Zenon, <1>1, <1>3, <1>4, <1>5, <1>6 DEF Whole

\* The first entry of the window may become free.
LEMMA WholeShrinks ==
    ASSUME NEW n \in Nat, NEW F \in SUBSET Desc, NEW e, NEW g, Whole(n, F, e), n > 0,
           \A t \in 0..(n - 2) : g[t] = e[t + 1]
    PROVE  Whole(n - 1, F \cup {e[0]}, g)
<1>1. e[0] \in Desc \ F
  BY DEF Whole
<1>2. Cardinality(F \cup {e[0]}) + (n - 1) = QNum
  <2>1. Cardinality(F \cup {e[0]}) = Cardinality(F) + 1 /\ Cardinality(F) \in Nat
    BY Zenon, <1>1, Descriptors
  <2>2. Cardinality(F) + n = QNum
    BY Zenon DEF Whole
  <2> QED BY <2>1, <2>2
<1>3. (n - 1) - 1 = n - 2 /\ 0 \in 0..(n - 1)
  OBVIOUS
<1>4. \A t \in 0..(n - 2) : t + 1 \in 0..(n - 1) /\ t + 1 # 0
  OBVIOUS
<1>5. \A t \in 0..(n - 2) : g[t] \in Desc \ (F \cup {e[0]})
  BY <1>3, <1>4 DEF Whole
<1>6. \A c \in Desc \ (F \cup {e[0]}) : \E t \in 0..(n - 2) : g[t] = c
  <2> TAKE c \in Desc \ (F \cup {e[0]})
  <2>1. PICK t \in 0..(n - 1) : e[t] = c
    BY DEF Whole
  <2>2. t # 0
    BY <2>1
  <2>3. t - 1 \in 0..(n - 2) /\ (t - 1) + 1 = t
    BY <2>2
  <2>4. g[t - 1] = c
    BY <2>1, <2>3
  <2> QED BY Zenon, <2>3, <2>4
<1>7. \A s, t \in 0..(n - 2) : g[s] = g[t] => s = t
  <2> SUFFICES ASSUME NEW s \in 0..(n - 2), NEW t \in 0..(n - 2), g[s] = g[t] PROVE s = t
    OBVIOUS
  <2>1. e[s + 1] = e[t + 1]
    OBVIOUS
  <2>2. s + 1 = t + 1
    BY <1>4, <2>1 DEF Whole
  <2> QED BY <2>2
<1> QED
  BY Zenon, <1>2, <1>3, <1>5, <1>6, <1>7 DEF Whole

\* A window with the same entries.
LEMMA WholeSame ==
    ASSUME NEW n \in Nat, NEW F, NEW e, NEW g, Whole(n, F, e), \A t \in 0..(n - 1) : g[t] = e[t]
    PROVE  Whole(n, F, g)
<1>1. \A d \in Desc \ F : \E t \in 0..(n - 1) : g[t] = d
  BY Zenon DEF Whole
<1> QED
  BY Zenon, <1>1 DEF Whole

\* Slots, indices and distances are numbers in their ranges.
LEMMA RingFacts ==
    ASSUME NEW r \in Ring, NEW L \in Idx
    PROVE  /\ Back(r, L) \in 0..(IdxMod - 1) /\ Out(r) \in 0..(IdxMod - 1)
           /\ L \in Nat /\ r.usedIdx \in Idx /\ r.availIdx \in Idx
           /\ \A t \in Nat : (L + t) % QNum \in Desc
           /\ \A x \in Nat : x % QNum \in Desc
           /\ r.avail \in [Desc -> Desc] /\ r.used \in [Desc -> Desc]
           /\ \A t \in Nat : Entry(r, L, t) \in Desc
<1>1. L \in Nat /\ r.usedIdx \in Idx /\ r.availIdx \in Idx
  BY Sizes DEF Ring, Idx
<1>2. Back(r, L) \in 0..(IdxMod - 1) /\ Out(r) \in 0..(IdxMod - 1)
  BY Zenon, <1>1, AheadIs DEF Back, Out
<1>3. \A x \in Nat : x % QNum \in Desc
  BY Sizes, DivMod DEF Desc
<1>4. \A t \in Nat : (L + t) % QNum \in Desc
  <2>1. \A t \in Nat : L + t \in Nat
    BY <1>1
  <2> QED BY Zenon, <1>3, <2>1
<1>5. r.avail \in [Desc -> Desc] /\ r.used \in [Desc -> Desc]
  BY DEF Ring
<1>6. \A t \in Nat : Entry(r, L, t) \in Desc
  BY <1>4, <1>5 DEF Entry
<1> QED
  BY Zenon, <1>1, <1>2, <1>3, <1>4, <1>5, <1>6

\* The slots of the window as the two indices of the device name them.
LEMMA WindowSlots ==
    ASSUME NEW r \in Ring, NEW L \in Idx
    PROVE  /\ \A t \in Nat : (r.usedIdx + t) % QNum = (L + (Back(r, L) + t)) % QNum
           /\ \A t \in Nat : (r.availIdx + t) % QNum = (L + (Back(r, L) + Out(r) + t)) % QNum
           /\ r.availIdx % QNum = (L + (Back(r, L) + Out(r))) % QNum
           /\ r.usedIdx % QNum = (L + Back(r, L)) % QNum
<1> DEFINE b == Back(r, L)
           o == Out(r)
           U == r.usedIdx
           A == r.availIdx
<1>1. b \in Nat /\ o \in Nat /\ L \in Nat /\ U \in Idx /\ A \in Idx /\ U \in Nat /\ A \in Nat
  BY RingFacts, Sizes DEF Idx
<1>2. U = (L + b) % IdxMod /\ A = (U + o) % IdxMod
  BY <1>1, Distances DEF Plus, Back, Out
<1> HIDE DEF b, o, U, A
<1>3. ASSUME NEW t \in Nat PROVE (U + t) % QNum = (L + (b + t)) % QNum
  <2>1. L + b \in Nat /\ (L + b) + t = L + (b + t)
    BY <1>1
  <2>2. (((L + b) % IdxMod) + t) % QNum = ((L + b) + t) % QNum
    BY <2>1, SlotOf
  <2> QED BY <1>2, <2>1, <2>2
<1>4. ASSUME NEW t \in Nat PROVE (A + t) % QNum = (L + (b + o + t)) % QNum
  <2>1. U + o \in Nat /\ (U + o) + t = U + (o + t) /\ o + t \in Nat /\ b + (o + t) = b + o + t
    BY <1>1
  <2>2. (((U + o) % IdxMod) + t) % QNum = ((U + o) + t) % QNum
    BY <2>1, SlotOf
  <2>3. (U + (o + t)) % QNum = (L + (b + (o + t))) % QNum
    BY <1>3, <2>1
  <2> QED BY <1>2, <2>1, <2>2, <2>3
<1>5. A % QNum = (L + (b + o)) % QNum /\ U % QNum = (L + b) % QNum
  <2>1. (A + 0) % QNum = (L + (b + o + 0)) % QNum /\ (U + 0) % QNum = (L + (b + 0)) % QNum
    BY <1>3, <1>4
  <2>2. A + 0 = A /\ U + 0 = U /\ b + o + 0 = b + o /\ b + 0 = b
    BY <1>1
  <2> QED BY <2>1, <2>2
<1> QED
  BY Zenon, <1>3, <1>4, <1>5 DEF b, o, U, A

\* Nothing is in play in an empty ring.
LEMMA EmptyPartition == EmptyRing \in Ring /\ Partition(EmptyRing, 0, Desc, 0)
<1>1. 0 \in Idx /\ 0 \in Desc /\ Ahead(0, 0) = 0
  <2>1. 0 \in Idx /\ 0 \in Desc
    BY Sizes DEF Idx, Desc
  <2> QED BY <2>1, Distances
<1>2. EmptyRing \in Ring
  BY <1>1 DEF EmptyRing, Ring
<1>3. InPlay(EmptyRing, 0, 0) = 0
  BY <1>1 DEF InPlay, Back, Out, EmptyRing
<1>4. Cardinality(Desc) = QNum /\ Desc \ Desc = {}
  BY Descriptors
<1> QED
  BY <1>2, <1>3, <1>4, Sizes DEF Partition, Whole

\* The ring r after the driver wrote d to the available ring.
Posted(r, d) == [r EXCEPT !.avail[r.availIdx % QNum] = d]

\* The ring q has the entries of r's window, where r's are.
Kept(q, r, L) ==
    /\ Back(q, L) = Back(r, L) /\ Out(q) = Out(r)
    /\ \A t \in 0..(InPlay(r, L, 0) - 1) : Entry(q, L, t) = Entry(r, L, t)

\* The driver writes a free descriptor to the available ring.
LEMMA PostKeepsPartition ==
    ASSUME NEW r \in Ring, NEW L \in Idx, NEW F \in SUBSET Desc, Partition(r, L, F, 0), NEW d \in F
    PROVE  /\ Posted(r, d) \in Ring /\ Partition(Posted(r, d), L, F \ {d}, 1)
           /\ Kept(Posted(r, d), r, L)
<1> DEFINE n == InPlay(r, L, 0)
           q == Posted(r, d)
<1>1. /\ q.used = r.used /\ q.usedIdx = r.usedIdx /\ q.availIdx = r.availIdx
      /\ q.avail = [r.avail EXCEPT ![r.availIdx % QNum] = d] /\ d \in Desc
  BY DEF Ring, Posted
<1>2. /\ Back(r, L) \in Nat /\ Out(r) \in Nat /\ L \in Nat /\ r.availIdx % QNum \in Desc
      /\ \A t \in Nat : (L + t) % QNum \in Desc
      /\ r.avail \in [Desc -> Desc]
  <2>1. r.availIdx \in Nat
    BY RingFacts, Sizes DEF Idx
  <2> QED BY <2>1, RingFacts
<1>3. q \in Ring
  BY <1>1, <1>2 DEF Ring, Posted
<1> HIDE DEF q
<1>4. Back(q, L) = Back(r, L) /\ Out(q) = Out(r)
  BY Zenon, <1>1 DEF Back, Out
<1>5. n \in Nat /\ n = Back(r, L) + Out(r) /\ InPlay(q, L, 1) = n + 1
  BY <1>2, <1>4 DEF InPlay
<1>6. n < QNum
  <2>1. Cardinality(F \ {d}) \in Nat /\ Cardinality(F \ {d}) = Cardinality(F) - 1 /\ Cardinality(F) \in Nat
    BY Zenon, Descriptors
  <2>2. Cardinality(F) + n = QNum
    BY Zenon DEF Partition, Whole
  <2> QED BY <1>5, <2>1, <2>2, Sizes
<1>7. r.availIdx % QNum = (L + n) % QNum
  BY <1>5, WindowSlots
<1>8. ASSUME NEW t \in 0..(n - 1) PROVE Entry(q, L, t) = Entry(r, L, t)
  <2>1. t \in Nat /\ t < n /\ n < t + QNum
    BY <1>5, <1>6, Sizes
  <2>2. (L + t) % QNum # (L + n) % QNum
    BY Zenon, <1>2, <1>5, <2>1, SlotsDiffer
  <2>3. q.avail[(L + t) % QNum] = r.avail[(L + t) % QNum]
    BY Zenon, <1>1, <1>2, <1>7, <2>1, <2>2
  <2> QED BY <1>1, <1>4, <2>3 DEF Entry
<1>9. Entry(q, L, n) = d
  <2>1. ~(n < Back(r, L))
    BY <1>2, <1>5
  <2>2. q.avail[(L + n) % QNum] = d
    BY Zenon, <1>1, <1>2, <1>7
  <2> QED BY Zenon, <1>4, <2>1, <2>2 DEF Entry
<1>10. Partition(q, L, F \ {d}, 1)
  <2> DEFINE e == [t \in Nat |-> Entry(r, L, t)]
             g == [t \in Nat |-> Entry(q, L, t)]
  <2>1. (\A t \in 0..(n - 1) : g[t] = e[t]) /\ g[n] = d
    <3>1. \A t \in 0..(n - 1) : t \in Nat
      BY <1>5
    <3> QED BY Zenon, <1>5, <1>8, <1>9, <3>1
  <2>2. Whole(n, F, e)
    BY Zenon DEF Partition
  <2> HIDE DEF e, g, n
  <2>3. Whole(n + 1, F \ {d}, g)
    BY <1>5, <2>1, <2>2, WholeGrows
  <2> QED BY Zenon, <1>5, <2>3 DEF Partition, g
<1> QED
  BY Zenon, <1>3, <1>4, <1>8, <1>10 DEF q, Kept

\* The driver publishes it.
LEMMA PublishKeepsPartition ==
    ASSUME NEW r \in Ring, NEW L \in Idx, NEW F \in SUBSET Desc, Partition(r, L, F, 1),
           NEW q, q = [r EXCEPT !.availIdx = Plus(@, 1)]
    PROVE  /\ q \in Ring /\ Partition(q, L, F, 0)
           /\ Back(q, L) = Back(r, L) /\ Out(q) = Out(r) + 1
           /\ \A t \in Nat : Entry(q, L, t) = Entry(r, L, t)
<1>1. /\ Back(r, L) \in Nat /\ Out(r) \in Nat /\ L \in Nat /\ r.usedIdx \in Idx /\ r.availIdx \in Idx
  BY RingFacts
<1>2. Plus(r.availIdx, 1) \in Idx
  <2>1. 1 \in 0..IdxMod
    BY Sizes
  <2> QED BY <1>1, <2>1, PlusIs
<1>3. /\ q \in Ring /\ q.used = r.used /\ q.usedIdx = r.usedIdx /\ q.avail = r.avail
      /\ q.availIdx = Plus(r.availIdx, 1)
  BY <1>2 DEF Ring
<1>4. Back(q, L) = Back(r, L) /\ \A t \in Nat : Entry(q, L, t) = Entry(r, L, t)
  BY <1>3 DEF Back, Entry
<1>5. 1 + Out(r) < IdxMod
  <2>1. Cardinality(F) \in Nat
    BY Zenon, Descriptors
  <2>2. Cardinality(F) + InPlay(r, L, 1) = QNum
    BY Zenon DEF Partition, Whole
  <2> QED BY <1>1, <2>1, <2>2, Sizes DEF InPlay
<1>6. Out(q) = Out(r) + 1
  <2>1. 1 \in Nat
    OBVIOUS
  <2> QED BY <1>1, <1>3, <1>5, <2>1, Distances DEF Out
<1>7. InPlay(q, L, 0) = InPlay(r, L, 1)
  BY <1>1, <1>4, <1>6 DEF InPlay
<1>8. [t \in Nat |-> Entry(q, L, t)] = [t \in Nat |-> Entry(r, L, t)]
  BY <1>4
<1> QED
  BY Zenon, <1>3, <1>4, <1>6, <1>7, <1>8 DEF Partition

\* The slot of an advanced index.
LEMMA PlusSlot ==
    ASSUME NEW i \in Nat, NEW n \in Nat
    PROVE  Plus(i, n) % QNum = (i + n) % QNum
<1> DEFINE x == i + n
           m == x % IdxMod
<1>1. x \in Nat /\ (m + 0) % QNum = (x + 0) % QNum
  BY SlotOf
<1>2. m \in Nat
  BY <1>1, Sizes, DivMod
<1> HIDE DEF m, x
<1>3. m % QNum = x % QNum
  BY <1>1, <1>2
<1> QED
  BY Zenon, <1>3 DEF m, x, Plus

\* The ring r after the device consumed the next n chains.
Consumed(r, n) ==
    [r EXCEPT !.used = [d \in Desc |->
                          LET i == ((d + QNum - (r.usedIdx % QNum)) % QNum) + 1
                          IN  IF i <= n THEN r.avail[Plus(r.usedIdx, i - 1) % QNum] ELSE r.used[d]],
              !.usedIdx = Plus(r.usedIdx, n)]

\* The device hands chains back in the order it consumes them, so that the
\* window is as before: nothing else has a place in the slots it writes.
LEMMA ConsumeKeepsPartition ==
    ASSUME NEW r \in Ring, NEW L \in Idx, NEW F \in SUBSET Desc, NEW p \in 0..1,
           Partition(r, L, F, p), NEW n \in 0..Out(r)
    PROVE  /\ Consumed(r, n) \in Ring /\ Partition(Consumed(r, n), L, F, p)
           /\ Back(Consumed(r, n), L) = Back(r, L) + n /\ Out(Consumed(r, n)) = Out(r) - n
           /\ \A t \in 0..(InPlay(r, L, p) - 1) : Entry(Consumed(r, n), L, t) = Entry(r, L, t)
<1> DEFINE q == Consumed(r, n)
           b == Back(r, L)
           o == Out(r)
           N == InPlay(r, L, p)
           U == r.usedIdx
<1>1. /\ b \in Nat /\ o \in Nat /\ L \in Nat /\ U \in Idx /\ r.availIdx \in Idx /\ U \in Nat
      /\ n \in Nat /\ n <= o /\ o < IdxMod /\ b < IdxMod
      /\ \A t \in Nat : (L + t) % QNum \in Desc
      /\ \A x \in Nat : x % QNum \in Desc
      /\ r.avail \in [Desc -> Desc] /\ r.used \in [Desc -> Desc]
  <2>1. /\ b \in 0..(IdxMod - 1) /\ o \in 0..(IdxMod - 1)
        /\ L \in Nat /\ U \in Idx /\ r.availIdx \in Idx
        /\ \A t \in Nat : (L + t) % QNum \in Desc
        /\ \A x \in Nat : x % QNum \in Desc
        /\ r.avail \in [Desc -> Desc] /\ r.used \in [Desc -> Desc]
    BY Zenon, RingFacts
  <2>2. n \in 0..o
    OBVIOUS
  <2> HIDE DEF b, o, U
  <2>3. /\ b \in Nat /\ o \in Nat /\ U \in Nat /\ n \in Nat /\ n <= o /\ o < IdxMod /\ b < IdxMod
    BY <2>1, <2>2, Sizes DEF Idx
  <2> QED BY Zenon, <2>1, <2>3
<1>2. N = b + o + p /\ N \in Nat /\ N <= QNum
  <2>1. Cardinality(F) \in Nat
    BY Zenon, Descriptors
  <2>2. Cardinality(F) + N = QNum
    BY Zenon DEF Partition, Whole
  <2>3. N = b + o + p /\ N \in Nat
    BY <1>1 DEF InPlay
  <2> HIDE DEF N
  <2> QED BY <2>1, <2>2, <2>3, Sizes
<1>3. Plus(U, n) \in Idx
  <2>1. n \in 0..IdxMod
    BY <1>1, Sizes
  <2> QED BY <1>1, <2>1, PlusIs
<1>4. ASSUME NEW d \in Desc
      PROVE  /\ ((d + QNum - (U % QNum)) % QNum) + 1 \in Nat \ {0}
             /\ Plus(U, ((d + QNum - (U % QNum)) % QNum)) % QNum \in Desc
             /\ (((d + QNum - (U % QNum)) % QNum) + 1) - 1 = (d + QNum - (U % QNum)) % QNum
  <2>1. U % QNum \in Nat /\ U % QNum < QNum
    BY Zenon, <1>1, Sizes, DivMod
  <2> DEFINE y == d + QNum - (U % QNum)
             i == y % QNum
  <2>2. y \in Nat
    BY <2>1, Sizes DEF Desc
  <2>3. i \in Nat
    BY <2>2, Sizes, DivMod
  <2> HIDE DEF y, i
  <2>4. U + i \in Nat
    BY <1>1, <2>3
  <2>5. Plus(U, i) % QNum \in Desc
    BY Zenon, <1>1, <2>3, <2>4, PlusSlot
  <2>6. i + 1 \in Nat \ {0} /\ (i + 1) - 1 = i
    BY <2>3
  <2> QED BY Zenon, <2>5, <2>6 DEF i, y
<1> DEFINE back == [d \in Desc |->
                      LET i == ((d + QNum - (r.usedIdx % QNum)) % QNum) + 1
                      IN  IF i <= n THEN r.avail[Plus(r.usedIdx, i - 1) % QNum] ELSE r.used[d]]
<1>5. back \in [Desc -> Desc]
  BY <1>1, <1>4
<1>6. /\ q \in Ring /\ q.avail = r.avail /\ q.availIdx = r.availIdx /\ q.usedIdx = Plus(U, n)
      /\ q.used = back
  <2> HIDE DEF back
  <2>1. q = [r EXCEPT !.used = back, !.usedIdx = Plus(r.usedIdx, n)]
    BY Zenon DEF back, Consumed
  <2> QED BY Zenon, <1>3, <1>5, <2>1 DEF Ring
<1>7. Back(q, L) = b + n
  <2>1. n + b < IdxMod
    BY <1>1, <1>2, Sizes
  <2>2. n + Ahead(U, L) < IdxMod /\ n \in Nat
    BY <1>1, <2>1 DEF Back
  <2>3. Ahead(Plus(U, n), L) = Ahead(U, L) + n
    BY Zenon, <1>1, <2>2, Advance
  <2> QED BY Zenon, <1>6, <2>3 DEF Back
<1>8. Out(q) = o - n
  <2>1. n <= Ahead(r.availIdx, U) /\ n \in Nat
    BY <1>1 DEF Out
  <2>2. Ahead(r.availIdx, Plus(U, n)) = Ahead(r.availIdx, U) - n
    BY Zenon, <1>1, <2>1, CatchUp
  <2> QED BY Zenon, <1>6, <2>2 DEF Out
<1>9. InPlay(q, L, p) = N
  BY <1>1, <1>2, <1>7, <1>8 DEF InPlay
<1>10. ASSUME NEW t \in 0..(N - 1) PROVE Entry(q, L, t) = Entry(r, L, t)
  <2> DEFINE s == (L + t) % QNum
             i == (s + QNum - (U % QNum)) % QNum
  <2>1. t \in Nat /\ t < N /\ s \in Desc
    BY <1>1, <1>2
  <2>2. i = IF b <= t THEN t - b ELSE t + QNum - b
    <3>1. U % QNum = (L + b) % QNum
      BY Zenon, WindowSlots
    <3>2. t <= b + QNum - 1 /\ b <= t + QNum
      BY <1>1, <1>2, <2>1, Sizes
    <3>3. (((L + t) % QNum) + QNum - ((L + b) % QNum)) % QNum = IF b <= t THEN t - b ELSE t + QNum - b
      BY ZenonT(60), <1>1, <2>1, <3>2, SlotDistance
    <3> QED BY Zenon, <3>1, <3>3
  <2>3. back[s] = IF i + 1 <= n THEN r.avail[Plus(U, i) % QNum] ELSE r.used[s]
    BY <1>4, <2>1
  <2> HIDE DEF s, i, back, q, b, o, N, U
  <2>4. CASE t < b
    <3>1. t < b + n
      BY <1>1, <2>1, <2>4
    <3>2. i = t + QNum - b
      BY <1>1, <2>1, <2>2, <2>4
    <3>3. ~(i + 1 <= n)
      BY <1>1, <1>2, <2>1, <2>4, <3>2, Sizes
    <3>4. back[s] = r.used[s]
      BY <2>3, <3>3
    <3> QED BY <1>6, <1>7, <2>4, <3>1, <3>4 DEF Entry, s, b
  <2>5. CASE b <= t /\ t < b + n
    <3>1. i = t - b /\ i \in Nat /\ i + 1 <= n /\ b + i = t /\ ~(t < b)
      BY <1>1, <2>1, <2>2, <2>5
    <3>2. Plus(U, i) % QNum = (U + i) % QNum
      BY <1>1, <3>1, PlusSlot
    <3>3. (U + i) % QNum = (L + (b + i)) % QNum
      BY Zenon, <3>1, WindowSlots DEF U, b
    <3>4. back[s] = r.avail[s]
      BY <2>3, <3>1, <3>2, <3>3 DEF s
    <3> QED BY <1>6, <1>7, <2>5, <3>1, <3>4 DEF Entry, s, b
  <2>6. CASE b + n <= t
    <3>1. ~(t < b) /\ ~(t < b + n)
      BY <1>1, <2>1, <2>6
    <3> QED BY <1>6, <1>7, <3>1 DEF Entry, s, b
  <2> QED BY <1>1, <2>1, <2>4, <2>5, <2>6
<1>11. Partition(q, L, F, p)
  <2> DEFINE e == [t \in Nat |-> Entry(r, L, t)]
             g == [t \in Nat |-> Entry(q, L, t)]
  <2>1. \A t \in 0..(N - 1) : g[t] = e[t]
    <3>1. \A t \in 0..(N - 1) : t \in Nat
      BY <1>2
    <3> QED BY Zenon, <1>10, <3>1
  <2>2. Whole(N, F, e)
    BY Zenon DEF Partition
  <2> HIDE DEF e, g, N, q
  <2>3. Whole(N, F, g)
    BY Zenon, <1>2, <2>1, <2>2, WholeSame
  <2> QED BY Zenon, <1>9, <2>3 DEF Partition, g
<1> QED
  BY Zenon, <1>6, <1>7, <1>8, <1>10, <1>11

\* The driver takes the first entry that was handed back.
LEMMA ReapKeepsPartition ==
    ASSUME NEW r \in Ring, NEW L \in Idx, NEW F \in SUBSET Desc, NEW p \in 0..1,
           Partition(r, L, F, p), L # r.usedIdx
    PROVE  /\ Plus(L, 1) \in Idx /\ r.used[L % QNum] \in Desc
           /\ r.used[L % QNum] = Entry(r, L, 0)
           /\ Partition(r, Plus(L, 1), F \cup {r.used[L % QNum]}, p)
           /\ Back(r, L) > 0 /\ Back(r, Plus(L, 1)) = Back(r, L) - 1
           /\ \A t \in Nat : Entry(r, Plus(L, 1), t) = Entry(r, L, t + 1)
<1> DEFINE M == Plus(L, 1)
           b == Back(r, L)
           n == InPlay(r, L, p)
<1>1. /\ b \in Nat /\ Out(r) \in Nat /\ L \in Nat /\ r.usedIdx \in Idx
      /\ r.used \in [Desc -> Desc] /\ L % QNum \in Desc
  BY RingFacts
<1>2. M \in Idx
  <2>1. 1 \in 0..IdxMod
    BY Sizes
  <2> QED BY <2>1, PlusIs
<1>3. b > 0
  BY Zenon, <1>1, Apart DEF Back
<1>4. Back(r, M) = b - 1
  <2>1. 1 \in Nat /\ 1 <= Ahead(r.usedIdx, L)
    BY <1>1, <1>3 DEF Back
  <2> QED BY Zenon, <1>1, <2>1, CatchUp DEF Back
<1>5. ASSUME NEW t \in Nat PROVE Entry(r, M, t) = Entry(r, L, t + 1)
  <2>1. (M + t) % QNum = (L + (t + 1)) % QNum
    <3>1. L + 1 \in Nat /\ (L + 1) + t = L + (t + 1)
      BY <1>1
    <3>2. (((L + 1) % IdxMod) + t) % QNum = ((L + 1) + t) % QNum
      BY <3>1, SlotOf
    <3> QED BY Zenon, <3>1, <3>2 DEF Plus
  <2>2. (t < b - 1) <=> (t + 1 < b)
    BY <1>1
  <2> HIDE DEF M, b
  <2> QED BY <1>4, <2>1, <2>2 DEF Entry, b
<1>6. r.used[L % QNum] = Entry(r, L, 0)
  <2>1. 0 < b /\ L + 0 = L
    BY <1>1, <1>3
  <2> QED BY Zenon, <2>1 DEF Entry
<1>7. n \in Nat /\ n > 0 /\ InPlay(r, M, p) = n - 1
  BY <1>1, <1>3, <1>4 DEF InPlay
<1>8. Partition(r, M, F \cup {Entry(r, L, 0)}, p)
  <2> DEFINE e == [t \in Nat |-> Entry(r, L, t)]
             g == [t \in Nat |-> Entry(r, M, t)]
  <2>1. \A t \in 0..(n - 2) : g[t] = e[t + 1]
    <3>1. \A t \in 0..(n - 2) : t \in Nat /\ t + 1 \in Nat
      BY <1>7
    <3> QED BY Zenon, <1>5, <3>1
  <2>2. Whole(n, F, e)
    BY Zenon DEF Partition
  <2>3. e[0] = Entry(r, L, 0)
    OBVIOUS
  <2> HIDE DEF e, g, n, M
  <2>4. Whole(n - 1, F \cup {e[0]}, g)
    BY <1>7, <2>1, <2>2, WholeShrinks
  <2> QED BY Zenon, <1>7, <2>3, <2>4 DEF Partition, g
<1> QED
  BY Zenon, <1>1, <1>2, <1>3, <1>4, <1>5, <1>6, <1>8

-----------------------------------------------------------------------------
(* The device and its driver. *)

QueueType == [ready : BOOLEAN, lastAvail : Idx]

BufType == [kind : AllTxKinds \cup {"big", "short", "full", "none"}, frame : Nat]

DrvType == [pc : {"run", "reap"} \cup Queue, free : [Queue -> SUBSET Desc],
            lastUsed : [Queue -> Idx], owes : SUBSET Queue]

Types ==
    /\ queues \in [Queue -> QueueType] /\ rings \in [Queue -> Ring]
    /\ bufs \in [Queue -> [Desc -> BufType]]
    /\ pending \in Seq(Nat) /\ sent \in Seq(Nat) /\ got \in Seq(Nat)
    /\ intr \in BOOLEAN /\ inj \in {"idle", "none", "delivered"}
    /\ drv \in DrvType /\ work \in Workload

\* A queue in use: the device has returned exactly what it has consumed, and
\* the descriptors are partitioned.  A queue that is not ready starts over.
InOrder(q, r, L, F, p) ==
    /\ ~q.ready => q.lastAvail = 0
    /\ q.ready => q.lastAvail = r.usedIdx /\ Partition(r, L, F, p)

Posts(k) == IF drv.pc = k THEN 1 ELSE 0

QueueInv(k) == InOrder(queues[k], rings[k], drv.lastUsed[k], drv.free[k], Posts(k))

OwnerInv == Types /\ \A k \in Queue : QueueInv(k)

\* The types of one queue.
LEMMA QueueTypes ==
    ASSUME Types, NEW k \in Queue
    PROVE  /\ queues[k] \in QueueType /\ queues[k].ready \in BOOLEAN /\ queues[k].lastAvail \in Idx
           /\ rings[k] \in Ring /\ bufs[k] \in [Desc -> BufType]
           /\ drv.free[k] \in SUBSET Desc /\ drv.lastUsed[k] \in Idx /\ Posts(k) \in 0..1
BY DEF Types, QueueType, DrvType, Posts

\* What the module says of a queue in use, in terms of the window.
LEMMA QueueView ==
    ASSUME OwnerInv, NEW k \in Queue, queues[k].ready
    PROVE  /\ Partition(rings[k], drv.lastUsed[k], drv.free[k], Posts(k))
           /\ queues[k].lastAvail = rings[k].usedIdx
           /\ Unseen(k) = Back(rings[k], drv.lastUsed[k]) /\ Avail(k) = Out(rings[k])
           /\ Unseen(k) \in Nat /\ Avail(k) \in Nat /\ Avail(k) < IdxMod
           /\ \A i \in 1..Unseen(k) :
                 UnseenAt(k, i) = Entry(rings[k], drv.lastUsed[k], i - 1) /\ UnseenAt(k, i) \in Desc
           /\ \A i \in 1..Avail(k) :
                 /\ HeadAt(k, i) = Entry(rings[k], drv.lastUsed[k], Unseen(k) + (i - 1))
                 /\ HeadAt(k, i) \in Desc
<1> DEFINE r == rings[k]
           L == drv.lastUsed[k]
           b == Back(r, L)
<1>1. r \in Ring /\ L \in Idx /\ Partition(r, L, drv.free[k], Posts(k)) /\ queues[k].lastAvail = r.usedIdx
  BY QueueTypes DEF OwnerInv, QueueInv, InOrder
<1>2. Unseen(k) = b /\ Avail(k) = Out(r)
  BY Zenon, <1>1 DEF Unseen, Avail, Back, Out
<1>3. /\ b \in 0..(IdxMod - 1) /\ Out(r) \in 0..(IdxMod - 1) /\ L \in Nat /\ r.usedIdx \in Idx
      /\ \A t \in Nat : Entry(r, L, t) \in Desc
  BY <1>1, RingFacts
<1>4. r.usedIdx \in Nat
  BY <1>3, Sizes DEF Idx
<1>5. ASSUME NEW i \in 1..Unseen(k)
      PROVE  UnseenAt(k, i) = Entry(r, L, i - 1) /\ UnseenAt(k, i) \in Desc
  <2>1. i - 1 \in Nat /\ i - 1 < b
    BY <1>2, <1>3, Sizes
  <2>2. Plus(L, i - 1) % QNum = (L + (i - 1)) % QNum
    BY Zenon, <1>3, <2>1, PlusSlot
  <2>3. UnseenAt(k, i) = Entry(r, L, i - 1)
    BY Zenon, <2>1, <2>2 DEF UnseenAt, Entry
  <2> QED BY Zenon, <1>3, <2>1, <2>3
<1>6. ASSUME NEW i \in 1..Avail(k)
      PROVE  HeadAt(k, i) = Entry(r, L, Unseen(k) + (i - 1)) /\ HeadAt(k, i) \in Desc
  <2>1. i - 1 \in Nat /\ b + (i - 1) \in Nat /\ ~(b + (i - 1) < b)
    BY <1>2, <1>3, Sizes
  <2>2. Plus(r.usedIdx, i - 1) % QNum = (r.usedIdx + (i - 1)) % QNum
    BY Zenon, <1>4, <2>1, PlusSlot
  <2>3. (r.usedIdx + (i - 1)) % QNum = (L + (b + (i - 1))) % QNum
    BY Zenon, <1>1, <2>1, WindowSlots
  <2>4. HeadAt(k, i) = Entry(r, L, b + (i - 1))
    BY Zenon, <1>1, <2>1, <2>2, <2>3 DEF HeadAt, Entry
  <2> QED BY Zenon, <1>2, <1>3, <2>1, <2>4
<1>7. Unseen(k) \in Nat /\ Avail(k) \in Nat /\ Avail(k) < IdxMod
  BY <1>2, <1>3, Sizes
<1> QED
  BY Zenon, <1>1, <1>2, <1>5, <1>6, <1>7

\* A queue that a step leaves alone.
LEMMA QueueSame ==
    ASSUME NEW k \in Queue, QueueInv(k), queues'[k] = queues[k], rings'[k] = rings[k],
           drv'.free[k] = drv.free[k], drv'.lastUsed[k] = drv.lastUsed[k], (drv.pc = k) <=> (drv'.pc = k)
    PROVE  QueueInv(k)'
<1>1. Posts(k)' = Posts(k)
  BY DEF Posts
<1> QED
  BY Zenon, <1>1 DEF QueueInv

\* The device consumes chains of a queue in use.
LEMMA ConsumeKeeps ==
    ASSUME OwnerInv, NEW k \in Queue, queues[k].ready, NEW n \in 0..Avail(k), Consume(k, n),
           drv'.free = drv.free, drv'.lastUsed = drv.lastUsed, drv'.pc = drv.pc
    PROVE  /\ queues' \in [Queue -> QueueType] /\ rings' \in [Queue -> Ring]
           /\ \A j \in Queue : QueueInv(j)'
           /\ queues'[k].ready /\ rings'[k] = Consumed(rings[k], n)
           /\ \A j \in Queue \ {k} : queues'[j] = queues[j] /\ rings'[j] = rings[j]
<1> DEFINE r == rings[k]
           L == drv.lastUsed[k]
           F == drv.free[k]
           q == Consumed(r, n)
<1>1. /\ r \in Ring /\ L \in Idx /\ F \in SUBSET Desc /\ Posts(k) \in 0..1
      /\ queues \in [Queue -> QueueType] /\ rings \in [Queue -> Ring]
  BY QueueTypes DEF OwnerInv, Types
<1>2. Partition(r, L, F, Posts(k)) /\ queues[k].lastAvail = r.usedIdx /\ n \in 0..Out(r)
  BY Zenon, QueueView
<1>3. AddUsed(k, n) = q
  BY Zenon, <1>2 DEF AddUsed, WriteUsed, Consumed, HeadAt
<1>4. q \in Ring /\ Partition(q, L, F, Posts(k))
  BY Zenon, <1>1, <1>2, ConsumeKeepsPartition
<1>5. n \in 0..IdxMod
  BY <1>1, <1>2, RingFacts, Sizes
<1>6. Plus(r.usedIdx, n) \in Idx /\ q.usedIdx = Plus(r.usedIdx, n)
  <2>1. r.usedIdx \in Idx
    BY <1>1, RingFacts
  <2> QED BY <1>1, <1>5, <2>1, PlusIs DEF Consumed, Ring
<1> HIDE DEF q
<1>7. /\ rings' = [rings EXCEPT ![k] = q]
      /\ queues' = [queues EXCEPT ![k].lastAvail = Plus(r.usedIdx, n)]
  BY Zenon, <1>2, <1>3 DEF Consume
<1>8. queues' \in [Queue -> QueueType] /\ rings' \in [Queue -> Ring]
  BY <1>1, <1>4, <1>6, <1>7 DEF QueueType
<1>9. /\ queues'[k].ready /\ queues'[k].lastAvail = q.usedIdx /\ rings'[k] = q
      /\ \A j \in Queue \ {k} : queues'[j] = queues[j] /\ rings'[j] = rings[j]
  BY <1>1, <1>6, <1>7 DEF QueueType
<1>10. QueueInv(k)'
  <2>1. Posts(k)' = Posts(k)
    BY DEF Posts
  <2> QED BY Zenon, <1>4, <1>9, <2>1 DEF QueueInv, InOrder
<1>11. ASSUME NEW j \in Queue \ {k} PROVE QueueInv(j)'
  BY Zenon, <1>9, QueueSame DEF OwnerInv
<1> QED
  BY Zenon, <1>8, <1>9, <1>10, <1>11 DEF q

\* The buffers of the chains that the device holds.
LEMMA ChainTypes ==
    ASSUME OwnerInv, NEW k \in Queue, queues[k].ready, NEW i \in 1..Avail(k)
    PROVE  Chain(k, i) \in BufType /\ Chain(k, i).frame \in Nat
<1>1. HeadAt(k, i) \in Desc
  BY Zenon, QueueView
<1>2. Chain(k, i) \in BufType
  BY <1>1, QueueTypes DEF Chain, OwnerInv
<1> QED
  BY <1>2 DEF BufType

\* The frames of the transmit queue.
LEMMA TxFrames ==
    ASSUME OwnerInv, queues["tx"].ready
    PROVE  /\ \A i \in 1..Avail("tx") : TxChains[i] = Chain("tx", i) /\ TxChains[i].frame \in Nat
           /\ \A n \in 0..Avail("tx") : FramesOf(TxChains)[n] \in Seq(Nat)
<1>1. "tx" \in Queue /\ Avail("tx") \in Nat /\ Avail("tx") < IdxMod
  BY QueueView DEF Queue
<1>2. \A i \in 1..Avail("tx") : TxChains[i] = Chain("tx", i) /\ TxChains[i].frame \in Nat
  BY Zenon, <1>1, ChainTypes DEF TxChains
<1>3. Avail("tx") \in 0..IdxMod
  BY <1>1, Sizes
<1>4. \A n \in 0..Avail("tx") : FramesOf(TxChains)[n] \in Seq(Nat)
  BY Zenon, <1>2, <1>3, FramesTyped
<1> QED
  BY Zenon, <1>2, <1>4

\* drainTXLocked consumes some chains from the front and sends their frames.
LEMMA DrainCount ==
    ASSUME OwnerInv, queues["tx"].ready, DrainTX
    PROVE  \E n \in 0..Avail("tx") :
             /\ Consume("tx", n)
             /\ sent' = sent \o FramesOf(TxChains)[n]
             /\ intr' = (intr \/ (n = Avail("tx") /\ FramesOf(TxChains)[n] # << >>))
<1> DEFINE total == Avail("tx")
           good == {n \in 0..total : \A i \in 1..n : Chain("tx", i).kind # "fault"}
           n == CHOOSE m \in good : \A o \in good : o <= m
<1>1. total \in Nat
  BY QueueView DEF Queue
<1>2. good \in SUBSET (0..total) /\ 0 \in good
  BY <1>1
<1>3. n \in 0..total
  <2> HIDE DEF good, total
  <2>1. n \in good
    BY Zenon, <1>1, <1>2, Greatest
  <2> QED BY Zenon, <1>2, <2>1
<1>4. /\ Consume("tx", n)
      /\ sent' = sent \o FramesOf(TxChains)[n]
      /\ intr' = (intr \/ (n = total /\ FramesOf(TxChains)[n] # << >>))
  BY Zenon DEF DrainTX
<1> HIDE DEF n
<1> QED
  BY Zenon, <1>3, <1>4

\* pumpRXLocked fills some buffers from the front.
LEMMA PumpCount ==
    ASSUME OwnerInv, queues["rx"].ready
    PROVE  Pumped \in 0..Avail("rx") /\ Pumped <= Len(pending)
<1> DEFINE total == Avail("rx")
           fits == {n \in 0..total : n <= Len(pending) /\ \A i \in 1..n : Chain("rx", i).kind = "big"}
           n == CHOOSE m \in fits : \A o \in fits : o <= m
<1>1. total \in Nat /\ Len(pending) \in Nat
  BY QueueView DEF Queue, OwnerInv, Types
<1>2. fits \in SUBSET (0..total) /\ 0 \in fits /\ \A m \in fits : m <= Len(pending)
  BY <1>1
<1>3. n \in 0..total /\ n <= Len(pending)
  <2> HIDE DEF fits, total
  <2>1. n \in fits
    BY Zenon, <1>1, <1>2, Greatest
  <2> QED BY Zenon, <1>2, <2>1
<1> QED
  BY Zenon, <1>3 DEF Pumped

\* What a buffer holds after its queue was pumped, and what is still pending.
LEMMA PumpKeeps ==
    ASSUME OwnerInv, queues["rx"].ready, NEW n \in 0..Avail("rx"), n <= Len(pending), PumpRX(n),
           drv'.free = drv.free, drv'.lastUsed = drv.lastUsed, drv'.pc = drv.pc
    PROVE  /\ queues' \in [Queue -> QueueType] /\ rings' \in [Queue -> Ring]
           /\ \A j \in Queue : QueueInv(j)'
           /\ bufs' \in [Queue -> [Desc -> BufType]] /\ pending' \in Seq(Nat)
<1>1. "rx" \in Queue /\ Avail("rx") \in Nat
  BY QueueView DEF Queue
<1>2. /\ queues' \in [Queue -> QueueType] /\ rings' \in [Queue -> Ring]
      /\ \A j \in Queue : QueueInv(j)'
  BY Zenon, <1>1, ConsumeKeeps DEF PumpRX
<1>3. pending \in Seq(Nat) /\ Len(pending) \in Nat /\ bufs \in [Queue -> [Desc -> BufType]]
  BY DEF OwnerInv, Types
<1>4. pending' \in Seq(Nat)
  <2>1. n \in Nat
    BY <1>1
  <2>2. pending' = SubSeq(pending, n + 1, Len(pending))
    BY DEF PumpRX
  <2> QED BY <1>3, <2>1, <2>2
<1> DEFINE Hit(d) == {i \in 1..n : HeadAt("rx", i) = d}
           fill == [d \in Desc |-> IF Hit(d) = {} THEN bufs["rx"][d]
                                   ELSE Buffer("full", pending[CHOOSE i \in Hit(d) : TRUE])]
<1>5. bufs' = [bufs EXCEPT !["rx"] = fill]
  BY Zenon DEF PumpRX, FillBuffers
<1>6. fill \in [Desc -> BufType]
  <2> SUFFICES ASSUME NEW d \in Desc
               PROVE  (IF Hit(d) = {} THEN bufs["rx"][d]
                       ELSE Buffer("full", pending[CHOOSE i \in Hit(d) : TRUE])) \in BufType
    BY Zenon
  <2>1. CASE Hit(d) = {}
    BY Zenon, <1>1, <1>3, <2>1
  <2>2. CASE Hit(d) # {}
    <3> DEFINE c == CHOOSE i \in Hit(d) : TRUE
    <3>1. c \in 1..n
      <4>1. c \in Hit(d)
        BY Zenon, <2>2
      <4> QED BY <4>1
    <3> HIDE DEF c
    <3>2. pending[c] \in Nat
      BY <1>1, <1>3, <3>1
    <3>3. Buffer("full", pending[c]) \in BufType
      BY <3>2 DEF Buffer, BufType
    <3> QED BY Zenon, <2>2, <3>3 DEF c
  <2> QED BY Zenon, <2>1, <2>2
<1> HIDE DEF fill
<1>7. bufs' \in [Queue -> [Desc -> BufType]]
  BY <1>1, <1>3, <1>5, <1>6
<1> QED
  BY Zenon, <1>2, <1>4, <1>7

\* Names of queues are not names of states.
LEMMA Names ==
    ASSUME NEW k \in Queue
    PROVE  k # "run" /\ k # "reap" /\ \A j \in Queue : j # k => Queue \ {k} = {j}
BY DEF Queue

\* The driver writes a buffer and its entry in the available ring.
Puts(k, b, d) == bufs' = [bufs EXCEPT ![k][d] = b] /\ rings'[k] = Posted(rings[k], d)

LEMMA PostKeeps ==
    ASSUME OwnerInv, NEW k \in Queue, NEW b \in BufType, PostBuffer(k, b)
    PROVE  /\ queues' \in [Queue -> QueueType] /\ rings' \in [Queue -> Ring]
           /\ bufs' \in [Queue -> [Desc -> BufType]] /\ drv' \in DrvType
           /\ \A j \in Queue : QueueInv(j)'
           /\ \E d \in drv.free[k] : Puts(k, b, d)
           /\ \A j \in Queue \ {k} : rings'[j] = rings[j]
           /\ drv'.lastUsed = drv.lastUsed
<1> DEFINE r == rings[k]
           L == drv.lastUsed[k]
           F == drv.free[k]
           d == CHOOSE e \in F : \A o \in F : e <= o
           q == Posted(r, d)
<1>1. /\ drv.pc = "run" /\ queues[k].ready /\ F # {}
      /\ bufs' = [bufs EXCEPT ![k][d] = b]
      /\ rings' = [rings EXCEPT ![k].avail[r.availIdx % QNum] = d]
      /\ drv' = [drv EXCEPT !.free[k] = @ \ {d}, !.pc = k]
      /\ queues' = queues
  BY Zenon DEF PostBuffer
<1>2. /\ r \in Ring /\ L \in Idx /\ F \in SUBSET Desc
      /\ queues \in [Queue -> QueueType] /\ rings \in [Queue -> Ring]
      /\ bufs \in [Queue -> [Desc -> BufType]] /\ drv \in DrvType
  BY QueueTypes DEF OwnerInv, Types
<1>3. d \in F
  <2>1. F \in SUBSET Nat
    BY <1>2 DEF Desc
  <2>2. \E e \in F : \A o \in F : e <= o
    <3> HIDE DEF F
    <3> QED BY <1>1, <2>1, LeastNumber
  <2> QED BY Zenon, <2>2
<1> HIDE DEF d
<1>4. Posts(k) = 0
  <2>1. drv.pc = "run" /\ k # "run"
    BY Zenon, <1>1, Names
  <2> QED BY Zenon, <2>1 DEF Posts
<1>5. Partition(r, L, F, 0)
  BY Zenon, <1>1, <1>4, QueueView
<1>6. q \in Ring /\ Partition(q, L, F \ {d}, 1)
  BY Zenon, <1>2, <1>3, <1>5, PostKeepsPartition
<1>7. rings' = [rings EXCEPT ![k] = q]
  BY Zenon, <1>1 DEF Posted
<1>8. q.usedIdx = r.usedIdx
  BY Zenon, <1>2 DEF Ring, Posted
<1> HIDE DEF q
<1>9. rings' \in [Queue -> Ring] /\ rings'[k] = q /\ \A j \in Queue \ {k} : rings'[j] = rings[j]
  BY <1>2, <1>6, <1>7
<1>10. /\ drv' \in DrvType /\ drv'.free[k] = F \ {d} /\ drv'.lastUsed = drv.lastUsed /\ drv'.pc = k
       /\ \A j \in Queue \ {k} : drv'.free[j] = drv.free[j]
  BY Zenon, <1>1, <1>2 DEF DrvType
<1>11. bufs' \in [Queue -> [Desc -> BufType]]
  BY <1>1, <1>2, <1>3
<1>12. QueueInv(k)'
  <2>1. Posts(k)' = 1
    BY <1>10 DEF Posts
  <2>2. queues[k].lastAvail = r.usedIdx
    BY Zenon, <1>1, QueueView
  <2>3. /\ queues'[k].ready /\ queues'[k].lastAvail = q.usedIdx
        /\ Partition(rings'[k], drv'.lastUsed[k], drv'.free[k], Posts(k)')
    BY Zenon, <1>1, <1>6, <1>8, <1>9, <1>10, <2>1, <2>2
  <2> QED BY Zenon, <1>9, <2>3 DEF QueueInv, InOrder
<1>13. ASSUME NEW j \in Queue \ {k} PROVE QueueInv(j)'
  <2>1. QueueInv(j) /\ j # "run"
    BY Names DEF OwnerInv
  <2> QED BY Zenon, <1>1, <1>9, <1>10, <2>1, QueueSame
<1> QED
  BY Zenon, <1>1, <1>2, <1>3, <1>9, <1>10, <1>11, <1>12, <1>13 DEF q, Puts

\* The driver publishes the entry.
LEMMA PublishKeeps ==
    ASSUME OwnerInv, NEW k \in Queue, Publish(k)
    PROVE  OwnerInv'
<1> DEFINE r == rings[k]
           L == drv.lastUsed[k]
           F == drv.free[k]
           q == [r EXCEPT !.availIdx = Plus(@, 1)]
<1>1. /\ drv.pc = k /\ rings' = [rings EXCEPT ![k] = q]
      /\ drv' = [drv EXCEPT !.pc = "run", !.owes = @ \cup {k}]
      /\ UNCHANGED <<queues, bufs, pending, intr, inj, sent, got, work>>
  BY Zenon DEF Publish
<1>2. /\ r \in Ring /\ L \in Idx /\ F \in SUBSET Desc
      /\ queues \in [Queue -> QueueType] /\ rings \in [Queue -> Ring] /\ drv \in DrvType
      /\ r.availIdx \in Idx /\ QueueInv(k) /\ queues[k].ready \in BOOLEAN
  BY Zenon, QueueTypes, RingFacts DEF OwnerInv, Types
<1>3. q \in Ring /\ q.usedIdx = r.usedIdx
  <2>1. 1 \in 0..IdxMod
    BY Sizes
  <2>2. Plus(r.availIdx, 1) \in Idx
    BY <1>2, <2>1, PlusIs
  <2> QED BY <1>2, <2>2 DEF Ring
<1>4. queues[k].ready => Partition(q, L, F, 0)
  <2>1. Posts(k) = 1
    BY <1>1 DEF Posts
  <2> QED BY Zenon, <1>2, <2>1, QueueView, PublishKeepsPartition
<1> HIDE DEF q
<1>5. rings' \in [Queue -> Ring] /\ rings'[k] = q /\ \A j \in Queue \ {k} : rings'[j] = rings[j]
  BY <1>1, <1>2, <1>3
<1>6. drv' \in DrvType /\ drv'.free = drv.free /\ drv'.lastUsed = drv.lastUsed /\ drv'.pc = "run"
  BY Zenon, <1>1, <1>2 DEF DrvType
<1>7. QueueInv(k)'
  <2>1. Posts(k)' = 0
    BY <1>6, Names DEF Posts
  <2> QED BY Zenon, <1>1, <1>2, <1>3, <1>4, <1>5, <1>6, <2>1 DEF QueueInv, InOrder
<1>8. ASSUME NEW j \in Queue \ {k} PROVE QueueInv(j)'
  <2>1. QueueInv(j) /\ j # "run"
    BY Names DEF OwnerInv
  <2> QED BY Zenon, <1>1, <1>5, <1>6, <2>1, QueueSame
<1>9. Types'
  BY Zenon, <1>1, <1>2, <1>5, <1>6 DEF OwnerInv, Types
<1> QED
  BY Zenon, <1>7, <1>8, <1>9 DEF OwnerInv

\* The driver takes back a descriptor.
LEMMA ReapKeeps ==
    ASSUME OwnerInv, NEW k \in Queue, Reap(k)
    PROVE  OwnerInv'
<1> DEFINE r == rings[k]
           L == drv.lastUsed[k]
           F == drv.free[k]
           d == r.used[L % QNum]
<1>1. /\ drv.pc = "reap" /\ queues[k].ready /\ L # r.usedIdx
      /\ drv' = [drv EXCEPT !.lastUsed[k] = Plus(@, 1), !.free[k] = @ \cup {d}]
      /\ got' = (IF k = "rx" THEN Append(got, bufs[k][d].frame) ELSE got)
      /\ UNCHANGED <<queues, rings, bufs, pending, intr, inj, sent, work>>
  BY Zenon DEF Reap
<1>2. /\ r \in Ring /\ L \in Idx /\ F \in SUBSET Desc /\ drv \in DrvType
      /\ bufs[k] \in [Desc -> BufType] /\ got \in Seq(Nat)
  BY Zenon, QueueTypes DEF OwnerInv, Types
<1>3. Posts(k) = 0 /\ 0 \in 0..1
  <2>1. drv.pc = "reap" /\ k # "reap"
    BY Zenon, <1>1, Names
  <2>2. Posts(k) = 0
    BY Zenon, <2>1 DEF Posts
  <2> QED BY <2>2
<1>4. Partition(r, L, F, 0) /\ queues[k].lastAvail = r.usedIdx
  BY Zenon, <1>1, <1>3, QueueView
<1>5. Plus(L, 1) \in Idx /\ d \in Desc /\ Partition(r, Plus(L, 1), F \cup {d}, 0)
  BY Zenon, <1>1, <1>2, <1>3, <1>4, ReapKeepsPartition
<1> HIDE DEF d
<1>6. /\ drv' \in DrvType /\ drv'.pc = drv.pc /\ drv'.lastUsed[k] = Plus(L, 1) /\ drv'.free[k] = F \cup {d}
      /\ \A j \in Queue \ {k} : drv'.free[j] = drv.free[j] /\ drv'.lastUsed[j] = drv.lastUsed[j]
  BY Zenon, <1>1, <1>2, <1>5 DEF DrvType
<1>7. QueueInv(k)'
  <2>1. Posts(k)' = 0
    BY <1>3, <1>6 DEF Posts
  <2> QED BY Zenon, <1>1, <1>4, <1>5, <1>6, <2>1 DEF QueueInv, InOrder
<1>8. ASSUME NEW j \in Queue \ {k} PROVE QueueInv(j)'
  <2>1. QueueInv(j)
    BY DEF OwnerInv
  <2> QED BY Zenon, <1>1, <1>6, <2>1, QueueSame
<1>9. got' \in Seq(Nat)
  <2>1. bufs[k][d].frame \in Nat
    BY <1>2, <1>5 DEF BufType
  <2> QED BY <1>1, <1>2, <2>1
<1>10. Types'
  BY Zenon, <1>1, <1>6, <1>9 DEF OwnerInv, Types
<1> QED
  BY Zenon, <1>7, <1>8, <1>10 DEF OwnerInv

\* A queue is closed.
LEMMA ClosedKeeps ==
    ASSUME NEW k \in Queue, queues'[k] = ClosedQueue
    PROVE  QueueInv(k)'
BY DEF QueueInv, InOrder, ClosedQueue

\* The driver starts a queue over.
LEMMA ReadyKeeps ==
    ASSUME OwnerInv, NEW k \in Queue, QueueReady(k)
    PROVE  OwnerInv'
<1>1. /\ drv.pc = "run" /\ rings' = [rings EXCEPT ![k] = EmptyRing]
      /\ queues' = [queues EXCEPT ![k].ready = TRUE] /\ ~queues[k].ready
      /\ drv' = [drv EXCEPT !.free[k] = Desc, !.lastUsed[k] = 0, !.owes = @ \ {k}]
      /\ UNCHANGED <<bufs, pending, intr, inj, sent, got, work>>
  BY Zenon DEF QueueReady, Accesses
<1>2. /\ queues \in [Queue -> QueueType] /\ rings \in [Queue -> Ring] /\ drv \in DrvType
      /\ QueueInv(k)
  BY Zenon DEF OwnerInv, Types
<1>3. EmptyRing \in Ring /\ Partition(EmptyRing, 0, Desc, 0) /\ 0 \in Idx /\ EmptyRing.usedIdx = 0
  BY EmptyPartition, Sizes DEF Idx, EmptyRing
<1>4. rings' \in [Queue -> Ring] /\ rings'[k] = EmptyRing /\ \A j \in Queue \ {k} : rings'[j] = rings[j]
  BY <1>1, <1>2, <1>3
<1>5. /\ queues' \in [Queue -> QueueType] /\ queues'[k].ready /\ queues'[k].lastAvail = queues[k].lastAvail
      /\ \A j \in Queue \ {k} : queues'[j] = queues[j]
  BY Zenon, <1>1, <1>2 DEF QueueType
<1>6. /\ drv' \in DrvType /\ drv'.pc = "run" /\ drv'.pc = drv.pc /\ drv'.lastUsed[k] = 0 /\ drv'.free[k] = Desc
      /\ \A j \in Queue \ {k} : drv'.free[j] = drv.free[j] /\ drv'.lastUsed[j] = drv.lastUsed[j]
  BY Zenon, <1>1, <1>2, <1>3 DEF DrvType
<1>7. QueueInv(k)'
  <2>1. drv'.pc = "run" /\ k # "run"
    BY Zenon, <1>6, Names
  <2>2. Posts(k)' = 0
    BY Zenon, <2>1 DEF Posts
  <2>3. queues[k].lastAvail = 0
    BY Zenon, <1>1, <1>2 DEF QueueInv, InOrder
  <2> QED BY Zenon, <1>3, <1>4, <1>5, <1>6, <2>2, <2>3 DEF QueueInv, InOrder
<1>8. ASSUME NEW j \in Queue \ {k} PROVE QueueInv(j)'
  <2>1. QueueInv(j)
    BY DEF OwnerInv
  <2> QED BY Zenon, <1>4, <1>5, <1>6, <2>1, QueueSame
<1>9. Types'
  BY <1>1, <1>2, <1>4, <1>5, <1>6 DEF OwnerInv, Types
<1> QED
  BY Zenon, <1>7, <1>8, <1>9 DEF OwnerInv

\* Steps that leave the rings, and what the driver keeps of them, alone.
LEMMA RingsKept ==
    ASSUME OwnerInv, Types', UNCHANGED <<queues, rings>>, drv'.free = drv.free,
           drv'.lastUsed = drv.lastUsed, \A k \in Queue : (drv.pc = k) <=> (drv'.pc = k)
    PROVE  OwnerInv'
<1>1. ASSUME NEW k \in Queue PROVE QueueInv(k)'
  BY Zenon, QueueSame DEF OwnerInv
<1> QED
  BY Zenon, <1>1 DEF OwnerInv

\* Every step of the driver's and the device's notifications.
LEMMA NotifyKeeps == OwnerInv /\ (NotifyTX \/ NotifyRX) => OwnerInv'
<1> SUFFICES ASSUME OwnerInv, NotifyTX \/ NotifyRX PROVE OwnerInv'
  OBVIOUS
<1>1. PICK k \in Queue : drv' = [drv EXCEPT !.owes = @ \ {k}]
  BY DEF NotifyTX, NotifyRX, Queue
<1>2. drv' \in DrvType /\ drv'.free = drv.free /\ drv'.lastUsed = drv.lastUsed /\ drv'.pc = drv.pc
  <2>1. drv \in DrvType
    BY DEF OwnerInv, Types
  <2> QED BY <1>1, <2>1 DEF DrvType
<1>3. CASE NotifyTX /\ queues["tx"].ready
  <2>1. DrainTX /\ UNCHANGED <<bufs, pending, inj, got, work>>
    BY Zenon, <1>3 DEF NotifyTX
  <2>2. PICK n \in 0..Avail("tx") :
             /\ Consume("tx", n)
             /\ sent' = sent \o FramesOf(TxChains)[n]
             /\ intr' = (intr \/ (n = Avail("tx") /\ FramesOf(TxChains)[n] # << >>))
    BY Zenon, <1>3, <2>1, DrainCount
  <2>3. /\ queues' \in [Queue -> QueueType] /\ rings' \in [Queue -> Ring]
        /\ \A j \in Queue : QueueInv(j)'
    <3>1. "tx" \in Queue
      BY DEF Queue
    <3> QED BY Zenon, <1>2, <1>3, <2>2, <3>1, ConsumeKeeps
  <2>4. sent' \in Seq(Nat) /\ intr' \in BOOLEAN
    <3>1. FramesOf(TxChains)[n] \in Seq(Nat)
      BY Zenon, <1>3, TxFrames
    <3>2. sent \in Seq(Nat) /\ intr \in BOOLEAN
      BY DEF OwnerInv, Types
    <3>3. sent' \in Seq(Nat)
      BY <2>2, <3>1, <3>2
    <3>4. intr' \in BOOLEAN
      BY Zenon, <2>2
    <3> QED BY <3>3, <3>4
  <2>5. Types'
    BY Zenon, <1>2, <2>1, <2>3, <2>4 DEF OwnerInv, Types
  <2> QED BY Zenon, <2>3, <2>5 DEF OwnerInv
<1>4. CASE NotifyRX /\ queues["rx"].ready
  <2>1. PumpRX(Pumped) /\ intr' = (intr \/ Pumped > 0) /\ UNCHANGED <<inj, sent, got, work>>
    BY Zenon, <1>4 DEF NotifyRX
  <2>2. /\ queues' \in [Queue -> QueueType] /\ rings' \in [Queue -> Ring]
        /\ \A j \in Queue : QueueInv(j)'
        /\ bufs' \in [Queue -> [Desc -> BufType]] /\ pending' \in Seq(Nat)
    BY Zenon, <1>2, <1>4, <2>1, PumpCount, PumpKeeps
  <2>3. intr' \in BOOLEAN
    BY Zenon, <2>1
  <2>4. Types'
    BY Zenon, <1>2, <2>1, <2>2, <2>3 DEF OwnerInv, Types
  <2> QED BY Zenon, <2>2, <2>4 DEF OwnerInv
<1>5. CASE (NotifyTX /\ ~queues["tx"].ready) \/ (NotifyRX /\ ~queues["rx"].ready)
  <2>1. UNCHANGED <<queues, rings, bufs, pending, inj, sent, got, work, intr>>
    BY Zenon, <1>5 DEF NotifyTX, NotifyRX
  <2>2. Types'
    BY Zenon, <1>2, <2>1 DEF OwnerInv, Types
  <2> QED BY Zenon, <1>2, <2>1, <2>2, RingsKept
<1> QED
  BY Zenon, <1>3, <1>4, <1>5

\* The driver posts a buffer, in one direction or the other.
LEMMA PostsKeep ==
    ASSUME OwnerInv,
           (\E kind \in AllTxKinds : PostTX(kind)) \/ (\E kind \in AllRxKinds : PostRX(kind))
    PROVE  OwnerInv'
<1>1. work \in Workload
  BY DEF OwnerInv, Types
<1>2. PICK k \in Queue, b \in BufType : PostBuffer(k, b) /\ work' \in Workload
  <2>1. ASSUME NEW kind \in AllTxKinds, PostTX(kind)
        PROVE  \E k \in Queue, b \in BufType : PostBuffer(k, b) /\ work' \in Workload
    <3>1. work.frames \in [Queue -> Nat] /\ "tx" \in Queue /\ work.frames["tx"] \in Nat
      BY <1>1 DEF Workload, Queue
    <3>2. work.frames["tx"] - 1 \in Nat
      BY <2>1, <3>1 DEF PostTX
    <3>3. work' \in Workload
      BY Zenon, <1>1, <2>1, <3>1, <3>2 DEF PostTX, Workload
    <3>4. Buffer(kind, work.frames["tx"]) \in BufType
      BY <3>1 DEF Buffer, BufType
    <3> QED BY Zenon, <2>1, <3>1, <3>3, <3>4 DEF PostTX
  <2>2. ASSUME NEW kind \in AllRxKinds, PostRX(kind)
        PROVE  \E k \in Queue, b \in BufType : PostBuffer(k, b) /\ work' \in Workload
    <3>1. Buffer(kind, 0) \in BufType /\ "rx" \in Queue
      BY DEF Buffer, BufType, AllRxKinds, Queue
    <3> QED BY Zenon, <1>1, <2>2, <3>1 DEF PostRX
  <2> QED BY Zenon, <2>1, <2>2
<1>3. /\ queues' \in [Queue -> QueueType] /\ rings' \in [Queue -> Ring]
      /\ bufs' \in [Queue -> [Desc -> BufType]] /\ drv' \in DrvType
      /\ \A j \in Queue : QueueInv(j)'
  BY Zenon, <1>2, PostKeeps
<1>4. UNCHANGED <<pending, intr, inj, sent, got>>
  BY Zenon, <1>2 DEF PostBuffer
<1>5. Types'
  BY Zenon, <1>2, <1>3, <1>4 DEF OwnerInv, Types
<1> QED
  BY Zenon, <1>3, <1>5 DEF OwnerInv

\* The device pumps while it injects.
LEMMA InjectKeeps ==
    ASSUME OwnerInv, InjectGuestFrame \/ PumpOne \/ PumpEnd
    PROVE  OwnerInv'
<1>1. drv' = drv
  BY Zenon DEF InjectGuestFrame, PumpOne, PumpEnd
<1>2. CASE InjectGuestFrame
  <2>1. work \in Workload /\ pending \in Seq(Nat)
    BY Zenon DEF OwnerInv, Types
  <2>2. work.frames \in [Queue -> Nat] /\ "rx" \in Queue /\ work.frames["rx"] \in Nat
    BY <2>1 DEF Workload, Queue
  <2>3. work.frames["rx"] - 1 \in Nat
    BY <1>2, <2>2 DEF InjectGuestFrame
  <2>4. work' \in Workload
    BY Zenon, <1>2, <2>1, <2>2, <2>3 DEF InjectGuestFrame, Workload
  <2>5. pending' \in Seq(Nat)
    BY <1>2, <2>1, <2>2 DEF InjectGuestFrame
  <2>6. inj' \in {"idle", "none", "delivered"} /\ UNCHANGED <<queues, rings, bufs, intr, drv, sent, got>>
    BY <1>2 DEF InjectGuestFrame
  <2>7. Types'
    BY Zenon, <2>4, <2>5, <2>6 DEF OwnerInv, Types
  <2> QED BY Zenon, <2>6, <2>7, RingsKept
<1>3. CASE PumpOne
  <2>1. queues["rx"].ready /\ Pumped > 0 /\ PumpRX(1) /\ UNCHANGED <<intr, drv, sent, got, work>>
    BY Zenon, <1>3 DEF PumpOne
  <2>2. 1 \in 0..Avail("rx") /\ 1 <= Len(pending)
    <3>1. Pumped \in 0..Avail("rx") /\ Pumped <= Len(pending)
      BY Zenon, <2>1, PumpCount
    <3>2. Avail("rx") \in Nat /\ Len(pending) \in Nat
      BY <2>1, QueueView DEF Queue, OwnerInv, Types
    <3> QED BY <2>1, <3>1, <3>2
  <2>3. /\ queues' \in [Queue -> QueueType] /\ rings' \in [Queue -> Ring]
        /\ \A j \in Queue : QueueInv(j)'
        /\ bufs' \in [Queue -> [Desc -> BufType]] /\ pending' \in Seq(Nat)
    BY Zenon, <1>1, <2>1, <2>2, PumpKeeps
  <2>4. inj' \in {"idle", "none", "delivered"}
    BY <1>3 DEF PumpOne
  <2>5. Types'
    BY Zenon, <2>1, <2>3, <2>4 DEF OwnerInv, Types
  <2> QED BY Zenon, <2>3, <2>5 DEF OwnerInv
<1>4. CASE PumpEnd
  <2>1. inj' \in {"idle", "none", "delivered"} /\ UNCHANGED <<queues, rings, bufs, pending, drv, sent, got, work>>
    BY <1>4 DEF PumpEnd
  <2>2. intr' \in BOOLEAN
    BY Zenon, <1>4 DEF PumpEnd
  <2>3. Types'
    BY Zenon, <2>1, <2>2 DEF OwnerInv, Types
  <2> QED BY Zenon, <2>1, <2>3, RingsKept
<1> QED
  BY Zenon, <1>2, <1>3, <1>4

\* Every step keeps the rings in order.
LEMMA OwnerStep == OwnerInv /\ [Next]_vars => OwnerInv'
<1> SUFFICES ASSUME OwnerInv, [Next]_vars PROVE OwnerInv'
  OBVIOUS
<1>1. CASE NotifyTX \/ NotifyRX
  BY Zenon, <1>1, NotifyKeeps
<1>2. CASE InterruptACK \/ ReapDone
  <2>1. drv' \in DrvType /\ drv'.free = drv.free /\ drv'.lastUsed = drv.lastUsed
    <3>1. drv \in DrvType
      BY DEF OwnerInv, Types
    <3> QED BY <1>2, <3>1 DEF InterruptACK, ReapDone, DrvType
  <2>2. intr' \in BOOLEAN /\ UNCHANGED <<queues, rings, bufs, pending, inj, sent, got, work>>
    BY Zenon, <1>2 DEF InterruptACK, ReapDone, OwnerInv, Types
  <2>3. drv.pc \in {"run", "reap"} /\ drv'.pc \in {"run", "reap"}
    <3>1. drv \in DrvType
      BY DEF OwnerInv, Types
    <3> QED BY <1>2, <3>1 DEF InterruptACK, ReapDone, Accesses, DrvType
  <2>4. \A k \in Queue : (drv.pc = k) <=> (drv'.pc = k)
    BY <2>3, Names
  <2>5. Types'
    BY Zenon, <2>1, <2>2 DEF OwnerInv, Types
  <2> QED BY Zenon, <2>1, <2>2, <2>4, <2>5, RingsKept
<1>3. CASE Reset
  <2>1. /\ queues' = [k \in Queue |-> ClosedQueue] /\ pending' = << >> /\ intr' = FALSE
        /\ UNCHANGED <<rings, bufs, inj, drv, sent, got, work>>
    BY Zenon, <1>3 DEF Reset
  <2>2. queues' \in [Queue -> QueueType] /\ pending' \in Seq(Nat) /\ intr' \in BOOLEAN
    <3>1. ClosedQueue \in QueueType
      BY Sizes DEF QueueType, ClosedQueue, Idx
    <3>2. queues' \in [Queue -> QueueType]
      BY <2>1, <3>1
    <3>3. pending' \in Seq(Nat)
      BY <2>1
    <3> QED BY Zenon, <2>1, <3>2, <3>3
  <2>3. Types'
    BY Zenon, <2>1, <2>2 DEF OwnerInv, Types
  <2>4. \A k \in Queue : QueueInv(k)'
    BY Zenon, <2>1, ClosedKeeps
  <2> QED BY Zenon, <2>3, <2>4 DEF OwnerInv
<1>4. ASSUME NEW k \in Queue, QueueNotReady(k) PROVE OwnerInv'
  <2>1. /\ queues' = [queues EXCEPT ![k] = ClosedQueue]
        /\ UNCHANGED <<rings, bufs, pending, intr, inj, drv, sent, got, work>>
    BY Zenon, <1>4 DEF QueueNotReady, Close
  <2>2. /\ queues' \in [Queue -> QueueType] /\ queues'[k] = ClosedQueue
        /\ \A j \in Queue \ {k} : queues'[j] = queues[j]
    <3>1. queues \in [Queue -> QueueType] /\ ClosedQueue \in QueueType
      BY Sizes DEF OwnerInv, Types, QueueType, ClosedQueue, Idx
    <3> QED BY <2>1, <3>1
  <2>3. Types'
    BY Zenon, <2>1, <2>2 DEF OwnerInv, Types
  <2>4. ASSUME NEW j \in Queue PROVE QueueInv(j)'
    BY Zenon, <2>1, <2>2, ClosedKeeps, QueueSame DEF OwnerInv
  <2> QED BY Zenon, <2>3, <2>4 DEF OwnerInv
<1>5. ASSUME NEW k \in Queue, QueueReady(k) \/ Publish(k) \/ Reap(k) PROVE OwnerInv'
  BY Zenon, <1>5, ReadyKeeps, PublishKeeps, ReapKeeps
<1>6. CASE (\E kind \in AllTxKinds : PostTX(kind)) \/ (\E kind \in AllRxKinds : PostRX(kind))
  BY Zenon, <1>6, PostsKeep
<1>7. CASE InjectGuestFrame \/ PumpOne \/ PumpEnd
  BY Zenon, <1>7, InjectKeeps
<1>8. CASE UNCHANGED vars
  <2>1. Types'
    BY Zenon, <1>8 DEF vars, OwnerInv, Types
  <2> QED BY Zenon, <1>8, <2>1, RingsKept DEF vars
<1> QED
  BY Zenon, <1>1, <1>2, <1>3, <1>4, <1>5, <1>6, <1>7, <1>8 DEF Next, Driver

\* Nothing is ready at the start.
LEMMA OwnerInit == Init => OwnerInv
<1> SUFFICES ASSUME Init PROVE OwnerInv
  OBVIOUS
<1>1. queues = [k \in Queue |-> ClosedQueue] /\ queues \in [Queue -> QueueType]
  BY Sizes DEF Init, QueueType, ClosedQueue, Idx
<1>2. rings \in [Queue -> Ring]
  BY EmptyPartition DEF Init
<1>3. bufs \in [Queue -> [Desc -> BufType]]
  <2>1. Buffer("none", 0) \in BufType
    BY DEF Buffer, BufType
  <2> QED BY <2>1 DEF Init
<1>4. drv \in DrvType
  BY Sizes DEF Init, DrvType, Idx
<1>5. pending \in Seq(Nat) /\ sent \in Seq(Nat) /\ got \in Seq(Nat)
  BY DEF Init
<1>6. intr \in BOOLEAN /\ inj \in {"idle", "none", "delivered"} /\ work \in Workload
  BY Zenon, VirtioAssumption DEF Init
<1>7. ASSUME NEW k \in Queue PROVE QueueInv(k)
  BY <1>1 DEF QueueInv, InOrder, ClosedQueue
<1> QED
  BY Zenon, <1>1, <1>2, <1>3, <1>4, <1>5, <1>6, <1>7 DEF OwnerInv, Types

\* The descriptors in the window are those handed back, published or being posted.
LEMMA OwnersCover ==
    ASSUME OwnerInv, NEW k \in Queue, queues[k].ready
    PROVE  /\ Cardinality(drv.free[k]) + Cardinality(Posting(k)) + Avail(k) + Unseen(k) = QNum
           /\ drv.free[k] \cup Posting(k) \cup Published(k) \cup Returned(k) = Desc
<1> DEFINE r == rings[k]
           L == drv.lastUsed[k]
           F == drv.free[k]
           u == Unseen(k)
           a == Avail(k)
           p == Posts(k)
           n == InPlay(r, L, p)
<1>1. r \in Ring /\ L \in Idx /\ F \in SUBSET Desc /\ p \in 0..1
  BY Zenon, QueueTypes DEF OwnerInv
<1>2. /\ Partition(r, L, F, p) /\ u = Back(r, L) /\ a = Out(r) /\ u \in Nat /\ a \in Nat
      /\ \A i \in 1..u : UnseenAt(k, i) = Entry(r, L, i - 1) /\ UnseenAt(k, i) \in Desc
      /\ \A i \in 1..a : HeadAt(k, i) = Entry(r, L, u + (i - 1)) /\ HeadAt(k, i) \in Desc
  BY Zenon, QueueView
<1>3. n = u + a + p /\ n \in Nat
  BY <1>1, <1>2 DEF InPlay
<1>4. /\ Cardinality(F) + n = QNum
      /\ \A d \in Desc \ F : \E t \in 0..(n - 1) : Entry(r, L, t) = d
  <2>1. Cardinality(F) + n = QNum
    BY Zenon, <1>2 DEF Partition, Whole
  <2>2. ASSUME NEW d \in Desc \ F PROVE \E t \in 0..(n - 1) : Entry(r, L, t) = d
    <3>1. PICK t \in 0..(n - 1) : [s \in Nat |-> Entry(r, L, s)][t] = d
      BY Zenon, <1>2 DEF Partition, Whole
    <3>2. t \in Nat
      BY <1>3
    <3> QED BY Zenon, <3>1, <3>2
  <2> QED BY Zenon, <2>1, <2>2
<1>5. /\ Posting(k) \in SUBSET Desc /\ Cardinality(Posting(k)) = p
      /\ p = 1 => Entry(r, L, u + a) \in Posting(k)
  <2>1. r.availIdx % QNum = (L + (u + a)) % QNum
    BY Zenon, <1>1, <1>2, WindowSlots
  <2>2. ~(u + a < u)
    BY <1>2
  <2>3. Entry(r, L, u + a) = r.avail[r.availIdx % QNum]
    BY Zenon, <1>2, <2>1, <2>2 DEF Entry
  <2>4. u + a \in Nat
    BY <1>2
  <2>5. Entry(r, L, u + a) \in Desc
    BY Zenon, <1>1, <2>4, RingFacts
  <2> DEFINE x == Entry(r, L, u + a)
  <2> HIDE DEF x
  <2>6. Posting(k) = IF drv.pc = k THEN {x} ELSE {}
    BY Zenon, <2>3 DEF Posting, x
  <2>7. p = IF drv.pc = k THEN 1 ELSE 0
    BY DEF Posts
  <2>8. Cardinality({x}) = 1 /\ Cardinality({}) = 0
    BY Zenon, FS_Singleton, FS_EmptySet
  <2>9. x \in Desc
    BY <2>5 DEF x
  <2>10. Posting(k) \in SUBSET Desc /\ Cardinality(Posting(k)) = p /\ (p = 1 => x \in Posting(k))
    BY <2>6, <2>7, <2>8, <2>9
  <2> QED BY Zenon, <2>10 DEF x
<1>6. Cardinality(F) + Cardinality(Posting(k)) + a + u = QNum
  <2>1. Cardinality(F) \in Nat
    BY Zenon, <1>1, Descriptors
  <2> HIDE DEF n, u, a, p, F
  <2> QED BY <1>1, <1>2, <1>3, <1>4, <1>5, <2>1
<1>7. Published(k) \in SUBSET Desc /\ Returned(k) \in SUBSET Desc
  BY Zenon, <1>2 DEF Published, Returned
<1>8. ASSUME NEW d \in Desc PROVE d \in F \cup Posting(k) \cup Published(k) \cup Returned(k)
  <2>1. CASE d \in F
    BY Zenon, <2>1
  <2>2. CASE d \notin F
    <3>1. PICK t \in 0..(n - 1) : Entry(r, L, t) = d
      BY Zenon, <1>4, <2>2
    <3>2. t \in Nat /\ t < u + a + p
      BY <1>3
    <3>3. CASE t < u
      <4>1. t + 1 \in 1..u /\ (t + 1) - 1 = t
        BY SMTT(30), <1>2, <3>2, <3>3
      <4>2. UnseenAt(k, t + 1) = d
        BY <1>2, <3>1, <4>1
      <4> QED BY Zenon, <4>1, <4>2 DEF Returned
    <3>4. CASE u <= t /\ t < u + a
      <4> DEFINE i == (t - u) + 1
      <4>1. i \in 1..a /\ u + (i - 1) = t
        BY SMTT(30), <1>2, <3>2, <3>4
      <4> HIDE DEF i
      <4>2. HeadAt(k, i) = d
        BY <1>2, <3>1, <4>1
      <4> QED BY Zenon, <4>1, <4>2 DEF Published
    <3>5. CASE u + a <= t
      <4>1. p = 1 /\ t = u + a
        BY <1>1, <1>2, <3>2, <3>5
      <4> QED BY Zenon, <1>5, <3>1, <4>1
    <3> QED BY <1>2, <3>2, <3>3, <3>4, <3>5
  <2> QED BY Zenon, <2>1, <2>2
<1>9. F \cup Posting(k) \cup Published(k) \cup Returned(k) = Desc
  BY Zenon, <1>1, <1>5, <1>7, <1>8
<1> QED
  BY Zenon, <1>6, <1>9

\* The invariant is stronger than what the module promises.
LEMMA OwnersAre == OwnerInv => OneOwner
<1> SUFFICES ASSUME OwnerInv PROVE OneOwner
  OBVIOUS
<1>1. TypeOK
  <2>1. \A k \in Queue, d \in Desc :
          bufs[k][d] \in [kind : AllTxKinds \cup {"big", "short", "full", "none"}, frame : Nat]
    BY DEF OwnerInv, Types, BufType
  <2> QED BY Zenon, <2>1 DEF OwnerInv, Types, TypeOK, QueueType, Ring, DrvType
<1> QED
  BY Zenon, <1>1, OwnersCover DEF OneOwner

\* Every descriptor of a queue in use has one owner, through wrapping indices and
\* whatever the order of posting, consuming and handing back, for every ring
\* size: addUsedLocked never overwrites an entry the driver has not seen.
THEOREM AlwaysOneOwner == Spec => []OneOwner
BY OwnerInit, OwnerStep, OwnersAre, PTL DEF Spec

-----------------------------------------------------------------------------
(* Interrupts *)

\* A frame the driver has not seen is signalled, or the injection that delivered
\* it is still under way and will signal it.
SignalInv ==
    drv.pc # "reap" /\ queues["rx"].ready /\ Unseen("rx") > 0 => intr \/ inj = "delivered"

\* Steps that hand nothing back and take no signal away.
LEMMA SignalKept ==
    ASSUME SignalInv, rings'["rx"].usedIdx = rings["rx"].usedIdx,
           drv'.lastUsed["rx"] = drv.lastUsed["rx"],
           queues'["rx"].ready => queues["rx"].ready, drv'.pc # "reap" => drv.pc # "reap",
           intr => intr', inj = "delivered" => inj' = "delivered" \/ intr'
    PROVE  SignalInv'
<1>1. Unseen("rx")' = Unseen("rx")
  BY Zenon DEF Unseen
<1> QED
  BY Zenon, <1>1 DEF SignalInv

\* Every step of the device signals what it hands back.
LEMMA SignalStep == OwnerInv /\ SignalInv /\ [Next]_vars => SignalInv'
<1> SUFFICES ASSUME OwnerInv, SignalInv, [Next]_vars PROVE SignalInv'
  OBVIOUS
<1>1. /\ "rx" \in Queue /\ "tx" \in Queue /\ "tx" # "rx" /\ drv \in DrvType
      /\ queues \in [Queue -> QueueType] /\ rings \in [Queue -> Ring]
  BY DEF OwnerInv, Types, Queue
<1>2. CASE NotifyTX
  <2>1. drv'.lastUsed = drv.lastUsed /\ drv'.free = drv.free /\ drv'.pc = drv.pc /\ inj' = inj
    BY <1>1, <1>2 DEF NotifyTX, DrvType
  <2>2. CASE queues["tx"].ready
    <3>1. DrainTX
      BY Zenon, <1>2, <2>2 DEF NotifyTX
    <3>2. PICK n \in 0..Avail("tx") :
             /\ Consume("tx", n)
             /\ sent' = sent \o FramesOf(TxChains)[n]
             /\ intr' = (intr \/ (n = Avail("tx") /\ FramesOf(TxChains)[n] # << >>))
      BY Zenon, <2>2, <3>1, DrainCount
    <3>3. queues'["rx"] = queues["rx"] /\ rings'["rx"] = rings["rx"]
      BY Zenon, <1>1, <2>1, <2>2, <3>2, ConsumeKeeps
    <3> QED BY Zenon, <2>1, <3>2, <3>3, SignalKept
  <2>3. CASE ~queues["tx"].ready
    <3>1. UNCHANGED <<queues, rings, intr>>
      BY Zenon, <1>2, <2>3 DEF NotifyTX
    <3> QED BY Zenon, <2>1, <3>1, SignalKept
  <2> QED BY Zenon, <2>2, <2>3
<1>3. CASE NotifyRX
  <2>1. drv'.lastUsed = drv.lastUsed /\ drv'.free = drv.free /\ drv'.pc = drv.pc /\ inj' = inj
    BY <1>1, <1>3 DEF NotifyRX, DrvType
  <2>2. CASE queues["rx"].ready
    <3>1. PumpRX(Pumped) /\ intr' = (intr \/ Pumped > 0)
      BY Zenon, <1>3, <2>2 DEF NotifyRX
    <3>2. Pumped \in 0..Avail("rx") /\ Avail("rx") \in Nat
      BY Zenon, <1>1, <2>2, PumpCount, QueueView
    <3>3. CASE Pumped > 0
      BY Zenon, <3>1, <3>3 DEF SignalInv
    <3>4. CASE Pumped = 0
      <4>1. /\ queues'["rx"].ready /\ rings'["rx"] = Consumed(rings["rx"], 0)
        <5>1. Consume("rx", 0) /\ 0 \in 0..Avail("rx")
          BY Zenon, <3>1, <3>2, <3>4 DEF PumpRX
        <5> QED BY Zenon, <1>1, <2>1, <2>2, <5>1, ConsumeKeeps
      <4>2. rings'["rx"].usedIdx = rings["rx"].usedIdx
        <5> DEFINE r == rings["rx"]
        <5>1. r \in Ring /\ r.usedIdx \in Idx
          BY <1>1 DEF Ring
        <5>2. Consumed(r, 0).usedIdx = Plus(r.usedIdx, 0)
          BY <5>1 DEF Consumed, Ring
        <5>3. Plus(r.usedIdx, 0) = r.usedIdx
          <6>1. 0 \in 0..IdxMod /\ r.usedIdx + 0 = r.usedIdx /\ r.usedIdx < IdxMod
            BY <5>1, Sizes DEF Idx
          <6> QED BY <5>1, <6>1, PlusIs
        <5> QED BY Zenon, <4>1, <5>2, <5>3
      <4> QED BY Zenon, <2>1, <2>2, <3>1, <4>1, <4>2, SignalKept
    <3> QED BY <3>2, <3>3, <3>4
  <2>3. CASE ~queues["rx"].ready
    <3>1. UNCHANGED <<queues, rings, intr>>
      BY Zenon, <1>3, <2>3 DEF NotifyRX
    <3> QED BY Zenon, <2>1, <3>1, SignalKept
  <2> QED BY Zenon, <2>2, <2>3
<1>4. CASE InterruptACK \/ \E k \in Queue : Reap(k)
  <2>1. drv'.pc = "reap"
    <3>1. CASE InterruptACK
      BY Zenon, <1>1, <3>1 DEF InterruptACK, DrvType
    <3>2. CASE \E k \in Queue : Reap(k)
      BY Zenon, <1>1, <3>2 DEF Reap, DrvType
    <3> QED BY <1>4, <3>1, <3>2
  <2> QED BY Zenon, <2>1 DEF SignalInv
<1>5. CASE ReapDone
  <2>1. /\ queues["rx"].ready => drv.lastUsed["rx"] = rings["rx"].usedIdx
        /\ drv'.lastUsed = drv.lastUsed /\ UNCHANGED <<queues, rings>>
    BY <1>1, <1>5 DEF ReapDone, DrvType
  <2>2. queues["rx"].ready => Unseen("rx")' = 0
    <3>1. rings["rx"].usedIdx \in Idx /\ 0 \in Nat
      BY <1>1 DEF Ring
    <3>2. Ahead(rings["rx"].usedIdx, rings["rx"].usedIdx) = 0
      BY Zenon, <3>1, Distances
    <3> QED BY Zenon, <2>1, <3>2 DEF Unseen
  <2>3. ~(0 > 0)
    OBVIOUS
  <2> QED BY Zenon, <2>1, <2>2, <2>3 DEF SignalInv
<1>6. CASE Reset \/ QueueNotReady("rx")
  <2>1. ~queues'["rx"].ready
    <3>1. ~ClosedQueue.ready
      BY DEF ClosedQueue
    <3>2. queues'["rx"] = ClosedQueue
      BY Zenon, <1>1, <1>6 DEF Reset, QueueNotReady, Close
    <3> QED BY Zenon, <3>1, <3>2
  <2> QED BY Zenon, <2>1 DEF SignalInv
<1>7. CASE QueueNotReady("tx")
  <2>1. queues'["rx"] = queues["rx"] /\ UNCHANGED <<rings, drv, intr, inj>>
    BY Zenon, <1>1, <1>7 DEF QueueNotReady, Close
  <2> QED BY Zenon, <2>1, SignalKept
<1>8. CASE QueueReady("rx")
  <2>1. rings'["rx"] = EmptyRing /\ drv'.lastUsed["rx"] = 0
    BY <1>1, <1>8 DEF QueueReady, DrvType
  <2>2. Unseen("rx")' = 0
    <3>1. 0 \in Idx /\ 0 \in Nat
      BY Sizes DEF Idx
    <3>2. Ahead(0, 0) = 0
      BY Zenon, <3>1, Distances
    <3>3. EmptyRing.usedIdx = 0
      BY DEF EmptyRing
    <3> QED BY Zenon, <2>1, <3>2, <3>3 DEF Unseen
  <2>3. ~(0 > 0)
    OBVIOUS
  <2> QED BY Zenon, <2>2, <2>3 DEF SignalInv
<1>9. CASE QueueReady("tx")
  <2>1. /\ queues'["rx"] = queues["rx"] /\ rings'["rx"] = rings["rx"] /\ UNCHANGED <<intr, inj>>
        /\ drv'.lastUsed["rx"] = drv.lastUsed["rx"] /\ drv'.pc = drv.pc
    BY <1>1, <1>9 DEF QueueReady, DrvType
  <2> QED BY Zenon, <2>1, SignalKept
<1>10. ASSUME NEW k \in Queue, Publish(k) PROVE SignalInv'
  <2>1. /\ drv.pc = k /\ drv'.lastUsed = drv.lastUsed /\ UNCHANGED <<queues, intr, inj>>
        /\ rings' = [rings EXCEPT ![k].availIdx = Plus(@, 1)]
    BY <1>1, <1>10 DEF Publish, DrvType
  <2>2. rings'["rx"].usedIdx = rings["rx"].usedIdx
    BY <1>1, <2>1 DEF Ring
  <2>3. drv.pc # "reap"
    BY Zenon, <2>1, Names
  <2> QED BY Zenon, <2>1, <2>2, <2>3, SignalKept
<1>11. ASSUME NEW k \in Queue, NEW b, PostBuffer(k, b) PROVE SignalInv'
  <2>1. PICK d : /\ rings' = [rings EXCEPT ![k].avail[rings[k].availIdx % QNum] = d]
                 /\ drv' = [drv EXCEPT !.free[k] = @ \ {d}, !.pc = k]
    BY Zenon, <1>11 DEF PostBuffer
  <2>2. drv.pc # "reap" /\ UNCHANGED <<queues, intr, inj>>
    BY <1>11 DEF PostBuffer
  <2>3. rings'["rx"].usedIdx = rings["rx"].usedIdx /\ drv'.lastUsed = drv.lastUsed
    BY <1>1, <2>1 DEF Ring, DrvType
  <2> QED BY Zenon, <2>2, <2>3, SignalKept
<1>12. CASE (\E kind \in AllTxKinds : PostTX(kind)) \/ (\E kind \in AllRxKinds : PostRX(kind))
  BY Zenon, <1>1, <1>11, <1>12 DEF PostTX, PostRX
<1>13. CASE InjectGuestFrame
  <2>1. inj # "delivered" /\ UNCHANGED <<queues, rings, drv, intr>>
    BY <1>13 DEF InjectGuestFrame
  <2> QED BY Zenon, <2>1, SignalKept
<1>14. CASE PumpOne
  BY Zenon, <1>14 DEF PumpOne, SignalInv
<1>15. CASE PumpEnd
  <2>1. intr' = (intr \/ inj = "delivered") /\ UNCHANGED <<queues, rings, drv>>
    BY Zenon, <1>15 DEF PumpEnd
  <2> QED BY Zenon, <2>1, SignalKept
<1>16. CASE UNCHANGED vars
  BY Zenon, <1>16, SignalKept DEF vars
<1>17. ASSUME NEW k \in Queue PROVE k = "rx" \/ k = "tx"
  BY DEF Queue
<1> QED
  BY Zenon, <1>2, <1>3, <1>4, <1>5, <1>6, <1>7, <1>8, <1>9, <1>10, <1>12, <1>13, <1>14, <1>15,
     <1>16, <1>17 DEF Next, Driver

\* A driver that serves its interrupts sees every received frame: no order of
\* injecting, posting and acknowledging leaves a filled buffer unseen without the
\* interrupt, whatever the size of the rings.
THEOREM ReceiveAlwaysSignalled == Spec => []ReceiveSignalled
<1>1. Init => SignalInv
  <2>1. Init => ~queues["rx"].ready
    BY DEF Init, ClosedQueue, Queue
  <2> QED BY Zenon, <2>1 DEF SignalInv
<1>2. SignalInv => ReceiveSignalled
  <2>1. "idle" # "delivered"
    OBVIOUS
  <2> QED BY Zenon, <2>1 DEF SignalInv, ReceiveSignalled
<1> QED
  BY OwnerInit, OwnerStep, SignalStep, <1>1, <1>2, PTL DEF Spec

================================================================================
