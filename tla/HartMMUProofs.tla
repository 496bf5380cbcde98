----------------------------- MODULE HartMMUProofs -----------------------------
(***************************************************************************)
(* The software TLBs never show the guest anything a walk would not, for   *)
(* every number of levels, entries per table and entries per TLB, every    *)
(* set of page tables and every guest.                                     *)
(***************************************************************************)
EXTENDS HartMMU, TLAPS, WellFoundedInduction, NaturalsInduction

(* Arithmetic of the radix tree. *)

\* A set of numbers has a least one.
LEMMA LeastNumber ==
    ASSUME NEW T \in SUBSET Nat, T # {}
    PROVE  \E x \in T : \A y \in T : x <= y
<1>1. PICK x \in T : \A y \in T : ~ (<<y, x>> \in OpToRel(<, Nat))
  BY Zenon, WFMin, NatLessThanWellFounded
<1>2. \A y \in T : ~(y < x)
  BY Zenon, <1>1 DEF OpToRel
<1> QED
  BY <1>2

\* Induction on the numbers of an interval, up and down.
LEMMA UpTo ==
    ASSUME NEW a \in Nat, NEW b \in Nat, NEW G,
           a \in G, \A n \in a..(b - 1) : n \in G => n + 1 \in G
    PROVE  \A n \in a..b : n \in G
<1> DEFINE T == {n \in a..b : n \notin G}
<1>1. T \in SUBSET Nat
  OBVIOUS
<1>2. ASSUME T # {} PROVE FALSE
  <2>1. PICK n \in T : \A m \in T : n <= m
    <3> HIDE DEF T
    <3> QED BY <1>1, <1>2, LeastNumber
  <2>2. n - 1 \in a..(b - 1) /\ (n - 1) + 1 = n /\ n - 1 \in a..b
    OBVIOUS
  <2> QED BY <2>1, <2>2
<1> QED
  BY <1>2

\* Induction downwards over an interval.
LEMMA DownTo ==
    ASSUME NEW b \in Nat, NEW G, b \in G,
           \A n \in 0..(b - 1) : n + 1 \in G => n \in G
    PROVE  \A n \in 0..b : n \in G
<1> DEFINE U == {n \in Nat : b - n \in G}
<1>1. 0 \in U
  OBVIOUS
<1>2. \A n \in 0..(b - 1) : n \in U => n + 1 \in U
  <2>1. ASSUME NEW n \in 0..(b - 1), n \in U PROVE n + 1 \in U
    <3>1. b - (n + 1) \in 0..(b - 1) /\ (b - (n + 1)) + 1 = b - n /\ b - n \in G
      BY <2>1
    <3> QED BY <3>1
  <2> QED BY <2>1
<1>3. \A n \in 0..b : n \in U
  <2> HIDE DEF U
  <2> QED BY <1>1, <1>2, UpTo
<1>4. ASSUME NEW n \in 0..b PROVE n \in G
  <2>1. b - n \in 0..b /\ b - (b - n) = n
    OBVIOUS
  <2> QED BY <1>3, <2>1
<1> QED
  BY <1>4

\* Quotient and remainder.
LEMMA DivMod ==
    ASSUME NEW a \in Nat, NEW b \in Nat \ {0}
    PROVE  /\ a \div b \in Nat /\ a % b \in Nat /\ a % b < b
           /\ a = b * (a \div b) + (a % b)
OBVIOUS

\* They are the only ones.
LEMMA DivUnique ==
    ASSUME NEW b \in Nat \ {0}, NEW q \in Nat, NEW r \in Nat, r < b,
           NEW x \in Nat, NEW y \in Nat, y < b, b * q + r = b * x + y
    PROVE  x = q
<1>1. \A m, n \in Nat : m < n => b * m + b <= b * n
  <2>1. ASSUME NEW m \in Nat, NEW n \in Nat, m < n PROVE b * m + b <= b * n
    <3>1. PICK k \in Nat : n = m + 1 + k
      BY <2>1
    <3>2. b * n = b * m + b + b * k /\ b * k \in Nat
      BY <3>1
    <3> QED BY <3>2
  <2> QED BY <2>1
<1>2. b * x \in Nat /\ b * q \in Nat
  OBVIOUS
<1>3. ~(x < q)
  BY <1>1, <1>2
<1>4. ~(q < x)
  BY <1>1, <1>2
<1> QED
  BY <1>3, <1>4

\* Dividing by a product is dividing twice.
LEMMA DivDiv ==
    ASSUME NEW a \in Nat, NEW b \in Nat \ {0}, NEW c \in Nat \ {0}
    PROVE  a \div (c * b) = (a \div b) \div c
<1> DEFINE q == a \div b
           r == a % b
           x == q \div c
           y == q % c
           d == c * b
<1>1. q \in Nat /\ r \in Nat /\ r < b /\ a = b * q + r
  BY DivMod
<1>2. x \in Nat /\ y \in Nat /\ y < c /\ q = c * x + y
  BY Zenon, <1>1, DivMod
<1>3. d \in Nat \ {0}
  OBVIOUS
<1>4. a \div d \in Nat /\ a % d \in Nat /\ a % d < d /\ a = d * (a \div d) + (a % d)
  BY Zenon, <1>3, DivMod
<1> DEFINE u == a \div d
           v == a % d
<1> HIDE DEF q, r, x, y, u, v
<1>5. b * y + r \in Nat /\ b * y + r < d
  <2>1. PICK k \in Nat : c = y + 1 + k
    BY <1>2
  <2>2. d = b * y + b + b * k /\ b * k \in Nat /\ b * y \in Nat
    BY <1>2, <2>1
  <2> HIDE DEF d
  <2> QED BY <1>1, <2>2
<1>6. a = d * x + (b * y + r)
  <2>1. b * q = b * (c * x) + b * y
    BY <1>2
  <2>2. b * (c * x) = d * x
    BY <1>2
  <2>3. b * y \in Nat /\ d * x \in Nat
    BY <1>2, <1>3
  <2> HIDE DEF d
  <2> QED BY <1>1, <2>1, <2>2, <2>3
<1>7. a = d * u + v /\ u \in Nat /\ v \in Nat /\ v < d
  BY <1>4 DEF u, v
<1> HIDE DEF d
<1>8. u = x
  <2> DEFINE w == b * y + r
  <2>1. w \in Nat /\ w < d /\ d * x + w = d * u + v
    BY <1>5, <1>6, <1>7
  <2> HIDE DEF w
  <2> QED BY <1>2, <1>3, <1>7, <2>1, DivUnique
<1> QED
  BY <1>8 DEF u, x, q, d

\* Addresses of one aligned block have one quotient.
LEMMA SameBlock ==
    ASSUME NEW a \in Nat, NEW c \in Nat, NEW b \in Nat \ {0},
           AlignDown(a, b) = AlignDown(c, b)
    PROVE  a \div b = c \div b
<1>1. /\ a \div b \in Nat /\ a % b \in Nat /\ a % b < b /\ a = b * (a \div b) + (a % b)
      /\ c \div b \in Nat /\ c % b \in Nat /\ c % b < b /\ c = b * (c \div b) + (c % b)
  BY DivMod
<1> DEFINE x == a \div b
           y == c \div b
<1>2. b * x + 0 = b * y + 0 /\ x \in Nat /\ y \in Nat
  BY <1>1 DEF AlignDown
<1> HIDE DEF x, y
<1>3. x = y
  BY <1>2, DivUnique
<1> QED
  BY <1>3 DEF x, y

(* The walk. *)

\* The shape of the page table.
LEMMA LevelsFacts == Levels \in Nat \ {0} /\ Fan \in Nat \ {0}
BY MMUAssumption

\* The recursion that defines SpanOf has a solution.
LEMMA SpanOfDef ==
    SpanOf = [level \in 0..Levels |-> IF level = 0 THEN 1 ELSE Fan * SpanOf[level - 1]]
<1> DEFINE Is(g, n) == g = [level \in 0..n |-> IF level = 0 THEN 1 ELSE Fan * g[level - 1]]
           T == {n \in Nat : ~\E g : Is(g, n)}
<1>1. T = {}
  <2> SUFFICES ASSUME T # {} PROVE FALSE
    OBVIOUS
  <2>1. PICK n \in T : \A m \in T : n <= m
    <3>1. T \in SUBSET Nat
      OBVIOUS
    <3> HIDE DEF T
    <3> QED BY <3>1, LeastNumber
  <2>2. n # 0
    <3>1. Is([level \in 0..0 |-> 1], 0)
      OBVIOUS
    <3> QED BY Zenon, <3>1
  <2>3. n - 1 \in Nat /\ n - 1 \notin T
    <3>1. T \in SUBSET Nat
      OBVIOUS
    <3> HIDE DEF T
    <3> QED BY <2>1, <2>2, <3>1
  <2>4. PICK g : Is(g, n - 1)
    BY <2>3
  <2> DEFINE h == [level \in 0..n |-> IF level = n THEN Fan * g[n - 1] ELSE g[level]]
  <2>5. \A level \in 0..n : h[level] = IF level = 0 THEN 1 ELSE Fan * h[level - 1]
    <3> TAKE level \in 0..n
    <3>1. CASE level = 0
      BY <2>2, <2>3, <2>4, <3>1
    <3>2. CASE level # 0
      <4>1. level - 1 \in 0..(n - 1) /\ h[level - 1] = g[level - 1]
        BY <3>2
      <4>2. CASE level = n
        BY <3>2, <4>1, <4>2
      <4>3. CASE level # n
        <5>1. level \in 0..(n - 1) /\ h[level] = g[level]
          BY <4>3
        <5>2. g[level] = Fan * g[level - 1]
          BY <2>3, <2>4, <3>2, <5>1
        <5> QED BY <3>2, <4>1, <5>1, <5>2
      <4> QED BY <4>2, <4>3
    <3> QED BY <3>1, <3>2
  <2>6. Is(h, n)
    BY <2>5
  <2> QED BY Zenon, <2>1, <2>6
<1>2. Levels \in Nat
  BY LevelsFacts
<1>3. PICK g : Is(g, Levels)
  BY Zenon, <1>1, <1>2
<1> QED
  BY Zenon, <1>3 DEF SpanOf

\* Every span is a positive number of pages, Fan times the one below.
LEMMA SpanOfFacts ==
    /\ \A l \in 0..Levels : SpanOf[l] \in Nat \ {0}
    /\ \A l \in 0..(Levels - 1) : SpanOf[l + 1] = Fan * SpanOf[l]
<1> USE LevelsFacts
<1>1. SpanOf[0] = 1 /\ \A l \in 0..(Levels - 1) : SpanOf[l + 1] = Fan * SpanOf[l]
  <2>1. \A l \in 0..Levels : SpanOf[l] = IF l = 0 THEN 1 ELSE Fan * SpanOf[l - 1]
    BY SpanOfDef
  <2>2. \A l \in 0..(Levels - 1) : l + 1 \in 0..Levels /\ l + 1 # 0 /\ (l + 1) - 1 = l
    OBVIOUS
  <2>3. 0 \in 0..Levels
    OBVIOUS
  <2> QED BY <2>1, <2>2, <2>3
<1> DEFINE G == {l \in Nat : SpanOf[l] \in Nat \ {0}}
<1>2. 0 \in G
  BY <1>1
<1>3. \A n \in 0..(Levels - 1) : n \in G => n + 1 \in G
  <2>1. \A x, y \in Nat \ {0} : x * y \in Nat \ {0}
    OBVIOUS
  <2> QED BY <1>1, <2>1
<1>4. \A n \in 0..Levels : n \in G
  <2> HIDE DEF G
  <2> QED BY <1>2, <1>3, UpTo
<1> QED
  BY <1>1, <1>4

\* Addresses that agree down to level l agree at every level above.
LEMMA SameAbove ==
    ASSUME NEW a \in Nat, NEW c \in Nat, NEW l \in 0..Levels,
           a \div SpanOf[l] = c \div SpanOf[l]
    PROVE  \A h \in l..Levels : a \div SpanOf[h] = c \div SpanOf[h]
<1> USE LevelsFacts
<1> DEFINE G == {h \in Nat : a \div SpanOf[h] = c \div SpanOf[h]}
<1>1. \A n \in l..(Levels - 1) : n \in G => n + 1 \in G
  <2>1. ASSUME NEW n \in l..(Levels - 1), n \in G PROVE n + 1 \in G
    <3> DEFINE s == SpanOf[n]
    <3>1. SpanOf[n + 1] = Fan * s /\ s \in Nat \ {0} /\ a \div s = c \div s
      BY <2>1, SpanOfFacts
    <3>2. Fan \in Nat \ {0}
      OBVIOUS
    <3> HIDE DEF s
    <3>3. a \div (Fan * s) = (a \div s) \div Fan
      BY Zenon, <3>1, <3>2, DivDiv
    <3>4. c \div (Fan * s) = (c \div s) \div Fan
      BY Zenon, <3>1, <3>2, DivDiv
    <3> QED BY <3>1, <3>3, <3>4
  <2> QED BY <2>1
<1>2. l \in G /\ l \in Nat /\ Levels \in Nat
  OBVIOUS
<1>3. \A n \in l..Levels : n \in G
  <2> HIDE DEF G
  <2> QED BY <1>1, <1>2, UpTo
<1> QED
  BY <1>3

\* And have the same indices there, and are canonical together.
LEMMA SameIndices ==
    ASSUME NEW a \in Nat, NEW c \in Nat, NEW l \in 0..(Levels - 1),
           AlignDown(a, SpanOf[l]) = AlignDown(c, SpanOf[l])
    PROVE  /\ \A h \in l..(Levels - 1) : Index(a, h) = Index(c, h)
           /\ CanonicalVA(a) <=> CanonicalVA(c)
<1> USE LevelsFacts
<1>1. SpanOf[l] \in Nat \ {0} /\ SpanOf[Levels] \in Nat \ {0}
  BY SpanOfFacts
<1>2. a \div SpanOf[l] = c \div SpanOf[l]
  BY <1>1, SameBlock
<1>3. \A h \in l..Levels : a \div SpanOf[h] = c \div SpanOf[h]
  BY <1>2, SameAbove
<1>4. Levels \in l..Levels /\ Levels - 1 \in l..Levels
  OBVIOUS
<1>5. CanonicalVA(a) <=> CanonicalVA(c)
  BY Zenon, <1>3, <1>4 DEF CanonicalVA, Index
<1> QED
  BY <1>3, <1>5 DEF Index

\* The table below a table on the walk's path.
Below(p, table, va, l) ==
    IF table = NoTable THEN NoTable
    ELSE LET e == p[table, Index(va, l + 1)]
         IN  IF IsPointer(e) /\ e.ppn \in Tables THEN e.ppn ELSE NoTable

\* The recursion that defines Path has a solution.
LEMMA PathDef ==
    ASSUME NEW p, NEW root, NEW va
    PROVE  /\ Path(p, root, va) = [l \in 0..(Levels - 1) |-> Path(p, root, va)[l]]
           /\ Path(p, root, va)[Levels - 1] = root
           /\ \A l \in 0..(Levels - 2) :
                Path(p, root, va)[l] = Below(p, Path(p, root, va)[l + 1], va, l)
<1> USE LevelsFacts
<1> DEFINE top == Levels - 1
           Is(g, n) == g = [l \in n..top |-> IF l = top THEN root ELSE Below(p, g[l + 1], va, l)]
           G == {n \in Nat : \E g : Is(g, n)}
<1>1. top \in G
  <2>1. Is([l \in top..top |-> root], top) /\ top \in Nat
    OBVIOUS
  <2> HIDE DEF Is, top
  <2> QED BY Zenon, <2>1
<1>2. \A n \in 0..(top - 1) : n + 1 \in G => n \in G
  <2>1. ASSUME NEW n \in 0..(top - 1), n + 1 \in G PROVE n \in G
    <3>1. PICK g : Is(g, n + 1)
      BY <2>1
    <3> DEFINE h == [l \in n..top |-> IF l = n THEN Below(p, g[n + 1], va, n) ELSE g[l]]
    <3>2. ASSUME NEW l \in n..top
          PROVE  h[l] = IF l = top THEN root ELSE Below(p, h[l + 1], va, l)
      <4>1. CASE l = n
        <5>1. l # top /\ l + 1 \in n..top /\ l + 1 # n
          BY <4>1
        <5>2. h[l] = Below(p, g[l + 1], va, l) /\ h[l + 1] = g[l + 1]
          BY <4>1, <5>1
        <5> QED BY <5>1, <5>2
      <4>2. CASE l # n
        <5>1. l \in (n + 1)..top /\ h[l] = g[l]
          BY <4>2
        <5>2. g[l] = IF l = top THEN root ELSE Below(p, g[l + 1], va, l)
          BY Zenon, <3>1, <5>1
        <5>3. l # top => h[l + 1] = g[l + 1]
          BY <5>1
        <5> QED BY <5>1, <5>2, <5>3
      <4> QED BY <4>1, <4>2
    <3>3. Is(h, n) /\ n \in Nat
      <4>1. n \in Nat
        OBVIOUS
      <4> QED BY Zenon, <3>2, <4>1
    <3> HIDE DEF Is, h
    <3> QED BY Zenon, <3>3
  <2> QED BY <2>1
<1>3. 0 \in G
  <2>1. top \in Nat /\ 0 \in 0..top
    OBVIOUS
  <2> HIDE DEF G, top
  <2> QED BY <1>1, <1>2, <2>1, DownTo
<1>4. PICK g : Is(g, 0)
  BY <1>3
<1> DEFINE path == Path(p, root, va)
<1>5. Is(path, 0)
  BY Zenon, <1>4 DEF Path, Below
<1>6. top - 1 = Levels - 2 /\ 0 \in 0..top /\ top \in 0..top
  OBVIOUS
<1> HIDE DEF path
<1>7. /\ path = [l \in 0..top |-> path[l]]
      /\ \A l \in 0..top : path[l] = IF l = top THEN root ELSE Below(p, path[l + 1], va, l)
  BY Zenon, <1>5
<1>8. \A l \in 0..(top - 1) : l \in 0..top /\ l # top
  OBVIOUS
<1> QED
  BY Zenon, <1>6, <1>7, <1>8 DEF path

\* Every table on the path is a page of Tables.
LEMMA PathType ==
    ASSUME NEW p, NEW root \in Tables, NEW va
    PROVE  Path(p, root, va) \in [0..(Levels - 1) -> Tables \cup {NoTable}]
<1> USE LevelsFacts
<1> DEFINE path == Path(p, root, va)
           top == Levels - 1
<1>1. /\ path = [l \in 0..top |-> path[l]] /\ path[top] = root
      /\ \A l \in 0..(Levels - 2) : path[l] = Below(p, path[l + 1], va, l)
  BY PathDef
<1> HIDE DEF path
<1>2. ASSUME NEW l \in 0..top PROVE path[l] \in Tables \cup {NoTable}
  <2>1. CASE l = top
    BY <1>1, <2>1
  <2>2. CASE l # top
    <3>1. l \in 0..(Levels - 2)
      BY <2>2
    <3>2. path[l] = Below(p, path[l + 1], va, l)
      BY Zenon, <1>1, <3>1
    <3> QED BY Zenon, <3>2 DEF Below
  <2> QED BY <2>1, <2>2
<1> QED
  BY <1>1, <1>2 DEF path

\* The walk ends at a table: the lowest one on its path.
LEMMA LastLevelFacts ==
    ASSUME NEW p, NEW root \in Tables, NEW va,
           NEW path, path = Path(p, root, va), NEW l, l = LastLevel(path)
    PROVE  /\ l \in 0..(Levels - 1) /\ path[l] \in Tables
           /\ \A h \in 0..(l - 1) : path[h] = NoTable
<1> USE LevelsFacts
<1> DEFINE T == {h \in 0..(Levels - 1) : path[h] # NoTable}
<1>1. path \in [0..(Levels - 1) -> Tables \cup {NoTable}]
  BY PathType
<1>2. Levels - 1 \in T
  <2>1. path[Levels - 1] = root /\ root # NoTable /\ Levels - 1 \in 0..(Levels - 1)
    BY PathDef, MMUAssumption DEF NoTable
  <2> QED BY <2>1
<1>3. PICK x \in T : \A y \in T : x <= y
  <2>1. T \in SUBSET Nat
    OBVIOUS
  <2> HIDE DEF T
  <2> QED BY <1>2, <2>1, LeastNumber
<1>4. /\ x \in 0..(Levels - 1) /\ path[x] # NoTable
      /\ \A h \in 0..(x - 1) : path[h] = NoTable
  <2>1. \A h \in 0..(x - 1) : h \in 0..(Levels - 1) /\ ~(x <= h)
    OBVIOUS
  <2> QED BY <1>3, <2>1
<1>5. /\ l \in 0..(Levels - 1) /\ path[l] # NoTable
      /\ \A h \in 0..(l - 1) : path[h] = NoTable
  BY Zenon, <1>4 DEF LastLevel
<1> QED
  BY <1>1, <1>5

\* An address has the translation of its aligned block: what one walk found, a
\* walk for any other address with the same tag finds, at the same entry.
LEMMA SameTranslation ==
    ASSUME NEW p, NEW root \in Tables, NEW a \in Nat, NEW c \in Nat,
           Translate(p, root, a).valid,
           AlignDown(c, Translate(p, root, a).span) = Translate(p, root, a).tag
    PROVE  /\ Translate(p, root, c) = Translate(p, root, a)
           /\ LeafSlot(p, root, c) = LeafSlot(p, root, a)
<1> USE LevelsFacts
<1> DEFINE t == Translate(p, root, a)
           path == Path(p, root, a)
           other == Path(p, root, c)
           l == LastLevel(path)
           slot == LeafSlot(p, root, a)
           e == p[slot]
<1>1. path = Path(p, root, a) /\ other = Path(p, root, c) /\ l = LastLevel(path)
  OBVIOUS
<1>2. slot = <<path[l], Index(a, l)>> /\ LeafSlot(p, root, c) = <<other[LastLevel(other)], Index(c, LastLevel(other))>>
  BY DEF LeafSlot
<1>3. /\ CanonicalVA(a) /\ e.v /\ e.perms \cap {"R", "X"} # {}
      /\ "W" \in e.perms => "R" \in e.perms
      /\ e.ppn % SpanOf[l] = 0
      /\ t = [valid |-> TRUE, tag |-> AlignDown(a, SpanOf[l]), span |-> SpanOf[l],
              base |-> e.ppn, perms |-> e.perms]
  BY DEF Translate, NoEntry
<1> HIDE DEF path, other, l, slot, e
<1>4. /\ l \in 0..(Levels - 1)
      /\ \A h \in 0..(l - 1) : path[h] = NoTable
  BY <1>1, LastLevelFacts
<1>5. /\ \A h \in l..(Levels - 1) : Index(a, h) = Index(c, h)
      /\ CanonicalVA(c)
      /\ AlignDown(c, SpanOf[l]) = AlignDown(a, SpanOf[l])
  <2>1. AlignDown(a, SpanOf[l]) = AlignDown(c, SpanOf[l])
    BY <1>3
  <2> QED BY <1>3, <1>4, <2>1, SameIndices
<1>6. other = path
  <2> DEFINE top == Levels - 1
             G == {h \in Nat : other[h] = path[h]}
  <2>1. /\ path = [h \in 0..top |-> path[h]] /\ path[top] = root
        /\ \A h \in 0..(Levels - 2) : path[h] = Below(p, path[h + 1], a, h)
    BY <1>1, PathDef
  <2>2. /\ other = [h \in 0..top |-> other[h]] /\ other[top] = root
        /\ \A h \in 0..(Levels - 2) : other[h] = Below(p, other[h + 1], c, h)
    BY <1>1, PathDef
  <2>3. top \in G /\ top \in Nat
    BY <2>1, <2>2
  <2>4. ASSUME NEW h \in 0..(top - 1), h + 1 \in G PROVE h \in G
    <3>1. /\ path[h] = Below(p, path[h + 1], a, h) /\ other[h] = Below(p, path[h + 1], c, h)
      <4>1. h \in 0..(Levels - 2)
        OBVIOUS
      <4>2. other[h + 1] = path[h + 1]
        BY <2>4
      <4> QED BY Zenon, <2>1, <2>2, <4>1, <4>2
    <3>2. CASE h + 1 < l
      <4>1. path[h + 1] = NoTable
        BY <1>4, <3>2
      <4> QED BY <3>1, <4>1 DEF Below
    <3>3. CASE ~(h + 1 < l)
      <4>1. Index(a, h + 1) = Index(c, h + 1)
        BY <1>4, <1>5, <3>3
      <4>2. other[h] = path[h]
        BY Zenon, <3>1, <4>1 DEF Below
      <4> QED BY <4>2
    <3> QED BY <3>2, <3>3
  <2>5. \A h \in 0..top : h \in G
    <3> HIDE DEF G, top
    <3> QED BY <2>3, <2>4, DownTo
  <2> QED BY <2>1, <2>2, <2>5
<1>7. LeafSlot(p, root, c) = slot
  BY <1>1, <1>2, <1>4, <1>5, <1>6
<1>8. Translate(p, root, c) = t
  <2> HIDE DEF t
  <2> QED BY Zenon, <1>1, <1>3, <1>5, <1>6, <1>7 DEF Translate, e, other
<1> QED
  BY <1>7, <1>8 DEF slot

\* What a walk finds has its type, and the tag of the address it was for.
LEMMA TranslateType ==
    ASSUME NEW p \in [SlotSet -> PTEType], NEW root \in Tables, NEW va \in Nat,
           NEW t, t = Translate(p, root, va)
    PROVE  /\ LeafSlot(p, root, va) \in SlotSet
           /\ t \in EntryType \cup {NoEntry}
           /\ t.valid => t \in EntryType /\ AlignDown(va, t.span) = t.tag
<1> USE LevelsFacts
<1> DEFINE path == Path(p, root, va)
           l == LastLevel(path)
           slot == LeafSlot(p, root, va)
           e == p[slot]
           s == SpanOf[l]
<1>1. path = Path(p, root, va) /\ l = LastLevel(path) /\ slot = <<path[l], Index(va, l)>>
  BY DEF LeafSlot
<1>2. \/ t = NoEntry
      \/ t = [valid |-> TRUE, tag |-> AlignDown(va, s), span |-> s, base |-> e.ppn, perms |-> e.perms]
  BY DEF Translate
<1> HIDE DEF path, l, slot, e
<1>3. l \in 0..(Levels - 1) /\ path[l] \in Tables
  BY <1>1, LastLevelFacts
<1>4. s \in Nat \ {0}
  BY <1>3, SpanOfFacts
<1> HIDE DEF s
<1>5. AlignDown(va, s) \in Nat
  <2>1. va % s \in Nat /\ va \div s \in Nat /\ va = s * (va \div s) + (va % s)
    BY <1>4, DivMod
  <2>2. s * (va \div s) \in Nat
    BY <1>4, <2>1
  <2> QED BY <2>1, <2>2 DEF AlignDown
<1>6. Index(va, l) \in 0..(Fan - 1)
  <2>1. va \div s \in Nat
    BY <1>4, DivMod
  <2>2. (va \div s) % Fan \in 0..(Fan - 1)
    BY <2>1
  <2> QED BY <2>2 DEF Index, s
<1>7. slot \in SlotSet
  BY <1>1, <1>3, <1>6 DEF SlotSet
<1>8. e.ppn \in Nat /\ e.perms \in SUBSET Rights
  BY <1>7 DEF PTEType, e
<1>9. CASE t = NoEntry
  BY <1>7, <1>9 DEF NoEntry, slot
<1>10. CASE t = [valid |-> TRUE, tag |-> AlignDown(va, s), span |-> s,
                base |-> e.ppn, perms |-> e.perms]
  <2>1. t \in EntryType /\ t.span = s /\ t.tag = AlignDown(va, s)
    BY <1>4, <1>5, <1>8, <1>10 DEF EntryType
  <2> QED BY <1>7, <2>1 DEF slot
<1> QED
  BY <1>2, <1>9, <1>10

(* The invariant. *)

\* The bits a walk of this kind has set.
Marks(kind) == IF kind = "store" THEN {"A", "D"} ELSE {"A"}

\* An entry says what the tables say of every address it matches.
Faithful(kind, e) ==
    /\ satp # Bare
    /\ \A va \in Nat : AlignDown(va, e.span) = e.tag =>
         /\ Translate(pte, satp, va) = e
         /\ Marks(kind) \subseteq ad[LeafSlot(pte, satp, va)]

FaithfulTLB ==
    edited = {} => \A kind \in Kinds, i \in 0..(TLBSize - 1) :
                     tlb[kind][i].valid => Faithful(kind, tlb[kind][i])

\* An entry for the watched translation has been in the tables since the flush.
RecentTLB ==
    \A kind \in Kinds, i \in 0..(TLBSize - 1) :
      LET e == tlb[kind][i]
      IN  e.valid /\ e = watch.t /\ AlignDown(watch.va, e.span) = e.tag => seen

IInv ==
    /\ TypeOK /\ work \in Workloads /\ watch \in work.watch
    /\ FaithfulTLB /\ RecentTLB
    /\ Gives(pte, satp) => seen

\* Every TLB is empty.
LEMMA NothingCached ==
    ASSUME NEW kind \in Kinds, NEW i \in 0..(TLBSize - 1)
    PROVE  ~EmptyTLB[kind][i].valid /\ EmptyTLB[kind][i] = NoEntry
BY DEF EmptyTLB, NoEntry

\* A TLB without entries is one.
LEMMA EmptyTLBType == EmptyTLB \in [Kinds -> [0..(TLBSize - 1) -> EntryType \cup {NoEntry}]]
BY DEF EmptyTLB

\* The TLBs start empty.
LEMMA InitInv == Init => IInv
<1> SUFFICES ASSUME Init PROVE IInv
  OBVIOUS
<1>1. work \in Workloads /\ watch \in work.watch
  BY DEF Init
<1>2. /\ mode \in ModeType(Delegable) /\ (mode.mprv => mode.priv = "M")
      /\ satp \in Roots \cup {Bare} /\ pte \in [SlotSet -> PTEType]
  BY <1>1, Zenon, MMUAssumption DEF Init
<1>3. tlb = EmptyTLB /\ edited = {} /\ ad = [s \in SlotSet |-> {}] /\ seen = Gives(pte, satp)
  BY DEF Init
<1>4. TypeOK
  <2>1. ad \in [SlotSet -> SUBSET {"A", "D"}]
    BY <1>3
  <2>2. seen \in BOOLEAN
    BY <1>3 DEF Gives
  <2> QED BY Zenon, <1>2, <1>3, <2>1, <2>2, EmptyTLBType DEF TypeOK
<1>5. FaithfulTLB /\ RecentTLB
  BY <1>3, NothingCached DEF FaithfulTLB, RecentTLB
<1> QED
  BY <1>1, <1>3, <1>4, <1>5 DEF IInv

\* A change of mode touches nothing that the TLBs depend on.
LEMMA ModeStep ==
    ASSUME IInv, mode' \in ModeType(Delegable), mode'.mprv => mode'.priv = "M",
           UNCHANGED <<work, satp, pte, ad, tlb, edited, watch, seen>>
    PROVE  IInv'
<1>1. TypeOK'
  BY Zenon DEF IInv, TypeOK
<1>2. FaithfulTLB' /\ RecentTLB'
  BY Zenon DEF IInv, FaithfulTLB, RecentTLB, Faithful
<1> QED
  BY Zenon, <1>1, <1>2 DEF IInv, Gives

\* An exception.
LEMMA TrapStep ==
    ASSUME IInv, NEW cause, Traps(cause)
    PROVE  IInv'
<1>1. mode \in ModeType(Delegable) /\ (mode.mprv => mode.priv = "M")
  BY DEF IInv, TypeOK
<1>2. TrapToSupervisor(mode) \in ModeType(Delegable) /\ TrapToMachine(mode) \in ModeType(Delegable)
  BY Zenon, <1>1 DEF TrapToSupervisor, TrapToMachine, ModeType, Modes
<1>3. mode.priv # "M" => ~TrapToSupervisor(mode).mprv
  BY <1>1 DEF TrapToSupervisor, ModeType
<1>4. TrapToMachine(mode).priv = "M"
  BY <1>1 DEF TrapToMachine, ModeType
<1>5. mode' \in ModeType(Delegable) /\ (mode'.mprv => mode'.priv = "M")
  BY <1>2, <1>3, <1>4 DEF Traps, TrapToPrivileged
<1> QED
  BY <1>5, ModeStep DEF Traps

\* An empty TLB holds nothing stale, and the history starts again.
LEMMA FlushStep ==
    ASSUME IInv, NEW root \in Roots \cup {Bare}, Flush(root), satp' = root,
           UNCHANGED <<work, mode, pte, ad, watch>>
    PROVE  IInv'
<1>1. tlb' = EmptyTLB /\ edited' = {} /\ seen' = Gives(pte, root)
  BY DEF Flush
<1>2. TypeOK'
  <2>1. seen' \in BOOLEAN
    BY <1>1 DEF Gives
  <2> QED BY Zenon, <1>1, <2>1, EmptyTLBType DEF IInv, TypeOK
<1>3. FaithfulTLB' /\ RecentTLB'
  BY <1>1, NothingCached DEF FaithfulTLB, RecentTLB
<1> QED
  BY Zenon, <1>1, <1>2, <1>3 DEF IInv, Gives

\* After a store to a table nothing is claimed of the entries until a flush; the
\* history only grows.
LEMMA StorePTEStep ==
    ASSUME IInv, NEW s \in SlotSet, NEW e \in PTEType, NEW bits \in SUBSET {"A", "D"},
           StorePTE(s, e, bits)
    PROVE  IInv'
<1>1. /\ pte' = [pte EXCEPT ![s] = e] /\ ad' = [ad EXCEPT ![s] = bits]
      /\ edited' = edited \cup {s} /\ seen' = (seen \/ Gives(pte', satp))
      /\ UNCHANGED <<work, mode, satp, tlb, watch>>
  BY DEF StorePTE
<1>2. TypeOK'
  <2>1. pte' \in [SlotSet -> PTEType] /\ ad' \in [SlotSet -> SUBSET {"A", "D"}]
    BY <1>1 DEF IInv, TypeOK
  <2>2. edited' \subseteq SlotSet
    BY <1>1 DEF IInv, TypeOK
  <2>3. seen' \in BOOLEAN
    BY <1>1 DEF IInv, TypeOK, Gives
  <2> QED BY Zenon, <1>1, <2>1, <2>2, <2>3 DEF IInv, TypeOK
<1>3. FaithfulTLB'
  BY <1>1 DEF FaithfulTLB
<1>4. RecentTLB'
  BY Zenon, <1>1 DEF IInv, RecentTLB
<1>5. Gives(pte, satp)' => seen'
  BY Zenon, <1>1 DEF Gives
<1> QED
  BY Zenon, <1>1, <1>2, <1>3, <1>4, <1>5 DEF IInv

\* A walk fills an entry: it is what the tables say of every address it will
\* match, and the bits it needs are set.
LEMMA FillStep ==
    ASSUME IInv, NEW kind \in Kinds, NEW va \in Nat, ~Bypassed(kind),
           NEW t, t = Walk(kind, va), t.valid,
           NEW s, s = LeafSlot(pte, satp, va),
           ad' = [ad EXCEPT ![s] = SetAD(kind, s)],
           tlb' = [tlb EXCEPT ![Table(kind)][va % TLBSize] = t],
           UNCHANGED <<work, mode, satp, pte, edited, watch, seen>>
    PROVE  IInv'
<1> DEFINE n == va % TLBSize
<1>1. /\ satp \in Tables /\ satp # Bare /\ pte \in [SlotSet -> PTEType]
      /\ ad \in [SlotSet -> SUBSET {"A", "D"}]
      /\ tlb \in [Kinds -> [0..(TLBSize - 1) -> EntryType \cup {NoEntry}]]
  BY MMUAssumption DEF IInv, TypeOK, Bypassed
<1>2. t = Translate(pte, satp, va)
  BY DEF Walk, NoEntry
<1>3. s \in SlotSet /\ t \in EntryType /\ AlignDown(va, t.span) = t.tag
  BY <1>1, <1>2, TranslateType
<1>4. ASSUME NEW c \in Nat, AlignDown(c, t.span) = t.tag
      PROVE  Translate(pte, satp, c) = t /\ LeafSlot(pte, satp, c) = s
  BY ZenonT(60), <1>1, <1>2, <1>4, SameTranslation
<1>5. n \in 0..(TLBSize - 1)
  <2>1. TLBSize \in Nat \ {0}
    BY MMUAssumption
  <2> QED BY <2>1
<1> HIDE DEF n
<1>6. /\ tlb' \in [Kinds -> [0..(TLBSize - 1) -> EntryType \cup {NoEntry}]]
      /\ \A k \in Kinds, i \in 0..(TLBSize - 1) :
           tlb'[k][i] = IF k = kind /\ i = n THEN t ELSE tlb[k][i]
  <2>1. tlb' = [tlb EXCEPT ![kind] = [tlb[kind] EXCEPT ![n] = t]]
    BY DEF Table, n
  <2> DEFINE E == EntryType \cup {NoEntry}
             row == [tlb[kind] EXCEPT ![n] = t]
  <2>2. t \in E /\ tlb \in [Kinds -> [0..(TLBSize - 1) -> E]]
    BY <1>1, <1>3
  <2> HIDE DEF E
  <2>3. /\ row \in [0..(TLBSize - 1) -> E]
        /\ \A i \in 0..(TLBSize - 1) : row[i] = IF i = n THEN t ELSE tlb[kind][i]
    BY Zenon, <1>5, <2>2
  <2> HIDE DEF row
  <2>4. tlb' = [tlb EXCEPT ![kind] = row]
    BY Zenon, <2>1 DEF row
  <2>5. /\ tlb' \in [Kinds -> [0..(TLBSize - 1) -> E]]
        /\ \A k \in Kinds : tlb'[k] = IF k = kind THEN row ELSE tlb[k]
    BY Zenon, <2>2, <2>3, <2>4
  <2> QED BY Zenon, <2>3, <2>5 DEF E
<1>7. /\ ad' \in [SlotSet -> SUBSET {"A", "D"}]
      /\ \A x \in SlotSet : ad[x] \subseteq ad'[x]
      /\ Marks(kind) \subseteq ad'[s]
  <2>1. SetAD(kind, s) = ad[s] \cup Marks(kind) /\ Marks(kind) \subseteq {"A", "D"}
    BY DEF SetAD, Marks
  <2>2. SetAD(kind, s) \in SUBSET {"A", "D"}
    BY <1>1, <1>3, <2>1
  <2> HIDE DEF Marks
  <2> QED BY <1>1, <1>3, <2>1, <2>2
<1>8. TypeOK'
  BY Zenon, <1>6, <1>7 DEF IInv, TypeOK
<1>9. ASSUME edited = {}, NEW k \in Kinds, NEW i \in 0..(TLBSize - 1), tlb'[k][i].valid,
             NEW c \in Nat, AlignDown(c, tlb'[k][i].span) = tlb'[k][i].tag
      PROVE  /\ Translate(pte, satp, c) = tlb'[k][i]
             /\ Marks(k) \subseteq ad'[LeafSlot(pte, satp, c)]
  <2>1. CASE k = kind /\ i = n
    <3>1. tlb'[k][i] = t
      BY <1>6, <2>1
    <3> QED BY Zenon, <1>4, <1>7, <1>9, <2>1, <3>1
  <2>2. CASE ~(k = kind /\ i = n)
    <3>1. tlb'[k][i] = tlb[k][i]
      BY <1>6, <2>2
    <3>2. /\ Translate(pte, satp, c) = tlb[k][i]
          /\ Marks(k) \subseteq ad[LeafSlot(pte, satp, c)]
      BY ZenonT(60), <1>9, <3>1 DEF IInv, FaithfulTLB, Faithful
    <3>3. LeafSlot(pte, satp, c) \in SlotSet
      BY <1>1, TranslateType
    <3> QED BY Zenon, <1>7, <3>1, <3>2, <3>3
  <2> QED BY <2>1, <2>2
<1>10. FaithfulTLB'
  BY Zenon, <1>1, <1>9 DEF FaithfulTLB, Faithful
<1>11. RecentTLB'
  <2> SUFFICES ASSUME NEW k \in Kinds, NEW i \in 0..(TLBSize - 1), tlb'[k][i].valid,
                      tlb'[k][i] = watch.t, AlignDown(watch.va, tlb'[k][i].span) = tlb'[k][i].tag
               PROVE  seen
    BY Zenon DEF RecentTLB
  <2>1. CASE k = kind /\ i = n
    <3>1. tlb'[k][i] = t
      BY <1>6, <2>1
    <3>2. watch.va \in Nat
      BY MMUAssumption DEF IInv
    <3>3. Translate(pte, satp, watch.va) = watch.t
      BY Zenon, <1>4, <3>1, <3>2
    <3> QED BY <1>1, <3>3 DEF IInv, Gives
  <2>2. CASE ~(k = kind /\ i = n)
    <3>1. tlb'[k][i] = tlb[k][i]
      BY <1>6, <2>2
    <3> QED BY Zenon, <3>1 DEF IInv, RecentTLB
  <2> QED BY <2>1, <2>2
<1> QED
  BY Zenon, <1>8, <1>10, <1>11 DEF IInv, Gives

\* Every instruction keeps the invariant.
LEMMA NextInv == IInv /\ [Next]_vars => IInv'
<1> SUFFICES ASSUME IInv, [Next]_vars PROVE IInv'
  OBVIOUS
<1>1. mode \in ModeType(Delegable) /\ (mode.mprv => mode.priv = "M")
  BY DEF IInv, TypeOK
<1>2. ASSUME NEW kind \in Kinds, NEW va \in VAs, Access(kind, va) PROVE IInv'
  <2> DEFINE t == Walk(kind, va)
             s == LeafSlot(pte, satp, va)
  <2>1. va \in Nat
    BY MMUAssumption
  <2>2. t = Walk(kind, va) /\ s = LeafSlot(pte, satp, va)
    OBVIOUS
  <2>3. CASE /\ t.valid /\ ~Bypassed(kind)
             /\ ad' = [ad EXCEPT ![s] = SetAD(kind, s)]
             /\ tlb' = [tlb EXCEPT ![Table(kind)][va % TLBSize] = t]
             /\ UNCHANGED <<work, mode, satp, pte, edited, watch, seen>>
    <3> HIDE DEF t, s
    <3> QED BY Zenon, <2>1, <2>2, <2>3, FillStep
  <2>4. CASE Traps(kind)
    BY <2>4, TrapStep
  <2> QED BY Zenon, <1>2, <2>3, <2>4 DEF Access
<1>3. ASSUME NEW edit \in work.edits, NEW bits \in {{}, {"A", "D"}},
             StorePTE(edit[1], edit[2], bits)
      PROVE  IInv'
  <2>1. edit \in SlotSet \X PTEType
    BY MMUAssumption DEF IInv
  <2>2. edit[1] \in SlotSet /\ edit[2] \in PTEType /\ bits \in SUBSET {"A", "D"}
    BY <2>1
  <2> QED BY <1>3, <2>2, StorePTEStep
<1>4. ASSUME SfenceVMA PROVE IInv'
  <2>1. satp \in Roots \cup {Bare}
    BY DEF IInv, TypeOK
  <2> QED BY <1>4, <2>1, FlushStep, TrapStep DEF SfenceVMA
<1>5. ASSUME NEW root \in work.roots, WriteSatp(root) PROVE IInv'
  <2>1. root \in Roots \cup {Bare}
    BY MMUAssumption DEF IInv
  <2> QED BY <1>5, <2>1, FlushStep DEF WriteSatp
<1>6. ASSUME NEW m, m \in ModeType(Delegable), m.mprv => m.priv = "M", WriteMode(m) PROVE IInv'
  BY <1>6, ModeStep DEF WriteMode
<1>7. ASSUME NEW sum \in BOOLEAN, NEW mxr \in BOOLEAN, NEW spp \in {"U", "S"},
             WriteSstatus(sum, mxr, spp)
      PROVE  IInv'
  <2> DEFINE m == [mode EXCEPT !.sum = sum, !.mxr = mxr, !.spp = spp]
  <2>1. m \in ModeType(Delegable) /\ (m.mprv => m.priv = "M") /\ WriteMode(m)
    BY Zenon, <1>1, <1>7 DEF WriteSstatus, ModeType
  <2> HIDE DEF m
  <2> QED BY <1>6, <2>1
<1>8. ASSUME NEW mpp \in Modes, NEW mprv \in BOOLEAN, NEW tvm \in BOOLEAN, NEW tsr \in BOOLEAN,
             WriteMstatus(mpp, mprv, tvm, tsr)
      PROVE  IInv'
  <2> DEFINE m == [mode EXCEPT !.mpp = mpp, !.mprv = mprv, !.tvm = tvm, !.tsr = tsr]
  <2>1. m \in ModeType(Delegable) /\ (m.mprv => m.priv = "M") /\ WriteMode(m)
    BY Zenon, <1>1, <1>8 DEF WriteMstatus, ModeType
  <2> HIDE DEF m
  <2> QED BY <1>6, <2>1
<1>9. ASSUME NEW D \in {{}, Delegable}, WriteMedeleg(D) PROVE IInv'
  <2> DEFINE m == [mode EXCEPT !.medeleg = D]
  <2>1. m \in ModeType(Delegable) /\ (m.mprv => m.priv = "M") /\ WriteMode(m)
    BY Zenon, <1>1, <1>9 DEF WriteMedeleg, ModeType
  <2> HIDE DEF m
  <2> QED BY <1>6, <2>1
<1>10. ASSUME Ecall PROVE IInv'
  BY <1>10, TrapStep DEF Ecall
<1>11. ASSUME Mret PROVE IInv'
  <2>1. MRETLegal(mode) => MRET(mode) \in ModeType(Delegable) /\ (MRET(mode).mprv => MRET(mode).priv = "M")
    BY Zenon, <1>1 DEF MRET, ModeType, Modes
  <2> QED BY <1>6, <1>11, <2>1, TrapStep DEF Mret
<1>12. ASSUME Sret PROVE IInv'
  <2>1. SRET(mode) \in ModeType(Delegable) /\ ~SRET(mode).mprv
    BY Zenon, <1>1 DEF SRET, ModeType, Modes
  <2> QED BY <1>6, <1>12, <2>1, TrapStep DEF Sret
<1>13. ASSUME UNCHANGED vars PROVE IInv'
  BY <1>1, <1>13, ModeStep DEF vars
<1> QED
  BY Zenon, <1>2, <1>3, <1>4, <1>5, <1>7, <1>8, <1>9, <1>10, <1>11, <1>12, <1>13 DEF Next

(* The theorems. *)

\* The invariant holds in every state.
LEMMA AlwaysInv == Spec => []IInv
BY InitInv, NextInv, PTL DEF Spec

\* The entry an access looks at.
LEMMA EntryInTLB ==
    ASSUME NEW kind \in Kinds, NEW va \in Nat
    PROVE  va % TLBSize \in 0..(TLBSize - 1) /\ EntryFor(kind, va) = tlb[kind][va % TLBSize]
<1>1. TLBSize \in Nat \ {0}
  BY MMUAssumption
<1>2. va % TLBSize \in 0..(TLBSize - 1)
  BY <1>1
<1> QED
  BY <1>2 DEF EntryFor, Table

\* A guest that fences its edits of the page tables cannot tell that there are
\* TLBs: every access ends as a walk in the present mode would.
THEOREM AlwaysTransparent == Spec => []TLBTransparent
<1>1. IInv => TLBTransparent
  <2> SUFFICES ASSUME IInv PROVE TLBTransparent
    OBVIOUS
  <2>1. ASSUME edited = {}, NEW kind \in Kinds, NEW va \in VAs, ~Bypassed(kind)
        PROVE  Lookup(kind, va) = Walk(kind, va)
    <3> DEFINE e == EntryFor(kind, va)
    <3>1. CASE Hit(kind, va)
      <4>1. va \in Nat
        BY MMUAssumption
      <4>2. va % TLBSize \in 0..(TLBSize - 1) /\ e = tlb[kind][va % TLBSize]
        BY <4>1, EntryInTLB
      <4>3. e.valid /\ AlignDown(va, e.span) = e.tag /\ AccessAllowed(mode, e.perms, kind)
        BY <3>1 DEF Hit
      <4> HIDE DEF e
      <4>4. Translate(pte, satp, va) = e
        BY Zenon, <2>1, <4>1, <4>2, <4>3 DEF IInv, FaithfulTLB, Faithful
      <4>5. Walk(kind, va) = e
        BY Zenon, <4>3, <4>4 DEF Walk
      <4> QED BY Zenon, <3>1, <4>5 DEF Lookup, e
    <3>2. CASE ~Hit(kind, va)
      BY <3>2 DEF Lookup
    <3> QED BY <3>1, <3>2
  <2> QED BY Zenon, <2>1 DEF TLBTransparent, IInv
<1> QED
  BY <1>1, AlwaysInv, PTL

\* Whatever the guest edits and forgets to fence, no access uses a translation
\* the tables gave only before the last sfence.vma or change of satp.
THEOREM AlwaysSinceFence == Spec => []NothingOlderThanFence
<1>1. IInv => NothingOlderThanFence
  <2> SUFFICES ASSUME IInv, NEW kind \in Kinds, Hit(kind, watch.va),
                      EntryFor(kind, watch.va) = watch.t
               PROVE  seen
    BY Zenon DEF NothingOlderThanFence
  <2>1. watch.va \in Nat
    BY MMUAssumption DEF IInv
  <2>2. /\ watch.va % TLBSize \in 0..(TLBSize - 1)
        /\ EntryFor(kind, watch.va) = tlb[kind][watch.va % TLBSize]
    BY <2>1, EntryInTLB
  <2> QED BY Zenon, <2>2 DEF IInv, RecentTLB, Hit
<1> QED
  BY <1>1, AlwaysInv, PTL

\* A page is marked accessed before a hit reads it and dirty before a hit writes
\* it, although a hit sets no bits.
THEOREM AlwaysMarked == Spec => []DirtyBeforeStore
<1>1. IInv => DirtyBeforeStore
  <2> SUFFICES ASSUME IInv, edited = {}, NEW kind \in Kinds, NEW va \in VAs, Hit(kind, va)
               PROVE  Marks(kind) \subseteq ad[LeafSlot(pte, satp, va)]
    BY Zenon DEF DirtyBeforeStore, Marks
  <2>1. va \in Nat
    BY MMUAssumption
  <2>2. va % TLBSize \in 0..(TLBSize - 1) /\ EntryFor(kind, va) = tlb[kind][va % TLBSize]
    BY <2>1, EntryInTLB
  <2> QED BY ZenonT(60), <2>1, <2>2 DEF IInv, FaithfulTLB, Faithful, Hit
<1> QED
  BY <1>1, AlwaysInv, PTL
================================================================================
