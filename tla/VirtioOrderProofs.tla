--------------------------- MODULE VirtioOrderProofs ---------------------------
(***************************************************************************)
(* Frames cross the network device in order, for every size of the rings   *)
(* and of their indices, and every workload: both directions implement a   *)
(* FIFO.                                                                   *)
(***************************************************************************)
EXTENDS VirtioNetProofs

(* Sequences of frames. *)

\* Sequences with the same elements are the same.
LEMMA SameElements ==
    ASSUME NEW s \in Seq(Nat), NEW t \in Seq(Nat), Len(s) = Len(t),
           \A i \in 1..Len(s) : s[i] = t[i]
    PROVE  s = t
OBVIOUS

\* The frames depend on the chains alone.
LEMMA FramesAgree ==
    ASSUME NEW c, NEW e, NEW n \in 0..IdxMod, \A i \in 1..n : c[i] = e[i]
    PROVE  FramesOf(c)[n] = FramesOf(e)[n]
<1> DEFINE f == FramesOf(c)
           g == FramesOf(e)
           G == {i \in Nat : f[i] = g[i]}
<1>1. /\ f[0] = << >> /\ \A i \in 1..IdxMod : f[i] = AddFrame(f[i - 1], c[i])
      /\ g[0] = << >> /\ \A i \in 1..IdxMod : g[i] = AddFrame(g[i - 1], e[i])
  BY Zenon, FramesDef
<1> HIDE DEF f, g
<1>2. 0 \in G
  BY <1>1
<1>3. ASSUME NEW i \in 0..(n - 1), i \in G PROVE i + 1 \in G
  <2>1. i + 1 \in 1..IdxMod /\ i + 1 \in 1..n /\ (i + 1) - 1 = i /\ i + 1 \in Nat
    BY Sizes
  <2>2. f[i + 1] = AddFrame(f[i], c[i + 1]) /\ g[i + 1] = AddFrame(g[i], e[i + 1])
    BY <1>1, <2>1
  <2>3. f[i] = g[i] /\ c[i + 1] = e[i + 1]
    BY <1>3, <2>1
  <2> QED BY <2>1, <2>2, <2>3
<1>4. \A i \in 0..n : i \in G
  <2> HIDE DEF G
  <2> QED BY <1>2, <1>3, Sizes, UpTo
<1> QED
  BY <1>4, Sizes DEF f, g

\* Appending to the second of two sequences.
LEMMA ConcatAppend ==
    ASSUME NEW s \in Seq(Nat), NEW t \in Seq(Nat), NEW x \in Nat
    PROVE  s \o Append(t, x) = Append(s \o t, x)
<1> DEFINE a == s \o Append(t, x)
           b == Append(s \o t, x)
           m == Len(s)
           n == Len(t)
<1>1. m \in Nat /\ n \in Nat /\ Append(t, x) \in Seq(Nat) /\ Len(Append(t, x)) = n + 1
  OBVIOUS
<1>2. a \in Seq(Nat) /\ b \in Seq(Nat) /\ Len(a) = m + (n + 1) /\ Len(b) = (m + n) + 1
  BY <1>1
<1>3. ASSUME NEW i \in 1..Len(a) PROVE a[i] = b[i]
  <2>1. CASE i <= m
    BY <1>1, <1>2, <2>1
  <2>2. CASE i > m /\ i <= m + n
    BY <1>1, <1>2, <2>2
  <2>3. CASE i = m + n + 1
    BY <1>1, <1>2, <2>3
  <2> QED BY <1>1, <1>2, <2>1, <2>2, <2>3
<1>4. Len(a) = Len(b)
  BY <1>1, <1>2
<1> HIDE DEF a, b
<1>5. a = b
  BY Zenon, <1>2, <1>3, <1>4, SameElements
<1> QED
  BY Zenon, <1>5 DEF a, b

\* The frames of all chains are those of the first n, then those of the rest.
Rest(e, c, n, m) ==
    /\ n + m <= IdxMod
    /\ \A i \in 1..(n + m) : c[i].frame \in Nat
    /\ \A i \in 1..m : e[i] = c[n + i]

Split(e, c, n, m) == FramesOf(c)[n + m] = FramesOf(c)[n] \o FramesOf(e)[m]

LEMMA FramesSplit ==
    ASSUME NEW c, NEW e, NEW n \in Nat, NEW m \in Nat, Rest(e, c, n, m)
    PROVE  Split(e, c, n, m)
<1> USE DEF Rest, Split
<1> DEFINE f == FramesOf(c)
           g == FramesOf(e)
           P(i) == f[n + i] = f[n] \o g[i]
           G == {i \in Nat : P(i)}
<1>1. /\ f[0] = << >> /\ \A i \in 1..IdxMod : f[i] = AddFrame(f[i - 1], c[i])
      /\ g[0] = << >> /\ \A i \in 1..IdxMod : g[i] = AddFrame(g[i - 1], e[i])
  BY Zenon, FramesDef
<1>2. f[n] \in Seq(Nat)
  <2>1. n + m \in 0..IdxMod /\ n \in 0..(n + m)
    BY Sizes
  <2> QED BY <2>1, FramesTyped
<1>3. \A i \in 0..m : g[i] \in Seq(Nat)
  <2>1. m \in 0..IdxMod
    BY Sizes
  <2>2. \A i \in 1..m : e[i].frame \in Nat
    <3>1. \A i \in 1..m : n + i \in 1..(n + m)
      OBVIOUS
    <3> QED BY <3>1
  <2> QED BY Zenon, <2>1, <2>2, FramesTyped
<1> HIDE DEF f, g
<1>4. 0 \in G
  <2>1. n + 0 = n /\ f[n] \o << >> = f[n]
    BY <1>2
  <2>2. g[0] = << >>
    BY <1>1
  <2>3. P(0)
    BY <2>1, <2>2
  <2> HIDE DEF P
  <2> QED BY <2>3
<1>5. ASSUME NEW i \in 0..(m - 1), i \in G PROVE i + 1 \in G
  <2>1. /\ i + 1 \in 1..IdxMod /\ i + 1 \in 1..m /\ (i + 1) - 1 = i /\ i \in 0..m
        /\ n + (i + 1) \in 1..IdxMod /\ (n + (i + 1)) - 1 = n + i /\ n + (i + 1) \in 1..(n + m)
    BY Sizes
  <2>2. f[n + (i + 1)] = AddFrame(f[n + i], c[n + (i + 1)]) /\ g[i + 1] = AddFrame(g[i], e[i + 1])
    BY <1>1, <2>1
  <2>3. /\ f[n + i] = f[n] \o g[i] /\ e[i + 1] = c[n + (i + 1)] /\ g[i] \in Seq(Nat)
        /\ c[n + (i + 1)].frame \in Nat
    BY Zenon, <1>3, <1>5, <2>1
  <2> DEFINE b == c[n + (i + 1)]
             s == f[n]
             t == g[i]
  <2>4. /\ f[n + (i + 1)] = AddFrame(s \o t, b) /\ g[i + 1] = AddFrame(t, b)
        /\ s \in Seq(Nat) /\ t \in Seq(Nat) /\ b.frame \in Nat
    BY <1>2, <2>2, <2>3
  <2> HIDE DEF b, s, t
  <2>5. AddFrame(s \o t, b) = s \o AddFrame(t, b)
    <3>1. s \o Append(t, b.frame) = Append(s \o t, b.frame)
      BY Zenon, <2>4, ConcatAppend
    <3> QED BY Zenon, <3>1 DEF AddFrame
  <2>6. f[n + (i + 1)] = s \o g[i + 1]
    BY Zenon, <2>4, <2>5
  <2>7. P(i + 1)
    BY Zenon, <2>6 DEF s
  <2> HIDE DEF P
  <2> QED BY <2>1, <2>7
<1>6. \A i \in 0..m : i \in G
  <2> HIDE DEF G
  <2> QED BY <1>4, <1>5, Sizes, UpTo
<1>7. P(m)
  <2> HIDE DEF P
  <2> QED BY <1>6
<1> QED
  BY Zenon, <1>7 DEF f, g

-----------------------------------------------------------------------------
(* Steps of a FIFO of frames. *)

\* What a step of FrameFIFO that leaves it open, or closed, as o says makes of its
\* queue q and the frames d delivered.
Moves(o, q, d, p, e) ==
    \/ p = q /\ e = d
    \/ Len(p) = Len(q) + 1 /\ SubSeq(p, 1, Len(q)) = q /\ e = d
    \/ o /\ \E n \in 1..Len(q) : e = d \o SubSeq(q, 1, n) /\ p = SubSeq(q, n + 1, Len(q))

\* What opening, closing and resetting it make of the queue.
Turns(o, q, w, p) ==
    \/ ~o /\ w /\ p = q
    \/ o /\ ~w /\ \E n \in 0..Len(q) : p = SubSeq(q, n + 1, Len(q))
    \/ ~w /\ p = << >>

FifoStep(o, q, d, w, p, e) ==
    (w = o /\ Moves(o, q, d, p, e)) \/ (Turns(o, q, w, p) /\ e = d)

\* The elements of two sequences put together.
LEMMA Concat ==
    ASSUME NEW s \in Seq(Nat), NEW t \in Seq(Nat)
    PROVE  /\ s \o t \in Seq(Nat) /\ Len(s \o t) = Len(s) + Len(t)
           /\ Len(s) \in Nat /\ Len(t) \in Nat
           /\ \A i \in 1..Len(s) : (s \o t)[i] = s[i]
           /\ \A i \in 1..Len(t) : (s \o t)[Len(s) + i] = t[i]
<1>1. /\ s \o t \in Seq(Nat) /\ Len(s \o t) = Len(s) + Len(t)
      /\ Len(s) \in Nat /\ Len(t) \in Nat
  OBVIOUS
<1>2. \A i \in 1..Len(s) : (s \o t)[i] = s[i]
  BY <1>1
<1>3. \A i \in 1..Len(t) : (s \o t)[Len(s) + i] = t[i]
  BY <1>1
<1> QED
  BY Zenon, <1>1, <1>2, <1>3

\* The parts of a sequence that was put together.
LEMMA Parts ==
    ASSUME NEW s \in Seq(Nat), NEW t \in Seq(Nat)
    PROVE  /\ SubSeq(s \o t, 1, Len(s)) = s
           /\ SubSeq(s \o t, Len(s) + 1, Len(s \o t)) = t
<1> DEFINE c == s \o t
           m == Len(s)
           n == Len(t)
<1>1. /\ c \in Seq(Nat) /\ Len(c) = m + n /\ m \in Nat /\ n \in Nat
      /\ \A i \in 1..m : c[i] = s[i]
      /\ \A i \in 1..n : c[m + i] = t[i]
  BY Zenon, Concat
<1> HIDE DEF c, m, n
<1>2. SubSeq(c, 1, m) = s
  <2>1. SubSeq(c, 1, m) \in Seq(Nat) /\ Len(SubSeq(c, 1, m)) = m
    BY <1>1
  <2>2. \A i \in 1..m : SubSeq(c, 1, m)[i] = s[i]
    <3> SUFFICES ASSUME NEW i \in 1..m PROVE SubSeq(c, 1, m)[i] = s[i]
      BY Zenon
    <3>1. SubSeq(c, 1, m)[i] = c[i]
      BY <1>1
    <3> QED BY Zenon, <1>1, <3>1
  <2> QED BY Zenon, <2>1, <2>2, SameElements DEF m
<1>3. SubSeq(c, m + 1, m + n) = t
  <2>1. SubSeq(c, m + 1, m + n) \in Seq(Nat) /\ Len(SubSeq(c, m + 1, m + n)) = n
    BY <1>1
  <2>2. \A i \in 1..n : SubSeq(c, m + 1, m + n)[i] = t[i]
    <3> SUFFICES ASSUME NEW i \in 1..n PROVE SubSeq(c, m + 1, m + n)[i] = t[i]
      BY Zenon
    <3>1. SubSeq(c, m + 1, m + n)[i] = c[m + i]
      BY <1>1
    <3> QED BY <1>1, <3>1
  <2> QED BY Zenon, <2>1, <2>2, SameElements DEF n
<1> QED
  BY Zenon, <1>1, <1>2, <1>3 DEF c, m

\* Nothing is added by an empty sequence.
LEMMA Nothing ==
    ASSUME NEW s \in Seq(Nat)
    PROVE  /\ << >> \in Seq(Nat) /\ Len(<< >>) = 0 /\ Len(s) \in Nat
           /\ << >> \o s = s /\ s \o << >> = s /\ (Len(s) = 0 => s = << >>)
<1>1. << >> \in Seq(Nat) /\ Len(<< >>) = 0 /\ Len(s) \in Nat
  OBVIOUS
<1>2. << >> \o s = s
  OBVIOUS
<1>3. s \o << >> = s
  <2>1. s \o << >> \in Seq(Nat) /\ Len(s \o << >>) = Len(s)
    OBVIOUS
  <2>2. \A i \in 1..Len(s \o << >>) : (s \o << >>)[i] = s[i]
    BY <2>1
  <2> QED BY Zenon, <2>1, <2>2, SameElements
<1>4. Len(s) = 0 => s = << >>
  OBVIOUS
<1> QED
  BY Zenon, <1>1, <1>2, <1>3, <1>4

\* A frame is added at the end.
LEMMA MovesSend ==
    ASSUME NEW s \in Seq(Nat), NEW x \in Nat, NEW g, NEW o
    PROVE  Moves(o, s, g, Append(s, x), g)
<1>1. SubSeq(Append(s, x), 1, Len(s)) = s
  <2>1. Append(s, x) = s \o <<x>> /\ <<x>> \in Seq(Nat)
    OBVIOUS
  <2> QED BY Zenon, <2>1, Parts
<1>2. Len(Append(s, x)) = Len(s) + 1
  OBVIOUS
<1> QED
  BY Zenon, <1>1, <1>2 DEF Moves

\* The first frames are delivered, or lost.
LEMMA MovesTake ==
    ASSUME NEW s \in Seq(Nat), NEW t \in Seq(Nat), NEW g \in Seq(Nat), NEW o
    PROVE  /\ o => Moves(o, s \o t, g, t, g \o s)
           /\ \E n \in 0..Len(s \o t) : t = SubSeq(s \o t, n + 1, Len(s \o t))
<1>1. /\ SubSeq(s \o t, 1, Len(s)) = s
      /\ SubSeq(s \o t, Len(s) + 1, Len(s \o t)) = t
  BY Zenon, Parts
<1>2. Len(s) \in Nat /\ Len(t) \in Nat /\ Len(s \o t) = Len(s) + Len(t)
  BY Zenon, Concat
<1>3. ASSUME s = << >> PROVE Moves(o, s \o t, g, t, g \o s)
  <2>1. s \o t = t /\ g \o s = g
    BY Zenon, <1>3, Nothing
  <2> QED BY Zenon, <2>1 DEF Moves
<1>4. ASSUME s # << >>, o PROVE Moves(o, s \o t, g, t, g \o s)
  <2>1. Len(s) # 0
    BY Zenon, <1>4, Nothing
  <2>2. Len(s) \in 1..Len(s \o t)
    BY <1>2, <2>1
  <2> QED BY Zenon, <1>1, <1>4, <2>2 DEF Moves
<1>5. Len(s) \in 0..Len(s \o t)
  BY <1>2
<1>6. \E n \in 0..Len(s \o t) : t = SubSeq(s \o t, n + 1, Len(s \o t))
  BY Zenon, <1>1, <1>5
<1> QED
  BY Zenon, <1>3, <1>4, <1>6

\* Frames go from the second of two sequences to the first.
LEMMA Handover ==
    ASSUME NEW u \in Seq(Nat), NEW v \in Seq(Nat), NEW p \in Seq(Nat), NEW n \in 0..Len(p),
           Len(v) = Len(u) + n, \A i \in 1..Len(u) : v[i] = u[i],
           \A i \in 1..n : v[Len(u) + i] = p[i]
    PROVE  v \o SubSeq(p, n + 1, Len(p)) = u \o p
<1> DEFINE q == SubSeq(p, n + 1, Len(p))
           m == Len(u)
           k == Len(p)
<1>1. /\ n \in Nat /\ k \in Nat /\ m \in Nat /\ n <= k
      /\ q \in Seq(Nat) /\ Len(q) = k - n /\ \A i \in 1..(k - n) : q[i] = p[n + i]
  OBVIOUS
<1> DEFINE a == v \o q
           b == u \o p
<1>2. /\ a \in Seq(Nat) /\ Len(a) = Len(v) + Len(q)
      /\ \A i \in 1..Len(v) : a[i] = v[i]
      /\ \A i \in 1..Len(q) : a[Len(v) + i] = q[i]
  BY Zenon, <1>1, Concat
<1>3. /\ b \in Seq(Nat) /\ Len(b) = m + k
      /\ \A i \in 1..m : b[i] = u[i]
      /\ \A i \in 1..k : b[m + i] = p[i]
  BY Zenon, <1>1, Concat
<1> HIDE DEF a, b, q, m, k
<1>4. /\ Len(v) = m + n
      /\ \A i \in 1..m : v[i] = u[i]
      /\ \A j \in 1..n : v[m + j] = p[j]
  BY Zenon DEF m
<1>5. Len(a) = Len(b)
  <2>1. (m + n) + (k - n) = m + k
    BY <1>1
  <2> QED BY Zenon, <1>1, <1>2, <1>3, <1>4, <2>1
<1>6. ASSUME NEW i \in 1..Len(a) PROVE a[i] = b[i]
  <2>1. i \in Nat /\ 1 <= i /\ i <= m + k
    BY <1>1, <1>3, <1>5
  <2>2. CASE i <= m
    <3>1. i \in 1..m /\ i \in 1..Len(v)
      BY <1>1, <1>4, <2>1, <2>2
    <3> QED BY Zenon, <1>2, <1>3, <1>4, <3>1
  <2>3. CASE i > m /\ i <= m + n
    <3>1. PICK j \in 1..n : i = m + j
      <4>1. i - m \in 1..n /\ i = m + (i - m)
        BY <1>1, <2>1, <2>3
      <4> QED BY Zenon, <4>1
    <3>2. i \in 1..Len(v) /\ j \in 1..k
      BY <1>1, <1>4, <2>1, <2>3
    <3> QED BY Zenon, <1>2, <1>3, <1>4, <3>1, <3>2
  <2>4. CASE i > m + n
    <3>1. PICK j \in 1..(k - n) : i = (m + n) + j
      <4>1. i - (m + n) \in 1..(k - n) /\ i = (m + n) + (i - (m + n))
        BY <1>1, <2>1, <2>4
      <4> QED BY Zenon, <4>1
    <3>2. a[i] = q[j] /\ q[j] = p[n + j]
      BY Zenon, <1>1, <1>2, <1>4, <3>1
    <3>3. n + j \in 1..k /\ i = m + (n + j)
      BY <1>1, <3>1
    <3> QED BY Zenon, <1>3, <3>2, <3>3
  <2>5. i <= m \/ (i > m /\ i <= m + n) \/ i > m + n
    BY <1>1, <2>1
  <2> QED BY Zenon, <2>2, <2>3, <2>4, <2>5
<1> QED
  BY Zenon, <1>2, <1>3, <1>5, <1>6, SameElements DEF a, b, q

\* The first frame of the first of two sequences is delivered.
LEMMA MovesHead ==
    ASSUME NEW u \in Seq(Nat), NEW v \in Seq(Nat), NEW w \in Seq(Nat), NEW g \in Seq(Nat),
           Len(u) = Len(v) + 1, \A i \in 1..Len(v) : v[i] = u[i + 1], NEW o, o
    PROVE  Moves(o, u \o w, g, v \o w, Append(g, u[1]))
<1>1. PICK m, k : m = Len(v) /\ k = Len(w)
  BY Zenon
<1>2. m \in Nat /\ k \in Nat /\ Len(u) = m + 1 /\ 1 \in 1..(m + 1)
  BY <1>1
<1>3. u[1] \in Nat
  BY <1>2
<1> DEFINE x == <<u[1]>>
<1>4. x \in Seq(Nat) /\ Len(x) = 1 /\ x[1] = u[1] /\ g \o x = Append(g, u[1])
  BY <1>3
<1> DEFINE a == u \o w
           t == v \o w
           b == x \o t
<1> HIDE DEF x
<1>5. /\ a \in Seq(Nat) /\ Len(a) = (m + 1) + k
      /\ \A i \in 1..(m + 1) : a[i] = u[i]
      /\ \A i \in 1..k : a[(m + 1) + i] = w[i]
  <2>1. /\ a \in Seq(Nat) /\ Len(a) = Len(u) + Len(w)
        /\ \A i \in 1..Len(u) : a[i] = u[i]
        /\ \A i \in 1..Len(w) : a[Len(u) + i] = w[i]
    BY Zenon, Concat
  <2> HIDE DEF a
  <2> QED BY Zenon, <1>1, <1>2, <2>1
<1>6. /\ t \in Seq(Nat) /\ Len(t) = m + k
      /\ \A i \in 1..m : t[i] = v[i]
      /\ \A i \in 1..k : t[m + i] = w[i]
  BY Zenon, <1>1, Concat
<1> HIDE DEF a, t
<1>7. /\ b \in Seq(Nat) /\ Len(b) = 1 + (m + k)
      /\ \A i \in 1..1 : b[i] = x[i]
      /\ \A i \in 1..(m + k) : b[1 + i] = t[i]
  <2>1. /\ b \in Seq(Nat) /\ Len(b) = Len(x) + Len(t)
        /\ \A i \in 1..Len(x) : b[i] = x[i]
        /\ \A i \in 1..Len(t) : b[Len(x) + i] = t[i]
    BY Zenon, <1>4, <1>6, Concat
  <2> HIDE DEF b
  <2> QED BY Zenon, <1>4, <1>6, <2>1
<1> HIDE DEF b
<1>8. Len(a) = Len(b)
  <2>1. (m + 1) + k = 1 + (m + k)
    BY <1>2
  <2> QED BY Zenon, <1>5, <1>7, <2>1
<1>9. ASSUME NEW i \in 1..Len(a) PROVE a[i] = b[i]
  <2>1. i \in Nat /\ 1 <= i /\ i <= (m + 1) + k
    BY <1>2, <1>5
  <2>2. CASE i = 1
    <3>1. 1 \in 1..1
      OBVIOUS
    <3>2. a[1] = u[1] /\ b[1] = u[1]
      BY Zenon, <1>2, <1>4, <1>5, <1>7, <3>1
    <3> QED BY Zenon, <2>2, <3>2
  <2>3. CASE i > 1 /\ i <= m + 1
    <3>1. PICK j \in 1..m : i = j + 1 /\ i = 1 + j /\ i \in 1..(m + 1) /\ j \in 1..(m + k)
      <4>1. i - 1 \in 1..m /\ i = (i - 1) + 1 /\ i = 1 + (i - 1) /\ i \in 1..(m + 1) /\ i - 1 \in 1..(m + k)
        BY <1>2, <2>1, <2>3
      <4> QED BY Zenon, <4>1
    <3>2. a[i] = u[j + 1] /\ u[j + 1] = v[j]
      BY Zenon, <1>1, <1>5, <3>1
    <3>3. b[i] = v[j]
      BY Zenon, <1>6, <1>7, <3>1
    <3> QED BY Zenon, <3>2, <3>3
  <2>4. CASE i > m + 1
    <3>1. PICK j \in 1..k : i = (m + 1) + j /\ i = 1 + (m + j) /\ m + j \in 1..(m + k)
      <4>1. /\ i - (m + 1) \in 1..k /\ i = (m + 1) + (i - (m + 1)) /\ i = 1 + (m + (i - (m + 1)))
            /\ m + (i - (m + 1)) \in 1..(m + k)
        BY <1>2, <2>1, <2>4
      <4> QED BY Zenon, <4>1
    <3>2. a[i] = w[j]
      BY Zenon, <1>5, <3>1
    <3>3. b[i] = w[j]
      BY Zenon, <1>6, <1>7, <3>1
    <3> QED BY Zenon, <3>2, <3>3
  <2>5. i = 1 \/ (i > 1 /\ i <= m + 1) \/ i > m + 1
    BY <1>2, <2>1
  <2> QED BY Zenon, <2>2, <2>3, <2>4, <2>5
<1>10. a = b
  BY Zenon, <1>5, <1>7, <1>8, <1>9, SameElements
<1>11. Moves(o, b, g, t, g \o x)
  BY Zenon, <1>4, <1>6, MovesTake DEF b
<1> QED
  BY Zenon, <1>4, <1>10, <1>11 DEF a, t

-----------------------------------------------------------------------------
(* Received frames *)

\* The entries of the window differ, and none is free.
Spread(n, F, r, L) ==
    /\ \A s, t \in 0..(n - 1) : Entry(r, L, s) = Entry(r, L, t) => s = t
    /\ \A t \in 0..(n - 1) : Entry(r, L, t) \notin F

LEMMA Distinct ==
    ASSUME NEW r \in Ring, NEW L \in Idx, NEW F \in SUBSET Desc, NEW p \in 0..1, Partition(r, L, F, p)
    PROVE  Spread(InPlay(r, L, p), F, r, L)
<1> DEFINE n == InPlay(r, L, p)
           e == [t \in Nat |-> Entry(r, L, t)]
<1>1. \A t \in 0..(n - 1) : e[t] = Entry(r, L, t)
  <2>1. \A t \in 0..(n - 1) : t \in Nat
    OBVIOUS
  <2> QED BY Zenon, <2>1
<1>2. /\ \A s, t \in 0..(n - 1) : e[s] = e[t] => s = t
      /\ \A t \in 0..(n - 1) : e[t] \notin F
  <2> HIDE DEF n, e
  <2>1. Whole(n, F, e)
    BY Zenon DEF Partition, n, e
  <2> QED BY Zenon, <2>1 DEF Whole
<1> QED
  BY Zenon, <1>1, <1>2 DEF Spread

\* The frames that were handed back and that the driver has not seen.
Handed(b, r, L) == [i \in 1..Back(r, L) |-> b[Entry(r, L, i - 1)].frame]

LEMMA HandedIs ==
    ASSUME NEW b \in [Desc -> BufType], NEW r \in Ring, NEW L \in Idx
    PROVE  /\ Handed(b, r, L) \in Seq(Nat) /\ Len(Handed(b, r, L)) = Back(r, L)
           /\ Back(r, L) \in Nat
           /\ \A i \in 1..Back(r, L) : Handed(b, r, L)[i] = b[Entry(r, L, i - 1)].frame
<1> DEFINE n == Back(r, L)
           f == [i \in 1..n |-> b[Entry(r, L, i - 1)].frame]
<1>1. n \in Nat
  BY RingFacts
<1>2. ASSUME NEW i \in 1..n PROVE b[Entry(r, L, i - 1)].frame \in Nat
  <2>1. i - 1 \in Nat
    BY <1>1
  <2>2. Entry(r, L, i - 1) \in Desc
    BY Zenon, <2>1, RingFacts
  <2> QED BY <2>2 DEF BufType
<1>3. f \in Seq(Nat) /\ Len(f) = n /\ \A i \in 1..n : f[i] = b[Entry(r, L, i - 1)].frame
  <2> HIDE DEF n
  <2>1. f \in [1..n -> Nat]
    BY Zenon, <1>2
  <2>2. \A i \in 1..n : f[i] = b[Entry(r, L, i - 1)].frame
    BY Zenon
  <2> HIDE DEF f
  <2>3. f \in Seq(Nat) /\ Len(f) = n
    BY <1>1, <2>1
  <2> QED BY Zenon, <2>2, <2>3
<1> QED
  BY Zenon, <1>1, <1>3 DEF Handed

\* They are the same if their descriptors, or what these hold, are.
LEMMA HandedSame ==
    ASSUME NEW b \in [Desc -> BufType], NEW r \in Ring, NEW L \in Idx,
           NEW c \in [Desc -> BufType], NEW q \in Ring, Back(q, L) = Back(r, L),
           \A t \in 0..(Back(r, L) - 1) : c[Entry(q, L, t)] = b[Entry(r, L, t)]
    PROVE  Handed(c, q, L) = Handed(b, r, L)
<1>1. Back(r, L) \in Nat
  BY RingFacts
<1>2. \A i \in 1..Back(r, L) : i - 1 \in 0..(Back(r, L) - 1)
  BY <1>1
<1>3. \A i \in 1..Back(r, L) : c[Entry(q, L, i - 1)] = b[Entry(r, L, i - 1)]
  BY Zenon, <1>2
<1> QED
  BY Zenon, <1>3 DEF Handed

\* The buffers b after the device put the frames w into the next n of them: those
\* the driver has not seen keep their frames, since no descriptor is in the
\* window twice.
Fills(c, b, w, h, n) ==
    /\ \A d \in Desc : (\A i \in 1..n : h[i] # d) => c[d] = b[d]
    /\ \A i \in 1..n : (\A j \in 1..n : h[j] = h[i] => j = i) => c[h[i]].frame = w[i]

Heads(h, n, r, L) == \A i \in 1..n : h[i] = Entry(r, L, Back(r, L) + (i - 1))

Filled(c, b, w, n, r, L) ==
    /\ \A t \in 0..(Back(r, L) - 1) : c[Entry(r, L, t)] = b[Entry(r, L, t)]
    /\ \A i \in 1..n : c[Entry(r, L, Back(r, L) + (i - 1))].frame = w[i]

LEMMA FillIs ==
    ASSUME NEW r \in Ring, NEW L \in Idx, NEW F \in SUBSET Desc, NEW p \in 0..1, Partition(r, L, F, p),
           NEW n \in 0..Out(r), NEW b, NEW w, NEW h, NEW c, Heads(h, n, r, L), Fills(c, b, w, h, n)
    PROVE  Filled(c, b, w, n, r, L)
<1> DEFINE m == Back(r, L)
           e == [t \in Nat |-> Entry(r, L, t)]
<1>1. m \in Nat /\ Out(r) \in Nat /\ n \in Nat /\ n <= Out(r) /\ InPlay(r, L, p) = m + Out(r) + p
  BY RingFacts DEF InPlay
<1>2. \A t \in Nat : e[t] = Entry(r, L, t) /\ e[t] \in Desc
  BY Zenon, RingFacts
<1>3. \A s, t \in 0..((m + n) - 1) : e[s] = e[t] => s = t
  <2>1. Spread(InPlay(r, L, p), F, r, L)
    BY Zenon, Distinct
  <2>2. \A t \in 0..((m + n) - 1) : t \in Nat /\ t \in 0..(InPlay(r, L, p) - 1)
    BY <1>1
  <2>3. \A s, t \in 0..(InPlay(r, L, p) - 1) : Entry(r, L, s) = Entry(r, L, t) => s = t
    BY Zenon, <2>1 DEF Spread
  <2> HIDE DEF e, m
  <2> SUFFICES ASSUME NEW s \in 0..((m + n) - 1), NEW t \in 0..((m + n) - 1), e[s] = e[t] PROVE s = t
    BY Zenon
  <2>4. Entry(r, L, s) = Entry(r, L, t)
    BY Zenon, <1>2, <2>2
  <2> QED BY Zenon, <2>2, <2>3, <2>4
<1>4. \A i \in 1..n : /\ i - 1 \in Nat /\ m + (i - 1) \in Nat /\ m + (i - 1) \in 0..((m + n) - 1)
                      /\ h[i] = e[m + (i - 1)]
  <2>1. \A i \in 1..n : i - 1 \in Nat /\ m + (i - 1) \in Nat /\ m + (i - 1) \in 0..((m + n) - 1)
    BY <1>1
  <2> QED BY Zenon, <1>2, <2>1 DEF Heads
<1> HIDE DEF m, e
<1>5. ASSUME NEW t \in 0..(m - 1) PROVE c[e[t]] = b[e[t]]
  <2>1. t \in Nat /\ t \in 0..((m + n) - 1) /\ \A i \in 1..n : m + (i - 1) # t
    BY <1>1
  <2>2. ASSUME NEW i \in 1..n, h[i] = e[t] PROVE FALSE
    <3>1. m + (i - 1) \in 0..((m + n) - 1) /\ e[m + (i - 1)] = e[t]
      BY Zenon, <1>4, <2>2
    <3>2. m + (i - 1) = t
      BY Zenon, <1>3, <2>1, <3>1
    <3> QED BY Zenon, <2>1, <3>2
  <2> QED BY Zenon, <1>2, <2>1, <2>2 DEF Fills
<1>6. ASSUME NEW i \in 1..n PROVE c[e[m + (i - 1)]].frame = w[i]
  <2>1. \A j \in 1..n : m + (j - 1) = m + (i - 1) => j = i
    BY <1>1
  <2>2. ASSUME NEW j \in 1..n, h[j] = h[i] PROVE j = i
    <3>1. /\ m + (j - 1) \in 0..((m + n) - 1) /\ m + (i - 1) \in 0..((m + n) - 1)
          /\ e[m + (j - 1)] = e[m + (i - 1)]
      BY Zenon, <1>4, <2>2
    <3> QED BY Zenon, <1>3, <2>1, <3>1
  <2>3. c[h[i]].frame = w[i]
    BY Zenon, <2>2 DEF Fills
  <2> QED BY Zenon, <1>4, <2>3
<1>7. \A t \in 0..(m - 1) : t \in Nat
  BY <1>1
<1> QED
  BY Zenon, <1>2, <1>4, <1>5, <1>6, <1>7 DEF m, Filled

\* The frames that were handed back, then those still pending, are the same after
\* the device has handed over the next n.
LEMMA FillKeepsOrder ==
    ASSUME NEW r \in Ring, NEW L \in Idx, NEW F \in SUBSET Desc, NEW p \in 0..1, Partition(r, L, F, p),
           NEW n \in 0..Out(r), NEW b \in [Desc -> BufType], NEW w \in Seq(Nat), n <= Len(w),
           NEW c \in [Desc -> BufType], Filled(c, b, w, n, r, L)
    PROVE  Handed(c, Consumed(r, n), L) \o SubSeq(w, n + 1, Len(w)) = Handed(b, r, L) \o w
<1> DEFINE m == Back(r, L)
           q == Consumed(r, n)
           N == InPlay(r, L, p)
           u == Handed(b, r, L)
           v == Handed(c, q, L)
<1>1. q \in Ring /\ Back(q, L) = m + n /\ \A t \in 0..(N - 1) : Entry(q, L, t) = Entry(r, L, t)
  BY Zenon, ConsumeKeepsPartition
<1>2. /\ m \in Nat /\ Out(r) \in Nat /\ n \in Nat /\ n <= Out(r) /\ N = (m + Out(r)) + p
      /\ n \in 0..Len(w)
  <2>1. m \in Nat /\ Out(r) \in Nat
    BY RingFacts
  <2>2. N = (m + Out(r)) + p
    BY <2>1 DEF InPlay
  <2> QED BY <2>1, <2>2
<1>3. /\ u \in Seq(Nat) /\ Len(u) = m
      /\ \A i \in 1..m : u[i] = b[Entry(r, L, i - 1)].frame
  BY Zenon, HandedIs
<1>4. /\ v \in Seq(Nat) /\ Len(v) = m + n
      /\ \A i \in 1..(m + n) : v[i] = c[Entry(q, L, i - 1)].frame
  <2> HIDE DEF q, m
  <2> QED BY Zenon, <1>1, HandedIs
<1> HIDE DEF m, q, u, v, N
<1>5. \A t \in 0..((m + n) - 1) : Entry(q, L, t) = Entry(r, L, t)
  <2>1. \A t \in 0..((m + n) - 1) : t \in 0..(N - 1)
    BY <1>2
  <2> QED BY Zenon, <1>1, <2>1
<1>6. ASSUME NEW i \in 1..m PROVE v[i] = u[i]
  <2>1. i \in 1..(m + n) /\ i - 1 \in 0..((m + n) - 1) /\ i - 1 \in 0..(m - 1)
    BY <1>2
  <2>2. v[i] = c[Entry(r, L, i - 1)].frame
    BY Zenon, <1>4, <1>5, <2>1
  <2>3. c[Entry(r, L, i - 1)] = b[Entry(r, L, i - 1)]
    BY Zenon, <2>1 DEF m, Filled
  <2> QED BY Zenon, <1>3, <2>2, <2>3
<1>7. ASSUME NEW i \in 1..n PROVE v[m + i] = w[i]
  <2>1. m + i \in 1..(m + n) /\ m + (i - 1) \in 0..((m + n) - 1) /\ (m + i) - 1 = m + (i - 1)
    BY <1>2
  <2>2. v[m + i] = c[Entry(r, L, m + (i - 1))].frame
    BY Zenon, <1>4, <1>5, <2>1
  <2>3. c[Entry(r, L, m + (i - 1))].frame = w[i]
    BY Zenon DEF m, Filled
  <2> QED BY Zenon, <2>2, <2>3
<1>8. v \o SubSeq(w, n + 1, Len(w)) = u \o w
  BY Zenon, <1>2, <1>3, <1>4, <1>6, <1>7, Handover
<1> QED
  BY Zenon, <1>8 DEF u, v, q

RxReady(q, b, r, L, p) == (IF q.ready THEN Handed(b, r, L) ELSE << >>) \o p

\* The frames on their way to the driver, in terms of the window.
RxQueue == RxReady(queues["rx"], bufs["rx"], rings["rx"], drv.lastUsed["rx"], pending)

RxOn == queues["rx"].ready

RxFifo == FifoStep(RxOn, RxQueue, got, RxOn', RxQueue', got')

\* Chains are consumed only while a queue is ready, and it stays so.
LEMMA ReadyKept ==
    ASSUME OwnerInv, NEW k \in Queue, NEW n, Consume(k, n)
    PROVE  \A j \in Queue : queues'[j].ready = queues[j].ready
<1>1. queues \in [Queue -> QueueType]
  BY Zenon DEF OwnerInv, Types
<1> QED
  BY <1>1 DEF Consume, QueueType

\* pumpRXLocked only hands frames over.
LEMMA RxPump ==
    ASSUME OwnerInv, queues["rx"].ready, NEW n \in 0..Avail("rx"), n <= Len(pending), PumpRX(n),
           drv'.free = drv.free, drv'.lastUsed = drv.lastUsed, drv'.pc = drv.pc
    PROVE  RxQueue' = RxQueue /\ RxOn' = RxOn
<1>1. PICK r, L, b, F, p, w : /\ r = rings["rx"] /\ L = drv.lastUsed["rx"] /\ b = bufs["rx"]
                              /\ F = drv.free["rx"] /\ p = Posts("rx") /\ w = pending
  BY Zenon
<1>2. PICK q, c : q = rings'["rx"] /\ c = bufs'["rx"]
  BY Zenon
<1>3. "rx" \in Queue
  BY DEF Queue
<1>4. /\ r \in Ring /\ L \in Idx /\ b \in [Desc -> BufType] /\ p \in 0..1
      /\ w \in Seq(Nat) /\ F \in SUBSET Desc /\ bufs \in [Queue -> [Desc -> BufType]]
  BY Zenon, <1>1, <1>3, QueueTypes DEF OwnerInv, Types
<1>5. /\ Partition(r, L, F, p) /\ n \in 0..Out(r) /\ Out(r) \in Nat
      /\ \A i \in 1..Out(r) : HeadAt("rx", i) = Entry(r, L, Back(r, L) + (i - 1))
  <2>1. /\ Partition(r, L, F, p) /\ Avail("rx") = Out(r) /\ Unseen("rx") = Back(r, L)
        /\ Avail("rx") \in Nat
    BY Zenon, <1>1, <1>3, QueueView
  <2>2. \A i \in 1..Avail("rx") : HeadAt("rx", i) = Entry(r, L, Unseen("rx") + (i - 1))
    BY Zenon, <1>1, <1>3, QueueView
  <2> QED BY Zenon, <2>1, <2>2
<1>6. /\ q = Consumed(r, n) /\ queues'["rx"].ready /\ c \in [Desc -> BufType]
  <2>1. Consume("rx", n)
    BY Zenon DEF PumpRX
  <2>2. q = Consumed(r, n) /\ queues'["rx"].ready
    BY Zenon, <1>1, <1>2, <1>3, <2>1, ConsumeKeeps
  <2>3. bufs' \in [Queue -> [Desc -> BufType]]
    BY Zenon, PumpKeeps
  <2> QED BY Zenon, <1>2, <1>3, <2>2, <2>3
<1>7. PICK h : h = [i \in 1..n |-> HeadAt("rx", i)]
  BY Zenon
<1>8. \A i \in 1..n : h[i] = HeadAt("rx", i) /\ h[i] = Entry(r, L, Back(r, L) + (i - 1)) /\ h[i] \in Desc
  <2>1. \A i \in 1..n : i \in 1..Out(r) /\ Back(r, L) + (i - 1) \in Nat
    <3>1. Back(r, L) \in Nat
      BY <1>4, RingFacts
    <3> QED BY <1>5, <3>1
  <2> QED BY ZenonT(60), <1>4, <1>5, <1>7, <2>1, RingFacts
<1> DEFINE Hit(d) == {i \in 1..n : HeadAt("rx", i) = d}
           fill == [d \in Desc |-> IF Hit(d) = {} THEN bufs["rx"][d]
                                   ELSE Buffer("full", pending[CHOOSE i \in Hit(d) : TRUE])]
<1>9. \A d \in Desc : c[d] = IF Hit(d) = {} THEN b[d] ELSE Buffer("full", w[CHOOSE i \in Hit(d) : TRUE])
  <2>1. bufs' = [bufs EXCEPT !["rx"] = fill]
    BY Zenon DEF PumpRX, FillBuffers
  <2>2. c = fill
    <3> HIDE DEF fill
    <3> QED BY Zenon, <1>2, <1>3, <1>4, <2>1
  <2>3. \A d \in Desc : fill[d] = IF Hit(d) = {} THEN b[d]
                                   ELSE Buffer("full", w[CHOOSE i \in Hit(d) : TRUE])
    <3>1. fill = [d \in Desc |-> IF Hit(d) = {} THEN b[d]
                                 ELSE Buffer("full", w[CHOOSE i \in Hit(d) : TRUE])]
      BY <1>1
    <3> HIDE DEF fill, Hit
    <3> QED BY Zenon, <3>1
  <2> HIDE DEF fill, Hit
  <2> QED BY Zenon, <2>2, <2>3
<1>10. ASSUME NEW d \in Desc, \A i \in 1..n : h[i] # d PROVE c[d] = b[d]
  <2>1. Hit(d) = {}
    BY Zenon, <1>8, <1>10
  <2> QED BY Zenon, <1>9, <2>1
<1>11. ASSUME NEW i \in 1..n, \A j \in 1..n : h[j] = h[i] => j = i PROVE c[h[i]].frame = w[i]
  <2> DEFINE z == CHOOSE j \in Hit(h[i]) : TRUE
  <2>1. i \in Hit(h[i])
    BY Zenon, <1>8
  <2>2. z \in Hit(h[i])
    BY Zenon, <2>1
  <2>3. z = i
    BY Zenon, <1>8, <1>11, <2>2
  <2>4. c[h[i]] = Buffer("full", w[z])
    BY Zenon, <1>8, <1>9, <2>1
  <2>5. Buffer("full", w[i]).frame = w[i]
    BY DEF Buffer
  <2> QED BY Zenon, <2>3, <2>4, <2>5
<1>12. Heads(h, n, r, L) /\ Fills(c, b, w, h, n)
  BY Zenon, <1>8, <1>10, <1>11 DEF Heads, Fills
<1>13. Filled(c, b, w, n, r, L)
  BY Zenon, <1>4, <1>5, <1>12, FillIs
<1>14. n <= Len(w)
  BY Zenon, <1>1
<1>15. Handed(c, q, L) \o SubSeq(w, n + 1, Len(w)) = Handed(b, r, L) \o w
  BY ZenonT(60), <1>4, <1>5, <1>6, <1>13, <1>14, FillKeepsOrder
<1>16. pending' = SubSeq(w, n + 1, Len(w)) /\ drv'.lastUsed["rx"] = L
  BY Zenon, <1>1 DEF PumpRX
<1>17. RxQueue' = Handed(c, q, L) \o SubSeq(w, n + 1, Len(w))
  BY Zenon, <1>2, <1>6, <1>16 DEF RxQueue, RxReady
<1>18. RxQueue = Handed(b, r, L) \o w
  BY Zenon, <1>1 DEF RxQueue, RxReady
<1>19. RxOn' = RxOn
  BY Zenon, <1>3, ReadyKept DEF PumpRX, RxOn
<1> QED
  BY Zenon, <1>15, <1>17, <1>18, <1>19

\* What the driver has not seen of the receive queue, and what is pending.
LEMMA RxTypes ==
    ASSUME OwnerInv
    PROVE  /\ "rx" \in Queue /\ rings["rx"] \in Ring /\ drv.lastUsed["rx"] \in Idx
           /\ bufs["rx"] \in [Desc -> BufType] /\ drv.free["rx"] \in SUBSET Desc
           /\ pending \in Seq(Nat) /\ got \in Seq(Nat)
           /\ Handed(bufs["rx"], rings["rx"], drv.lastUsed["rx"]) \in Seq(Nat)
           /\ RxQueue \in Seq(Nat)
           /\ queues["rx"].ready =>
                RxQueue = Handed(bufs["rx"], rings["rx"], drv.lastUsed["rx"]) \o pending
           /\ ~queues["rx"].ready => RxQueue = pending
<1>1. /\ "rx" \in Queue /\ rings["rx"] \in Ring /\ drv.lastUsed["rx"] \in Idx
      /\ bufs["rx"] \in [Desc -> BufType] /\ drv.free["rx"] \in SUBSET Desc
      /\ pending \in Seq(Nat) /\ got \in Seq(Nat)
  BY QueueTypes DEF OwnerInv, Types, Queue
<1>2. Handed(bufs["rx"], rings["rx"], drv.lastUsed["rx"]) \in Seq(Nat)
  BY Zenon, <1>1, HandedIs
<1>3. queues["rx"].ready =>
        RxQueue = Handed(bufs["rx"], rings["rx"], drv.lastUsed["rx"]) \o pending
  BY Zenon DEF RxQueue, RxReady
<1>4. ~queues["rx"].ready => RxQueue = pending
  BY Zenon, <1>1, Nothing DEF RxQueue, RxReady
<1>5. RxQueue \in Seq(Nat)
  BY Zenon, <1>1, <1>2, <1>3, <1>4, Concat
<1> QED
  BY Zenon, <1>1, <1>2, <1>3, <1>4, <1>5

\* Steps that touch neither.
LEMMA RxSame ==
    ASSUME queues'["rx"] = queues["rx"], bufs'["rx"] = bufs["rx"], rings'["rx"] = rings["rx"],
           drv'.lastUsed["rx"] = drv.lastUsed["rx"], pending' = pending
    PROVE  RxQueue' = RxQueue
BY Zenon DEF RxQueue

\* The driver posts a buffer: its descriptor is free, so that nothing in the window
\* is overwritten.
LEMMA PostView ==
    ASSUME OwnerInv, NEW k \in Queue, NEW x \in BufType, PostBuffer(k, x)
    PROVE  /\ queues[k].ready /\ queues' = queues /\ pending' = pending /\ drv'.lastUsed = drv.lastUsed
           /\ rings' \in [Queue -> Ring] /\ bufs' \in [Queue -> [Desc -> BufType]]
           /\ \A j \in Queue \ {k} : rings'[j] = rings[j] /\ bufs'[j] = bufs[j]
           /\ Back(rings'[k], drv.lastUsed[k]) = Back(rings[k], drv.lastUsed[k])
           /\ Out(rings'[k]) = Out(rings[k])
           /\ \A t \in 0..(InPlay(rings[k], drv.lastUsed[k], 0) - 1) :
                 bufs'[k][Entry(rings'[k], drv.lastUsed[k], t)] = bufs[k][Entry(rings[k], drv.lastUsed[k], t)]
<1>1. PICK r, L, b, F : r = rings[k] /\ L = drv.lastUsed[k] /\ b = bufs[k] /\ F = drv.free[k]
  BY Zenon
<1>2. r \in Ring /\ L \in Idx /\ b \in [Desc -> BufType] /\ F \in SUBSET Desc
  BY Zenon, <1>1, QueueTypes DEF OwnerInv
<1>3. queues[k].ready /\ queues' = queues /\ pending' = pending /\ drv.pc = "run"
  BY Zenon DEF PostBuffer
<1>4. /\ drv'.lastUsed = drv.lastUsed /\ bufs' \in [Queue -> [Desc -> BufType]]
      /\ rings' \in [Queue -> Ring] /\ bufs \in [Queue -> [Desc -> BufType]]
      /\ \A j \in Queue \ {k} : rings'[j] = rings[j]
  BY Zenon, PostKeeps DEF OwnerInv, Types
<1>5. \E d \in drv.free[k] : Puts(k, x, d)
  BY Zenon, PostKeeps
<1>6. PICK d \in F : bufs' = [bufs EXCEPT ![k][d] = x] /\ rings'[k] = Posted(r, d)
  BY Zenon, <1>1, <1>5 DEF Puts
<1>7. PICK c : c = bufs'[k]
  BY Zenon
<1>8. \A e \in Desc : e # d => c[e] = b[e]
  BY <1>1, <1>4, <1>6, <1>7
<1>9. \A j \in Queue \ {k} : bufs'[j] = bufs[j]
  BY Zenon, <1>4, <1>6
<1>10. Partition(r, L, F, 0)
  <2>1. Posts(k) = 0
    BY Zenon, <1>3, Names DEF Posts
  <2> QED BY Zenon, <1>1, <1>3, <2>1, QueueView
<1> DEFINE q == Posted(r, d)
<1>11. /\ Back(q, L) = Back(r, L) /\ Out(q) = Out(r)
       /\ \A t \in 0..(InPlay(r, L, 0) - 1) : Entry(q, L, t) = Entry(r, L, t)
  <2>1. Kept(q, r, L)
    BY Zenon, <1>2, <1>10, PostKeepsPartition
  <2> QED BY Zenon, <2>1 DEF Kept
<1>12. rings'[k] = q
  BY Zenon, <1>6
<1> HIDE DEF q
<1>13. Spread(InPlay(r, L, 0), F, r, L)
  <2>1. 0 \in 0..1
    OBVIOUS
  <2> QED BY Zenon, <1>2, <1>10, <2>1, Distinct
<1>14. ASSUME NEW t \in 0..(InPlay(r, L, 0) - 1) PROVE c[Entry(q, L, t)] = b[Entry(r, L, t)]
  <2>1. Entry(q, L, t) = Entry(r, L, t) /\ Entry(r, L, t) # d
    BY Zenon, <1>11, <1>13 DEF Spread
  <2>2. t \in Nat
    OBVIOUS
  <2>3. Entry(r, L, t) \in Desc
    BY Zenon, <1>2, <2>2, RingFacts
  <2> QED BY Zenon, <1>8, <2>1, <2>3
<1> QED
  BY ZenonT(60), <1>1, <1>3, <1>4, <1>7, <1>9, <1>11, <1>12, <1>14

\* The driver publishes it: the window is the same, and one more chain is out.
LEMMA PublishView ==
    ASSUME OwnerInv, NEW k \in Queue, Publish(k), queues[k].ready
    PROVE  /\ rings'[k] \in Ring /\ Back(rings'[k], drv.lastUsed[k]) = Back(rings[k], drv.lastUsed[k])
           /\ Out(rings'[k]) = Out(rings[k]) + 1
           /\ \A t \in Nat : Entry(rings'[k], drv.lastUsed[k], t) = Entry(rings[k], drv.lastUsed[k], t)
<1>1. PICK r, L, F : r = rings[k] /\ L = drv.lastUsed[k] /\ F = drv.free[k]
  BY Zenon
<1>2. r \in Ring /\ L \in Idx /\ F \in SUBSET Desc
  BY Zenon, <1>1, QueueTypes DEF OwnerInv
<1>3. Partition(r, L, F, 1)
  <2>1. Posts(k) = 1
    BY Zenon DEF Publish, Posts
  <2> QED BY Zenon, <1>1, <2>1, QueueView
<1> DEFINE q == [r EXCEPT !.availIdx = Plus(@, 1)]
<1>4. /\ q \in Ring /\ Back(q, L) = Back(r, L) /\ Out(q) = Out(r) + 1
      /\ \A t \in Nat : Entry(q, L, t) = Entry(r, L, t)
  BY ZenonT(60), <1>2, <1>3, PublishKeepsPartition
<1>5. rings'[k] = q
  <2>1. rings \in [Queue -> Ring]
    BY Zenon DEF OwnerInv, Types
  <2> QED BY <1>1, <2>1 DEF Publish
<1> HIDE DEF q
<1> QED
  BY Zenon, <1>1, <1>4, <1>5

\* What the driver keeps when it publishes.
LEMMA PublishRest ==
    ASSUME OwnerInv, NEW k \in Queue, Publish(k)
    PROVE  /\ UNCHANGED <<queues, bufs, pending, sent, got>> /\ drv'.lastUsed = drv.lastUsed
           /\ \A j \in Queue \ {k} : rings'[j] = rings[j]
<1>1. drv \in DrvType /\ rings \in [Queue -> Ring]
  BY Zenon DEF OwnerInv, Types
<1>2. UNCHANGED <<queues, bufs, pending, sent, got>>
  BY Zenon DEF Publish
<1>3. drv'.lastUsed = drv.lastUsed
  BY <1>1 DEF Publish, DrvType
<1>4. \A j \in Queue \ {k} : rings'[j] = rings[j]
  BY Zenon, <1>1 DEF Publish
<1> QED
  BY Zenon, <1>2, <1>3, <1>4

LEMMA RxPost ==
    ASSUME OwnerInv, NEW x \in BufType, PostBuffer("rx", x)
    PROVE  RxQueue' = RxQueue
<1>1. PICK r, L, b, q, c : /\ r = rings["rx"] /\ L = drv.lastUsed["rx"] /\ b = bufs["rx"]
                           /\ q = rings'["rx"] /\ c = bufs'["rx"]
  BY Zenon
<1>2. "rx" \in Queue /\ r \in Ring /\ L \in Idx /\ b \in [Desc -> BufType]
  BY Zenon, <1>1, RxTypes
<1>3. /\ queues["rx"].ready /\ queues' = queues /\ pending' = pending /\ drv'.lastUsed = drv.lastUsed
      /\ q \in Ring /\ c \in [Desc -> BufType] /\ Back(q, L) = Back(r, L)
      /\ \A t \in 0..(InPlay(r, L, 0) - 1) : c[Entry(q, L, t)] = b[Entry(r, L, t)]
  BY Zenon, <1>1, <1>2, PostView
<1>4. \A t \in 0..(Back(r, L) - 1) : t \in 0..(InPlay(r, L, 0) - 1)
  <2>1. Back(r, L) \in Nat /\ Out(r) \in Nat
    BY <1>2, RingFacts
  <2>2. InPlay(r, L, 0) = Back(r, L) + Out(r)
    BY <2>1 DEF InPlay
  <2> QED BY <2>1, <2>2
<1>5. \A t \in 0..(Back(r, L) - 1) : c[Entry(q, L, t)] = b[Entry(r, L, t)]
  BY Zenon, <1>3, <1>4
<1>6. Handed(c, q, L) = Handed(b, r, L)
  BY Zenon, <1>2, <1>3, <1>5, HandedSame
<1> QED
  BY Zenon, <1>1, <1>3, <1>6 DEF RxQueue, RxReady

LEMMA RxPublish ==
    ASSUME OwnerInv, Publish("rx")
    PROVE  RxQueue' = RxQueue
<1>1. PICK r, L, b, q : /\ r = rings["rx"] /\ L = drv.lastUsed["rx"] /\ b = bufs["rx"]
                        /\ q = rings'["rx"]
  BY Zenon
<1>2. "rx" \in Queue /\ r \in Ring /\ L \in Idx /\ b \in [Desc -> BufType]
  BY Zenon, <1>1, RxTypes
<1>3. UNCHANGED <<queues, bufs, pending>> /\ drv'.lastUsed = drv.lastUsed
  BY Zenon, <1>2, PublishRest
<1>4. CASE ~queues["rx"].ready
  BY Zenon, <1>3, <1>4 DEF RxQueue, RxReady
<1>5. CASE queues["rx"].ready
  <2>1. q \in Ring /\ Back(q, L) = Back(r, L) /\ \A t \in Nat : Entry(q, L, t) = Entry(r, L, t)
    BY Zenon, <1>1, <1>2, <1>5, PublishView
  <2>2. \A t \in 0..(Back(r, L) - 1) : b[Entry(q, L, t)] = b[Entry(r, L, t)]
    <3>1. \A t \in 0..(Back(r, L) - 1) : t \in Nat
      BY <1>2, RingFacts
    <3> QED BY Zenon, <2>1, <3>1
  <2>3. Handed(b, q, L) = Handed(b, r, L)
    BY Zenon, <1>2, <2>1, <2>2, HandedSame
  <2> QED BY Zenon, <1>1, <1>3, <1>5, <2>3 DEF RxQueue, RxReady
<1> QED
  BY Zenon, <1>4, <1>5

\* The driver takes the first frame.
LEMMA RxReap ==
    ASSUME OwnerInv, Reap("rx")
    PROVE  RxFifo
<1>1. PICK r, L, b, F, w, M : /\ r = rings["rx"] /\ L = drv.lastUsed["rx"] /\ b = bufs["rx"]
                              /\ F = drv.free["rx"] /\ w = pending /\ M = Plus(L, 1)
  BY Zenon
<1>2. /\ "rx" \in Queue /\ r \in Ring /\ L \in Idx /\ b \in [Desc -> BufType] /\ F \in SUBSET Desc
      /\ w \in Seq(Nat) /\ got \in Seq(Nat) /\ Posts("rx") \in 0..1
  BY Zenon, <1>1, RxTypes, QueueTypes DEF OwnerInv
<1>3. /\ queues["rx"].ready /\ L # r.usedIdx /\ UNCHANGED <<queues, rings, bufs, pending>>
      /\ got' = Append(got, b[r.used[L % QNum]].frame)
  BY ZenonT(60), <1>1 DEF Reap
<1>4. drv'.lastUsed["rx"] = M
  <2>1. drv \in DrvType
    BY Zenon DEF OwnerInv, Types
  <2> QED BY Zenon, <1>1, <1>2, <2>1 DEF Reap, DrvType
<1>5. /\ M \in Idx /\ r.used[L % QNum] = Entry(r, L, 0)
      /\ Back(r, L) > 0 /\ Back(r, M) = Back(r, L) - 1
      /\ \A t \in Nat : Entry(r, M, t) = Entry(r, L, t + 1)
  <2>1. Partition(r, L, F, Posts("rx"))
    BY Zenon, <1>1, <1>2, <1>3, QueueView
  <2> QED BY Zenon, <1>1, <1>2, <1>3, <2>1, ReapKeepsPartition
<1> DEFINE u == Handed(b, r, L)
           v == Handed(b, r, M)
           n == Back(r, M)
<1>6. /\ u \in Seq(Nat) /\ Len(u) = Back(r, L) /\ Back(r, L) \in Nat
      /\ \A i \in 1..Back(r, L) : u[i] = b[Entry(r, L, i - 1)].frame
  BY Zenon, <1>2, HandedIs
<1>7. /\ v \in Seq(Nat) /\ Len(v) = n /\ n \in Nat
      /\ \A i \in 1..n : v[i] = b[Entry(r, M, i - 1)].frame
  BY Zenon, <1>2, <1>5, HandedIs
<1> HIDE DEF u, v, n
<1>8. Back(r, L) = n + 1
  BY <1>5, <1>6 DEF n
<1>9. ASSUME NEW i \in 1..Len(v) PROVE v[i] = u[i + 1]
  <2>1. i \in 1..n /\ i - 1 \in Nat /\ i + 1 \in 1..(n + 1) /\ (i - 1) + 1 = i /\ (i + 1) - 1 = i
    BY <1>7
  <2>2. v[i] = b[Entry(r, L, i)].frame
    BY Zenon, <1>5, <1>7, <2>1
  <2>3. u[i + 1] = b[Entry(r, L, i)].frame
    BY Zenon, <1>6, <1>8, <2>1
  <2> QED BY Zenon, <2>2, <2>3
<1>10. u[1] = b[r.used[L % QNum]].frame
  <2>1. 1 \in 1..(n + 1) /\ 1 - 1 = 0
    BY <1>7
  <2> QED BY Zenon, <1>5, <1>6, <1>8, <2>1
<1>11. Moves(RxOn, u \o w, got, v \o w, Append(got, u[1]))
  <2>1. Len(u) = Len(v) + 1
    BY Zenon, <1>6, <1>7, <1>8
  <2>2. RxOn
    BY Zenon, <1>3 DEF RxOn
  <2> QED BY Zenon, <1>2, <1>6, <1>7, <1>9, <2>1, <2>2, MovesHead
<1>12. RxQueue = u \o w
  BY Zenon, <1>1, <1>3 DEF RxQueue, RxReady, u
<1>13. RxQueue' = v \o w /\ RxOn' = RxOn
  BY Zenon, <1>1, <1>3, <1>4 DEF RxQueue, RxReady, RxOn, v
<1> QED
  BY Zenon, <1>3, <1>10, <1>11, <1>12, <1>13 DEF RxFifo, FifoStep

\* The queue loses what it had handed back, the device that starts over all.
LEMMA RxClose ==
    ASSUME OwnerInv, RxOn' = FALSE, got' = got, pending' = pending \/ pending' = << >>
    PROVE  RxFifo
<1>1. PICK u, w : u = Handed(bufs["rx"], rings["rx"], drv.lastUsed["rx"]) /\ w = pending
  BY Zenon
<1>2. /\ u \in Seq(Nat) /\ w \in Seq(Nat) /\ got \in Seq(Nat)
      /\ RxOn => RxQueue = u \o w
      /\ ~RxOn => RxQueue = w
  BY Zenon, <1>1, RxTypes DEF RxOn
<1>3. RxQueue' = pending'
  <2>1. pending' \in Seq(Nat)
    <3>1. << >> \in Seq(Nat)
      OBVIOUS
    <3> QED BY Zenon, <1>1, <1>2, <3>1
  <2> QED BY Zenon, <2>1, Nothing DEF RxQueue, RxReady, RxOn
<1>4. CASE pending' = << >>
  BY Zenon, <1>3, <1>4 DEF RxFifo, FifoStep, Turns
<1>5. CASE pending' = w /\ RxOn
  <2>1. \E n \in 0..Len(u \o w) : w = SubSeq(u \o w, n + 1, Len(u \o w))
    BY Zenon, <1>2, MovesTake
  <2> QED BY Zenon, <1>2, <1>3, <1>5, <2>1 DEF RxFifo, FifoStep, Turns
<1>6. CASE pending' = w /\ ~RxOn
  <2>1. RxOn = FALSE
    BY <1>6 DEF OwnerInv, Types, QueueType, Queue, RxOn
  <2>2. RxQueue' = RxQueue
    BY Zenon, <1>2, <1>3, <1>6
  <2> QED BY Zenon, <2>1, <2>2 DEF RxFifo, FifoStep, Moves
<1> QED
  BY Zenon, <1>1, <1>4, <1>5, <1>6

LEMMA Opened ==
    ASSUME OwnerInv, NEW k \in Queue, QueueReady(k)
    PROVE  queues'[k].ready
<1>1. queues \in [Queue -> QueueType]
  BY Zenon DEF OwnerInv, Types
<1> QED
  BY <1>1 DEF QueueReady, QueueType

LEMMA RxOpen ==
    ASSUME OwnerInv, QueueReady("rx")
    PROVE  RxFifo
<1>1. "rx" \in Queue /\ bufs["rx"] \in [Desc -> BufType] /\ pending \in Seq(Nat)
  BY Zenon, RxTypes
<1>2. /\ ~queues["rx"].ready /\ bufs' = bufs /\ pending' = pending
      /\ rings'["rx"] = EmptyRing /\ drv'.lastUsed["rx"] = 0
  <2>1. drv \in DrvType /\ rings \in [Queue -> Ring]
    BY Zenon DEF OwnerInv, Types
  <2> QED BY <1>1, <2>1 DEF QueueReady, DrvType
<1>3. EmptyRing \in Ring /\ 0 \in Idx
  BY EmptyPartition, Sizes DEF Idx
<1>4. Back(EmptyRing, 0) = 0
  <2>1. EmptyRing.usedIdx = 0
    BY DEF EmptyRing
  <2>2. Ahead(0, 0) = 0
    BY Zenon, <1>3, Distances
  <2> QED BY Zenon, <2>1, <2>2 DEF Back
<1>5. Handed(bufs["rx"], EmptyRing, 0) = << >>
  BY Zenon, <1>1, <1>3, <1>4, HandedIs, Nothing
<1>6. RxQueue' = << >> \o pending
  BY Zenon, <1>2, <1>5 DEF RxQueue, RxReady
<1>7. RxQueue' = RxQueue
  BY Zenon, <1>2, <1>6 DEF RxQueue, RxReady
<1>8. ~RxOn /\ RxOn' /\ got' = got
  BY Zenon, <1>1, <1>2, Opened DEF QueueReady, RxOn
<1> QED
  BY Zenon, <1>7, <1>8 DEF RxFifo, FifoStep, Turns

\* A frame is injected.
LEMMA RxInject ==
    ASSUME OwnerInv, InjectGuestFrame
    PROVE  RxFifo
<1>1. PICK u, w, x : /\ u = Handed(bufs["rx"], rings["rx"], drv.lastUsed["rx"]) /\ w = pending
                     /\ x = work.frames["rx"]
  BY Zenon
<1>2. /\ u \in Seq(Nat) /\ w \in Seq(Nat) /\ RxQueue \in Seq(Nat)
      /\ queues["rx"].ready => RxQueue = u \o w
      /\ ~queues["rx"].ready => RxQueue = w
  BY Zenon, <1>1, RxTypes
<1>3. x \in Nat
  BY <1>1 DEF OwnerInv, Types, Workload, Queue
<1>4. pending' = Append(w, x) /\ got' = got /\ UNCHANGED <<queues, bufs, rings, drv>>
  BY Zenon, <1>1 DEF InjectGuestFrame
<1>5. RxQueue' = Append(RxQueue, x)
  <2>1. CASE queues["rx"].ready
    <3>1. RxQueue' = u \o Append(w, x)
      BY Zenon, <1>1, <1>4, <2>1 DEF RxQueue, RxReady
    <3>2. u \o Append(w, x) = Append(u \o w, x)
      BY Zenon, <1>2, <1>3, ConcatAppend
    <3> QED BY Zenon, <1>2, <2>1, <3>1, <3>2
  <2>2. CASE ~queues["rx"].ready
    <3>1. RxQueue' = << >> \o Append(w, x)
      BY Zenon, <1>1, <1>4, <2>2 DEF RxQueue, RxReady
    <3>2. Append(w, x) \in Seq(Nat)
      BY <1>2, <1>3
    <3> QED BY Zenon, <1>2, <2>2, <3>1, <3>2, Nothing
  <2> QED BY Zenon, <2>1, <2>2
<1> QED
  BY Zenon, <1>2, <1>3, <1>4, <1>5, MovesSend DEF RxFifo, FifoStep, RxOn

\* Every step moves received frames as a FIFO does.
LEMMA RxStep == OwnerInv /\ [Next]_vars => RxFifo
<1> SUFFICES ASSUME OwnerInv, [Next]_vars PROVE RxFifo
  OBVIOUS
<1>1. /\ "rx" \in Queue /\ "tx" \in Queue /\ "tx" # "rx" /\ drv \in DrvType
      /\ queues \in [Queue -> QueueType] /\ rings \in [Queue -> Ring]
      /\ bufs \in [Queue -> [Desc -> BufType]]
  BY DEF OwnerInv, Types, Queue
<1>2. ASSUME RxQueue' = RxQueue, RxOn' = RxOn, got' = got PROVE RxFifo
  BY Zenon, <1>2 DEF RxFifo, FifoStep, Moves
<1>3. CASE NotifyTX
  <2>1. /\ drv'.lastUsed = drv.lastUsed /\ drv'.free = drv.free /\ drv'.pc = drv.pc
        /\ UNCHANGED <<bufs, pending, got>>
    BY <1>1, <1>3 DEF NotifyTX, DrvType
  <2>2. queues'["rx"] = queues["rx"] /\ rings'["rx"] = rings["rx"]
    <3>1. CASE queues["tx"].ready
      <4>1. DrainTX
        BY Zenon, <1>3, <3>1 DEF NotifyTX
      <4>2. PICK n \in 0..Avail("tx") : Consume("tx", n)
        BY Zenon, <3>1, <4>1, DrainCount
      <4> QED BY Zenon, <1>1, <2>1, <3>1, <4>2, ConsumeKeeps
    <3>2. CASE ~queues["tx"].ready
      BY Zenon, <1>3, <3>2 DEF NotifyTX
    <3> QED BY Zenon, <3>1, <3>2
  <2> QED BY Zenon, <1>2, <2>1, <2>2, RxSame DEF RxOn
<1>4. CASE NotifyRX
  <2>1. drv'.lastUsed = drv.lastUsed /\ drv'.free = drv.free /\ drv'.pc = drv.pc /\ got' = got
    BY <1>1, <1>4 DEF NotifyRX, DrvType
  <2>2. CASE queues["rx"].ready
    <3>1. PumpRX(Pumped)
      BY Zenon, <1>4, <2>2 DEF NotifyRX
    <3>2. Pumped \in 0..Avail("rx") /\ Pumped <= Len(pending)
      BY Zenon, <2>2, PumpCount
    <3> QED BY Zenon, <1>2, <2>1, <2>2, <3>1, <3>2, RxPump
  <2>3. CASE ~queues["rx"].ready
    <3>1. UNCHANGED <<queues, rings, bufs, pending>>
      BY Zenon, <1>4, <2>3 DEF NotifyRX
    <3> QED BY Zenon, <1>2, <2>1, <3>1, RxSame DEF RxOn
  <2> QED BY Zenon, <2>2, <2>3
<1>5. CASE InterruptACK \/ ReapDone \/ PumpEnd
  <2>1. UNCHANGED <<queues, rings, bufs, pending, got>> /\ drv'.lastUsed = drv.lastUsed
    <3>1. CASE InterruptACK
      BY <1>1, <3>1 DEF InterruptACK, DrvType
    <3>2. CASE ReapDone
      BY <1>1, <3>2 DEF ReapDone, DrvType
    <3>3. CASE PumpEnd
      BY Zenon, <3>3 DEF PumpEnd
    <3> QED BY Zenon, <1>5, <3>1, <3>2, <3>3
  <2> QED BY Zenon, <1>2, <2>1, RxSame DEF RxOn
<1>6. CASE Reset \/ QueueNotReady("rx")
  <2>1. RxOn' = FALSE
    <3>1. ClosedQueue.ready = FALSE
      BY DEF ClosedQueue
    <3>2. queues'["rx"] = ClosedQueue
      BY Zenon, <1>1, <1>6 DEF Reset, QueueNotReady, Close
    <3> QED BY Zenon, <3>1, <3>2 DEF RxOn
  <2>2. (pending' = pending \/ pending' = << >>) /\ got' = got
    BY Zenon, <1>6 DEF Reset, QueueNotReady
  <2> QED BY Zenon, <2>1, <2>2, RxClose
<1>7. CASE QueueNotReady("tx")
  <2>1. queues'["rx"] = queues["rx"] /\ UNCHANGED <<rings, bufs, pending, drv, got>>
    BY Zenon, <1>1, <1>7 DEF QueueNotReady, Close
  <2> QED BY Zenon, <1>2, <2>1, RxSame DEF RxOn
<1>8. CASE QueueReady("rx")
  BY Zenon, <1>8, RxOpen
<1>9. CASE QueueReady("tx")
  <2>1. /\ queues'["rx"] = queues["rx"] /\ rings'["rx"] = rings["rx"]
        /\ drv'.lastUsed["rx"] = drv.lastUsed["rx"] /\ UNCHANGED <<bufs, pending, got>>
    BY <1>1, <1>9 DEF QueueReady, DrvType
  <2> QED BY Zenon, <1>2, <2>1, RxSame DEF RxOn
<1>10. CASE Publish("rx")
  BY Zenon, <1>2, <1>10, RxPublish DEF Publish, RxOn
<1>11. CASE Publish("tx")
  <2>1. UNCHANGED <<queues, bufs, pending, got>> /\ drv'.lastUsed = drv.lastUsed /\ rings'["rx"] = rings["rx"]
    BY Zenon, <1>1, <1>11, PublishRest
  <2> QED BY Zenon, <1>2, <2>1, RxSame DEF RxOn
<1>12. CASE Reap("tx")
  <2>1. UNCHANGED <<queues, rings, bufs, pending>> /\ got' = got /\ drv'.lastUsed["rx"] = drv.lastUsed["rx"]
    BY <1>1, <1>12 DEF Reap, DrvType
  <2> QED BY Zenon, <1>2, <2>1, RxSame DEF RxOn
<1>13. ASSUME NEW kind \in AllTxKinds, PostTX(kind) PROVE RxFifo
  <2>1. PICK x \in BufType : PostBuffer("tx", x)
    <3>1. Buffer(kind, work.frames["tx"]) \in BufType
      <4>1. work.frames["tx"] \in Nat
        BY <1>1 DEF OwnerInv, Types, Workload
      <4> QED BY <4>1 DEF Buffer, BufType
    <3> QED BY Zenon, <1>13, <3>1 DEF PostTX
  <2>2. /\ queues' = queues /\ pending' = pending /\ drv'.lastUsed = drv.lastUsed
        /\ rings'["rx"] = rings["rx"] /\ bufs'["rx"] = bufs["rx"]
    BY ZenonT(60), <1>1, <2>1, PostView
  <2>3. got' = got
    BY Zenon, <2>1 DEF PostBuffer
  <2> QED BY Zenon, <1>2, <2>2, <2>3, RxSame DEF RxOn
<1>14. ASSUME NEW kind \in AllRxKinds, PostRX(kind) PROVE RxFifo
  <2>1. PICK x \in BufType : PostBuffer("rx", x)
    <3>1. Buffer(kind, 0) \in BufType
      BY DEF Buffer, BufType, AllRxKinds
    <3> QED BY Zenon, <1>14, <3>1 DEF PostRX
  <2>2. got' = got /\ queues' = queues
    BY Zenon, <2>1 DEF PostBuffer
  <2> QED BY Zenon, <1>2, <2>1, <2>2, RxPost DEF RxOn
<1>15. CASE PumpOne
  <2>1. queues["rx"].ready /\ Pumped > 0 /\ PumpRX(1) /\ UNCHANGED <<drv, got>>
    BY Zenon, <1>15 DEF PumpOne
  <2>2. 1 \in 0..Avail("rx") /\ 1 <= Len(pending)
    <3>1. Pumped \in 0..Avail("rx") /\ Pumped <= Len(pending) /\ Avail("rx") \in Nat
      BY Zenon, <1>1, <2>1, PumpCount, QueueView
    <3>2. Len(pending) \in Nat
      BY DEF OwnerInv, Types
    <3> QED BY <2>1, <3>1, <3>2
  <2> QED BY Zenon, <1>2, <2>1, <2>2, RxPump
<1>16. CASE UNCHANGED vars
  BY Zenon, <1>2, <1>16, RxSame DEF vars, RxOn
<1>17. ASSUME NEW k \in Queue PROVE k = "rx" \/ k = "tx"
  BY DEF Queue
<1>18. CASE \E k \in Queue : QueueNotReady(k) \/ QueueReady(k) \/ Publish(k) \/ Reap(k)
  BY Zenon, <1>6, <1>7, <1>8, <1>9, <1>10, <1>11, <1>12, <1>17, <1>18, RxReap
<1> QED
  BY Zenon, <1>3, <1>4, <1>5, <1>6, <1>13, <1>14, <1>15, <1>16, <1>18, RxInject DEF Next, Driver

-----------------------------------------------------------------------------
(* Transmitted frames *)

\* The chains that are published and not consumed, and the frames in them.
Chained(b, r, L) == [i \in 1..Out(r) |-> b[Entry(r, L, Back(r, L) + (i - 1))]]

Waits(b, r, L) == FramesOf(Chained(b, r, L))[Out(r)]

LEMMA ChainedIs ==
    ASSUME NEW b \in [Desc -> BufType], NEW r \in Ring, NEW L \in Idx
    PROVE  /\ Out(r) \in Nat /\ Out(r) \in 0..IdxMod /\ Back(r, L) \in Nat
           /\ \A i \in 1..Out(r) : /\ Chained(b, r, L)[i] = b[Entry(r, L, Back(r, L) + (i - 1))]
                                   /\ Chained(b, r, L)[i].frame \in Nat
           /\ \A n \in 0..Out(r) : FramesOf(Chained(b, r, L))[n] \in Seq(Nat)
           /\ Waits(b, r, L) \in Seq(Nat)
<1>1. Out(r) \in Nat /\ Out(r) \in 0..IdxMod /\ Back(r, L) \in Nat
  BY RingFacts, Sizes
<1>2. \A i \in 1..Out(r) : Back(r, L) + (i - 1) \in Nat
  BY <1>1
<1>3. \A i \in 1..Out(r) : Chained(b, r, L)[i] = b[Entry(r, L, Back(r, L) + (i - 1))]
  BY Zenon DEF Chained
<1>4. \A i \in 1..Out(r) : Entry(r, L, Back(r, L) + (i - 1)) \in Desc
  BY Zenon, <1>2, RingFacts
<1>5. \A d \in Desc : b[d].frame \in Nat
  BY DEF BufType
<1>6. \A i \in 1..Out(r) : Chained(b, r, L)[i].frame \in Nat
  BY Zenon, <1>3, <1>4, <1>5
<1>7. \A n \in 0..Out(r) : FramesOf(Chained(b, r, L))[n] \in Seq(Nat)
  BY Zenon, <1>1, <1>6, FramesTyped
<1>8. Out(r) \in 0..Out(r)
  BY <1>1
<1> QED
  BY Zenon, <1>1, <1>3, <1>6, <1>7, <1>8 DEF Waits

\* They are the same if the buffers of the chains are.
SameChains(c, q, M, b, r, L) ==
    /\ Out(q) = Out(r)
    /\ \A i \in 1..Out(r) :
          c[Entry(q, M, Back(q, M) + (i - 1))] = b[Entry(r, L, Back(r, L) + (i - 1))]

LEMMA WaitsSame ==
    ASSUME NEW b, NEW r, NEW L, NEW c, NEW q, NEW M, SameChains(c, q, M, b, r, L)
    PROVE  Waits(c, q, M) = Waits(b, r, L)
<1>1. Chained(c, q, M) = Chained(b, r, L)
  BY Zenon DEF Chained, SameChains
<1> QED
  BY Zenon, <1>1 DEF Waits, SameChains

\* A chain is published.
LEMMA WaitsMore ==
    ASSUME NEW b \in [Desc -> BufType], NEW r \in Ring, NEW L \in Idx, NEW q \in Ring,
           Out(q) = Out(r) + 1, Back(q, L) = Back(r, L), NEW g, NEW o,
           \A t \in Nat : Entry(q, L, t) = Entry(r, L, t)
    PROVE  Moves(o, Waits(b, r, L), g, Waits(b, q, L), g)
<1> DEFINE x == Chained(b, q, L)
           y == Chained(b, r, L)
           n == Out(r)
<1>1. /\ n \in Nat /\ n \in 0..IdxMod /\ Back(r, L) \in Nat /\ FramesOf(y)[n] \in Seq(Nat)
      /\ \A i \in 1..n : y[i] = b[Entry(r, L, Back(r, L) + (i - 1))]
  <2>1. n \in 0..n
    BY RingFacts
  <2> QED BY Zenon, <2>1, ChainedIs
<1>2. /\ n + 1 \in 0..IdxMod
      /\ \A i \in 1..(n + 1) : /\ x[i] = b[Entry(q, L, Back(r, L) + (i - 1))]
                               /\ x[i].frame \in Nat
  <2>1. /\ Out(q) \in 0..IdxMod
        /\ \A i \in 1..Out(q) : /\ x[i] = b[Entry(q, L, Back(q, L) + (i - 1))]
                                /\ x[i].frame \in Nat
    BY Zenon, ChainedIs
  <2> HIDE DEF x
  <2> QED BY Zenon, <2>1
<1> HIDE DEF x, y, n
<1>3. \A i \in 1..n : i \in 1..(n + 1) /\ Back(r, L) + (i - 1) \in Nat
  BY <1>1
<1>4. \A i \in 1..n : x[i] = y[i]
  BY Zenon, <1>1, <1>2, <1>3
<1>5. FramesOf(x)[n] = FramesOf(y)[n]
  BY Zenon, <1>1, <1>4, FramesAgree
<1>6. FramesOf(x)[n + 1] = AddFrame(FramesOf(x)[n], x[n + 1]) /\ x[n + 1].frame \in Nat
  <2>1. n + 1 \in 1..IdxMod /\ n + 1 \in 1..(n + 1) /\ (n + 1) - 1 = n
    BY <1>1, <1>2
  <2>2. FramesOf(x)[n + 1] = AddFrame(FramesOf(x)[(n + 1) - 1], x[n + 1])
    BY Zenon, <2>1, FramesDef
  <2> QED BY Zenon, <1>2, <2>1, <2>2
<1>7. Moves(o, FramesOf(y)[n], g, FramesOf(x)[n + 1], g)
  <2>1. CASE x[n + 1].kind = "frame"
    <3>1. FramesOf(x)[n + 1] = Append(FramesOf(y)[n], x[n + 1].frame)
      BY Zenon, <1>5, <1>6, <2>1 DEF AddFrame
    <3> QED BY Zenon, <1>1, <1>6, <3>1, MovesSend
  <2>2. CASE x[n + 1].kind # "frame"
    <3>1. FramesOf(x)[n + 1] = FramesOf(y)[n]
      BY Zenon, <1>5, <1>6, <2>2 DEF AddFrame
    <3> QED BY Zenon, <3>1 DEF Moves
  <2> QED BY Zenon, <2>1, <2>2
<1> QED
  BY Zenon, <1>7 DEF Waits, x, y, n

\* The first n chains are consumed: their frames leave, and the others stay.
LEMMA WaitsLess ==
    ASSUME NEW b \in [Desc -> BufType], NEW r \in Ring, NEW L \in Idx, NEW F \in SUBSET Desc,
           NEW p \in 0..1, Partition(r, L, F, p), NEW n \in 0..Out(r)
    PROVE  Waits(b, r, L) = FramesOf(Chained(b, r, L))[n] \o Waits(b, Consumed(r, n), L)
<1> DEFINE q == Consumed(r, n)
           x == Chained(b, q, L)
           y == Chained(b, r, L)
           m == Back(r, L)
           k == Out(q)
<1>1. /\ q \in Ring /\ Back(q, L) = m + n /\ k = Out(r) - n
      /\ \A t \in 0..(InPlay(r, L, p) - 1) : Entry(q, L, t) = Entry(r, L, t)
  BY Zenon, ConsumeKeepsPartition
<1>2. /\ Out(r) \in Nat /\ Out(r) \in 0..IdxMod /\ m \in Nat
      /\ \A i \in 1..Out(r) : y[i] = b[Entry(r, L, m + (i - 1))] /\ y[i].frame \in Nat
  BY Zenon, ChainedIs
<1>3. \A i \in 1..k : x[i] = b[Entry(q, L, (m + n) + (i - 1))]
  <2>1. \A i \in 1..k : x[i] = b[Entry(q, L, Back(q, L) + (i - 1))]
    <3> HIDE DEF q
    <3> QED BY Zenon DEF Chained
  <2> HIDE DEF x, m, k
  <2> QED BY Zenon, <1>1, <2>1
<1>4. InPlay(r, L, p) = (m + Out(r)) + p
  BY <1>2 DEF InPlay
<1> HIDE DEF q, x, y, m, k
<1>5. n \in Nat /\ k \in Nat /\ n + k = Out(r) /\ n + k <= IdxMod
  BY <1>1, <1>2
<1>6. ASSUME NEW i \in 1..k PROVE x[i] = y[n + i]
  <2>1. /\ (m + n) + (i - 1) \in 0..(InPlay(r, L, p) - 1)
        /\ (m + n) + (i - 1) = m + ((n + i) - 1) /\ n + i \in 1..Out(r)
    BY <1>2, <1>4, <1>5
  <2> QED BY Zenon, <1>1, <1>2, <1>3, <2>1
<1>7. FramesOf(y)[n + k] = FramesOf(y)[n] \o FramesOf(x)[k]
  <2>1. \A i \in 1..(n + k) : y[i].frame \in Nat
    BY Zenon, <1>2, <1>5
  <2>2. Rest(x, y, n, k)
    BY Zenon, <1>5, <1>6, <2>1 DEF Rest
  <2>3. Split(x, y, n, k)
    BY Zenon, <1>5, <2>2, FramesSplit
  <2> QED BY Zenon, <2>3 DEF Split
<1> QED
  BY Zenon, <1>5, <1>7 DEF Waits, x, y, k, q

TxReady(q, b, r, L) == IF q.ready THEN Waits(b, r, L) ELSE << >>

\* The frames on their way to the stack, in terms of the window.
TxQueue == TxReady(queues["tx"], bufs["tx"], rings["tx"], drv.lastUsed["tx"])

TxOn == queues["tx"].ready

TxFifo == FifoStep(TxOn, TxQueue, sent, TxOn', TxQueue', sent')

LEMMA TxTypes ==
    ASSUME OwnerInv
    PROVE  /\ "tx" \in Queue /\ rings["tx"] \in Ring /\ drv.lastUsed["tx"] \in Idx
           /\ bufs["tx"] \in [Desc -> BufType] /\ drv.free["tx"] \in SUBSET Desc
           /\ Posts("tx") \in 0..1 /\ sent \in Seq(Nat) /\ TxQueue \in Seq(Nat)
<1>1. "tx" \in Queue /\ sent \in Seq(Nat)
  BY DEF OwnerInv, Types, Queue
<1>2. /\ rings["tx"] \in Ring /\ drv.lastUsed["tx"] \in Idx /\ Posts("tx") \in 0..1
      /\ bufs["tx"] \in [Desc -> BufType] /\ drv.free["tx"] \in SUBSET Desc
  BY Zenon, <1>1, QueueTypes DEF OwnerInv
<1>3. Waits(bufs["tx"], rings["tx"], drv.lastUsed["tx"]) \in Seq(Nat)
  BY Zenon, <1>2, ChainedIs
<1>4. TxQueue \in Seq(Nat)
  <2>1. << >> \in Seq(Nat)
    OBVIOUS
  <2> QED BY Zenon, <1>3, <2>1 DEF TxQueue, TxReady
<1> QED
  BY Zenon, <1>1, <1>2, <1>4

\* Steps that do not touch the transmit queue.
LEMMA TxSame ==
    ASSUME queues'["tx"] = queues["tx"], bufs'["tx"] = bufs["tx"], rings'["tx"] = rings["tx"],
           drv'.lastUsed["tx"] = drv.lastUsed["tx"]
    PROVE  TxQueue' = TxQueue
BY Zenon DEF TxQueue

\* The chains the device will read are the published part of the window.
LEMMA TxChainsIs ==
    ASSUME OwnerInv, queues["tx"].ready
    PROVE  /\ Avail("tx") = Out(rings["tx"])
           /\ TxChains = Chained(bufs["tx"], rings["tx"], drv.lastUsed["tx"])
<1>1. PICK r, L, b : r = rings["tx"] /\ L = drv.lastUsed["tx"] /\ b = bufs["tx"]
  BY Zenon
<1>2. /\ Avail("tx") = Out(r)
      /\ \A i \in 1..Avail("tx") : HeadAt("tx", i) = Entry(r, L, Back(r, L) + (i - 1))
  BY Zenon, <1>1, TxTypes, QueueView
<1>3. \A i \in 1..Out(r) : Chain("tx", i) = b[Entry(r, L, Back(r, L) + (i - 1))]
  BY Zenon, <1>1, <1>2 DEF Chain
<1>4. TxChains = Chained(b, r, L)
  BY Zenon, <1>2, <1>3 DEF TxChains, Chained
<1> QED
  BY Zenon, <1>1, <1>2, <1>4

LEMMA TxPost ==
    ASSUME OwnerInv, NEW x \in BufType, PostBuffer("tx", x)
    PROVE  TxQueue' = TxQueue
<1>1. PICK r, L, b, q, c : /\ r = rings["tx"] /\ L = drv.lastUsed["tx"] /\ b = bufs["tx"]
                           /\ q = rings'["tx"] /\ c = bufs'["tx"]
  BY Zenon
<1>2. "tx" \in Queue /\ r \in Ring /\ L \in Idx /\ b \in [Desc -> BufType]
  BY Zenon, <1>1, TxTypes
<1>3. /\ queues["tx"].ready /\ queues' = queues /\ drv'.lastUsed = drv.lastUsed
      /\ q \in Ring /\ c \in [Desc -> BufType] /\ Back(q, L) = Back(r, L) /\ Out(q) = Out(r)
      /\ \A t \in 0..(InPlay(r, L, 0) - 1) : c[Entry(q, L, t)] = b[Entry(r, L, t)]
  BY Zenon, <1>1, <1>2, PostView
<1>4. \A i \in 1..Out(r) : Back(r, L) + (i - 1) \in 0..(InPlay(r, L, 0) - 1)
  <2>1. Back(r, L) \in Nat /\ Out(r) \in Nat
    BY <1>2, RingFacts
  <2>2. InPlay(r, L, 0) = Back(r, L) + Out(r)
    BY <2>1 DEF InPlay
  <2> QED BY <2>1, <2>2
<1>5. \A i \in 1..Out(r) :
         c[Entry(q, L, Back(q, L) + (i - 1))] = b[Entry(r, L, Back(r, L) + (i - 1))]
  BY Zenon, <1>3, <1>4
<1>6. Waits(c, q, L) = Waits(b, r, L)
  <2>1. SameChains(c, q, L, b, r, L)
    BY Zenon, <1>3, <1>5 DEF SameChains
  <2> QED BY SMT, <2>1, WaitsSame
<1> QED
  BY Zenon, <1>1, <1>3, <1>6 DEF TxQueue, TxReady

\* A published chain is one more to send.
LEMMA TxPublish ==
    ASSUME OwnerInv, Publish("tx")
    PROVE  TxFifo
<1>1. PICK r, L, b, q : /\ r = rings["tx"] /\ L = drv.lastUsed["tx"] /\ b = bufs["tx"]
                        /\ q = rings'["tx"]
  BY Zenon
<1>2. "tx" \in Queue /\ r \in Ring /\ L \in Idx /\ b \in [Desc -> BufType]
  BY Zenon, <1>1, TxTypes
<1>3. UNCHANGED <<queues, bufs, sent>> /\ drv'.lastUsed = drv.lastUsed
  BY Zenon, <1>2, PublishRest
<1>4. CASE ~queues["tx"].ready
  BY Zenon, <1>3, <1>4 DEF TxQueue, TxReady, TxFifo, FifoStep, TxOn, Moves
<1>5. CASE queues["tx"].ready
  <2>1. /\ q \in Ring /\ Back(q, L) = Back(r, L) /\ Out(q) = Out(r) + 1
        /\ \A t \in Nat : Entry(q, L, t) = Entry(r, L, t)
    BY Zenon, <1>1, <1>2, <1>5, PublishView
  <2>2. Moves(TxOn, Waits(b, r, L), sent, Waits(b, q, L), sent)
    BY Zenon, <1>2, <2>1, WaitsMore
  <2>3. TxQueue = Waits(b, r, L) /\ TxQueue' = Waits(b, q, L) /\ TxOn' = TxOn
    BY Zenon, <1>1, <1>3, <1>5 DEF TxQueue, TxReady, TxOn
  <2> QED BY Zenon, <1>3, <2>2, <2>3 DEF TxFifo, FifoStep
<1> QED
  BY Zenon, <1>4, <1>5

\* What the driver takes back was sent before.
LEMMA TxReap ==
    ASSUME OwnerInv, Reap("tx")
    PROVE  TxQueue' = TxQueue /\ sent' = sent
<1>1. PICK r, L, b, F, M : /\ r = rings["tx"] /\ L = drv.lastUsed["tx"] /\ b = bufs["tx"]
                           /\ F = drv.free["tx"] /\ M = Plus(L, 1)
  BY Zenon
<1>2. /\ "tx" \in Queue /\ r \in Ring /\ L \in Idx /\ b \in [Desc -> BufType] /\ F \in SUBSET Desc
      /\ Posts("tx") \in 0..1
  BY Zenon, <1>1, TxTypes
<1>3. queues["tx"].ready /\ L # r.usedIdx /\ UNCHANGED <<queues, rings, bufs, sent>>
  BY Zenon, <1>1 DEF Reap
<1>4. drv'.lastUsed["tx"] = M
  <2>1. drv \in DrvType
    BY Zenon DEF OwnerInv, Types
  <2> QED BY <1>1, <1>2, <2>1 DEF Reap, DrvType
<1>5. /\ M \in Idx /\ Back(r, L) > 0 /\ Back(r, M) = Back(r, L) - 1
      /\ \A t \in Nat : Entry(r, M, t) = Entry(r, L, t + 1)
  <2>1. Partition(r, L, F, Posts("tx"))
    BY Zenon, <1>1, <1>2, <1>3, QueueView
  <2> QED BY Zenon, <1>1, <1>2, <1>3, <2>1, ReapKeepsPartition
<1>6. ASSUME NEW i \in 1..Out(r)
      PROVE  Entry(r, M, Back(r, M) + (i - 1)) = Entry(r, L, Back(r, L) + (i - 1))
  <2>1. Back(r, L) \in Nat /\ Out(r) \in Nat
    BY <1>2, RingFacts
  <2>2. /\ Back(r, M) + (i - 1) \in Nat
        /\ (Back(r, M) + (i - 1)) + 1 = Back(r, L) + (i - 1)
    BY <1>5, <2>1
  <2> QED BY Zenon, <1>5, <2>2
<1>7. \A i \in 1..Out(r) :
         b[Entry(r, M, Back(r, M) + (i - 1))] = b[Entry(r, L, Back(r, L) + (i - 1))]
  BY Zenon, <1>6
<1>8. Waits(b, r, M) = Waits(b, r, L)
  <2>1. SameChains(b, r, M, b, r, L)
    BY Zenon, <1>7 DEF SameChains
  <2> QED BY SMT, <2>1, WaitsSame
<1> QED
  BY Zenon, <1>1, <1>3, <1>4, <1>8 DEF TxQueue, TxReady

\* drainTXLocked sends the frames of the first chains.
LEMMA TxDrain ==
    ASSUME OwnerInv, queues["tx"].ready, DrainTX, UNCHANGED bufs,
           drv'.free = drv.free, drv'.lastUsed = drv.lastUsed, drv'.pc = drv.pc
    PROVE  TxFifo
<1>1. PICK r, L, b, F, p : /\ r = rings["tx"] /\ L = drv.lastUsed["tx"] /\ b = bufs["tx"]
                           /\ F = drv.free["tx"] /\ p = Posts("tx")
  BY Zenon
<1>2. /\ "tx" \in Queue /\ r \in Ring /\ L \in Idx /\ b \in [Desc -> BufType] /\ F \in SUBSET Desc
      /\ p \in 0..1 /\ sent \in Seq(Nat)
  BY Zenon, <1>1, TxTypes
<1>3. PICK n \in 0..Avail("tx") : Consume("tx", n) /\ sent' = sent \o FramesOf(TxChains)[n]
  BY Zenon, DrainCount
<1>4. Avail("tx") = Out(r) /\ TxChains = Chained(b, r, L)
  BY Zenon, <1>1, TxChainsIs
<1>5. queues'["tx"].ready /\ rings'["tx"] = Consumed(r, n)
  BY Zenon, <1>1, <1>2, <1>3, ConsumeKeeps
<1>6. Partition(r, L, F, p) /\ n \in 0..Out(r)
  BY Zenon, <1>1, <1>2, <1>4, QueueView
<1> DEFINE s == FramesOf(Chained(b, r, L))[n]
           t == Waits(b, Consumed(r, n), L)
<1>7. Waits(b, r, L) = s \o t
  BY Zenon, <1>2, <1>6, WaitsLess
<1>8. s \in Seq(Nat) /\ t \in Seq(Nat)
  <2>1. s \in Seq(Nat)
    BY Zenon, <1>2, <1>6, ChainedIs
  <2>2. Consumed(r, n) \in Ring
    BY Zenon, <1>2, <1>6, ConsumeKeepsPartition
  <2> QED BY Zenon, <1>2, <2>1, <2>2, ChainedIs
<1>9. sent' = sent \o s
  BY Zenon, <1>3, <1>4
<1>10. TxQueue = Waits(b, r, L) /\ TxQueue' = t
  BY Zenon, <1>1, <1>5 DEF TxQueue, TxReady
<1> HIDE DEF s, t
<1>11. Moves(TxOn, s \o t, sent, t, sent \o s)
  BY Zenon, <1>2, <1>8, MovesTake DEF TxOn
<1>12. TxOn' = TxOn
  BY Zenon, <1>2, <1>3, ReadyKept DEF TxOn
<1> QED
  BY Zenon, <1>7, <1>9, <1>10, <1>11, <1>12 DEF TxFifo, FifoStep

\* The queue, or the device, starts over.
LEMMA TxClose ==
    ASSUME ~TxOn', sent' = sent
    PROVE  TxFifo
<1>1. TxQueue' = << >>
  BY Zenon DEF TxQueue, TxReady, TxOn
<1> QED
  BY Zenon, <1>1 DEF TxFifo, FifoStep, Turns

LEMMA TxOpen ==
    ASSUME OwnerInv, QueueReady("tx")
    PROVE  TxFifo
<1>1. "tx" \in Queue
  BY Zenon, TxTypes
<1>2. ~queues["tx"].ready /\ rings'["tx"] = EmptyRing
  <2>1. rings \in [Queue -> Ring]
    BY Zenon DEF OwnerInv, Types
  <2> QED BY Zenon, <1>1, <2>1 DEF QueueReady
<1>3. Out(EmptyRing) = 0
  <2>1. EmptyRing.usedIdx = 0 /\ EmptyRing.availIdx = 0
    BY DEF EmptyRing
  <2>2. 0 \in Idx /\ 0 \in Nat
    BY Sizes DEF Idx
  <2>3. Ahead(0, 0) = 0
    BY Zenon, <2>2, Distances
  <2> QED BY Zenon, <2>1, <2>3 DEF Out
<1>4. \A b, L : Waits(b, EmptyRing, L) = << >>
  BY Zenon, <1>3, FramesDef DEF Waits
<1>5. TxQueue' = TxQueue
  BY Zenon, <1>2, <1>4 DEF TxQueue, TxReady
<1>6. ~TxOn /\ TxOn' /\ sent' = sent
  BY Zenon, <1>1, <1>2, Opened DEF QueueReady, TxOn
<1> QED
  BY Zenon, <1>5, <1>6 DEF TxFifo, FifoStep, Turns

\* Every step moves transmitted frames as a FIFO does.
LEMMA TxStep == OwnerInv /\ [Next]_vars => TxFifo
<1> SUFFICES ASSUME OwnerInv, [Next]_vars PROVE TxFifo
  OBVIOUS
<1>1. /\ "rx" \in Queue /\ "tx" \in Queue /\ "tx" # "rx" /\ drv \in DrvType
      /\ queues \in [Queue -> QueueType] /\ rings \in [Queue -> Ring]
      /\ bufs \in [Queue -> [Desc -> BufType]]
  BY DEF OwnerInv, Types, Queue
<1>2. ASSUME TxQueue' = TxQueue, TxOn' = TxOn, sent' = sent PROVE TxFifo
  BY Zenon, <1>2 DEF TxFifo, FifoStep, Moves
<1>3. CASE NotifyTX
  <2>1. drv'.lastUsed = drv.lastUsed /\ drv'.free = drv.free /\ drv'.pc = drv.pc /\ UNCHANGED bufs
    BY <1>1, <1>3 DEF NotifyTX, DrvType
  <2>2. CASE queues["tx"].ready
    <3>1. DrainTX
      BY Zenon, <1>3, <2>2 DEF NotifyTX
    <3> QED BY Zenon, <2>1, <2>2, <3>1, TxDrain
  <2>3. CASE ~queues["tx"].ready
    <3>1. UNCHANGED <<queues, rings, sent>>
      BY Zenon, <1>3, <2>3 DEF NotifyTX
    <3> QED BY Zenon, <1>2, <2>1, <3>1, TxSame DEF TxOn
  <2> QED BY Zenon, <2>2, <2>3
<1>4. ASSUME NEW n \in 0..Avail("rx"), queues["rx"].ready, PumpRX(n), sent' = sent,
             drv'.lastUsed = drv.lastUsed, drv'.free = drv.free, drv'.pc = drv.pc
      PROVE  TxFifo
  <2>1. queues'["tx"] = queues["tx"] /\ rings'["tx"] = rings["tx"]
    <3>1. Consume("rx", n)
      BY Zenon, <1>4 DEF PumpRX
    <3> QED BY Zenon, <1>1, <1>4, <3>1, ConsumeKeeps
  <2>2. bufs'["tx"] = bufs["tx"]
    BY Zenon, <1>1, <1>4 DEF PumpRX, FillBuffers
  <2> QED BY Zenon, <1>2, <1>4, <2>1, <2>2, TxSame DEF TxOn
<1>5. CASE NotifyRX
  <2>1. drv'.lastUsed = drv.lastUsed /\ drv'.free = drv.free /\ drv'.pc = drv.pc /\ sent' = sent
    BY <1>1, <1>5 DEF NotifyRX, DrvType
  <2>2. CASE queues["rx"].ready
    <3>1. PumpRX(Pumped)
      BY Zenon, <1>5, <2>2 DEF NotifyRX
    <3>2. Pumped \in 0..Avail("rx")
      BY Zenon, <2>2, PumpCount
    <3> QED BY Zenon, <1>4, <2>1, <2>2, <3>1, <3>2
  <2>3. CASE ~queues["rx"].ready
    <3>1. UNCHANGED <<queues, rings, bufs>>
      BY Zenon, <1>5, <2>3 DEF NotifyRX
    <3> QED BY Zenon, <1>2, <2>1, <3>1, TxSame DEF TxOn
  <2> QED BY Zenon, <2>2, <2>3
<1>6. CASE PumpOne
  <2>1. queues["rx"].ready /\ Pumped > 0 /\ PumpRX(1) /\ UNCHANGED <<drv, sent>>
    BY Zenon, <1>6 DEF PumpOne
  <2>2. 1 \in 0..Avail("rx")
    <3>1. Pumped \in 0..Avail("rx") /\ Avail("rx") \in Nat
      BY Zenon, <1>1, <2>1, PumpCount, QueueView
    <3> QED BY <2>1, <3>1
  <2> QED BY Zenon, <1>4, <2>1, <2>2
<1>7. CASE InterruptACK \/ ReapDone \/ PumpEnd \/ InjectGuestFrame
  <2>1. UNCHANGED <<queues, rings, bufs, sent>> /\ drv'.lastUsed = drv.lastUsed
    <3>1. CASE InterruptACK
      BY <1>1, <3>1 DEF InterruptACK, DrvType
    <3>2. CASE ReapDone
      BY <1>1, <3>2 DEF ReapDone, DrvType
    <3>3. CASE PumpEnd \/ InjectGuestFrame
      BY Zenon, <3>3 DEF PumpEnd, InjectGuestFrame
    <3> QED BY Zenon, <1>7, <3>1, <3>2, <3>3
  <2> QED BY Zenon, <1>2, <2>1, TxSame DEF TxOn
<1>8. CASE Reset \/ QueueNotReady("tx")
  <2>1. ~TxOn'
    <3>1. ~ClosedQueue.ready
      BY DEF ClosedQueue
    <3>2. queues'["tx"] = ClosedQueue
      BY Zenon, <1>1, <1>8 DEF Reset, QueueNotReady, Close
    <3> QED BY Zenon, <3>1, <3>2 DEF TxOn
  <2>2. sent' = sent
    BY Zenon, <1>8 DEF Reset, QueueNotReady
  <2> QED BY Zenon, <2>1, <2>2, TxClose
<1>9. CASE QueueNotReady("rx")
  <2>1. queues'["tx"] = queues["tx"] /\ UNCHANGED <<rings, bufs, drv, sent>>
    BY Zenon, <1>1, <1>9 DEF QueueNotReady, Close
  <2> QED BY Zenon, <1>2, <2>1, TxSame DEF TxOn
<1>10. CASE QueueReady("tx")
  BY Zenon, <1>10, TxOpen
<1>11. CASE QueueReady("rx")
  <2>1. /\ queues'["tx"] = queues["tx"] /\ rings'["tx"] = rings["tx"]
        /\ drv'.lastUsed["tx"] = drv.lastUsed["tx"] /\ UNCHANGED <<bufs, sent>>
    BY <1>1, <1>11 DEF QueueReady, DrvType
  <2> QED BY Zenon, <1>2, <2>1, TxSame DEF TxOn
<1>12. CASE Publish("rx")
  <2>1. UNCHANGED <<queues, bufs, sent>> /\ drv'.lastUsed = drv.lastUsed /\ rings'["tx"] = rings["tx"]
    BY Zenon, <1>1, <1>12, PublishRest
  <2> QED BY Zenon, <1>2, <2>1, TxSame DEF TxOn
<1>13. CASE Reap("rx")
  <2>1. UNCHANGED <<queues, rings, bufs, sent>> /\ drv'.lastUsed["tx"] = drv.lastUsed["tx"]
    BY Zenon, <1>1, <1>13 DEF Reap, DrvType
  <2> QED BY Zenon, <1>2, <2>1, TxSame DEF TxOn
<1>14. CASE Reap("tx")
  BY Zenon, <1>2, <1>14, TxReap DEF Reap, TxOn
<1>15. ASSUME NEW kind \in AllTxKinds, PostTX(kind) PROVE TxFifo
  <2>1. PICK x \in BufType : PostBuffer("tx", x)
    <3>1. Buffer(kind, work.frames["tx"]) \in BufType
      <4>1. work.frames["tx"] \in Nat
        BY <1>1 DEF OwnerInv, Types, Workload
      <4> QED BY <4>1 DEF Buffer, BufType
    <3> QED BY Zenon, <1>15, <3>1 DEF PostTX
  <2>2. sent' = sent /\ queues' = queues
    BY Zenon, <2>1 DEF PostBuffer
  <2> QED BY Zenon, <1>2, <2>1, <2>2, TxPost DEF TxOn
<1>16. ASSUME NEW kind \in AllRxKinds, PostRX(kind) PROVE TxFifo
  <2>1. PICK x \in BufType : PostBuffer("rx", x)
    <3>1. Buffer(kind, 0) \in BufType
      BY DEF Buffer, BufType, AllRxKinds
    <3> QED BY Zenon, <1>16, <3>1 DEF PostRX
  <2>2. /\ queues' = queues /\ drv'.lastUsed = drv.lastUsed
        /\ rings'["tx"] = rings["tx"] /\ bufs'["tx"] = bufs["tx"]
    BY Zenon, <1>1, <2>1, PostView
  <2>3. sent' = sent
    BY Zenon, <2>1 DEF PostBuffer
  <2> QED BY Zenon, <1>2, <2>2, <2>3, TxSame DEF TxOn
<1>17. CASE UNCHANGED vars
  BY Zenon, <1>2, <1>17, TxSame DEF vars, TxOn
<1>18. ASSUME NEW k \in Queue PROVE k = "rx" \/ k = "tx"
  BY DEF Queue
<1>19. CASE \E k \in Queue : QueueNotReady(k) \/ QueueReady(k) \/ Publish(k) \/ Reap(k)
  BY Zenon, <1>8, <1>9, <1>10, <1>11, <1>12, <1>13, <1>14, <1>18, <1>19, TxPublish
<1> QED
  BY Zenon, <1>3, <1>5, <1>6, <1>7, <1>8, <1>15, <1>16, <1>17, <1>19 DEF Next, Driver

-----------------------------------------------------------------------------
(* Both directions are FIFOs. *)

\* The queues of the refinement mapping are those of the window.
RxIs ==
    (IF queues["rx"].ready
     THEN [i \in 1..Unseen("rx") |-> bufs["rx"][UnseenAt("rx", i)].frame]
     ELSE << >>) \o pending

TxIs == IF queues["tx"].ready THEN FramesOf(TxChains)[Avail("tx")] ELSE << >>

Shown == RxIs = RxQueue /\ TxIs = TxQueue

LEMMA QueuesShown == OwnerInv => Shown
<1> SUFFICES ASSUME OwnerInv PROVE Shown
  BY Zenon
<1>1. RxIs = RxQueue
  <2>1. CASE queues["rx"].ready
    <3>1. PICK r, L, b : r = rings["rx"] /\ L = drv.lastUsed["rx"] /\ b = bufs["rx"]
      BY Zenon
    <3>2. /\ Unseen("rx") = Back(r, L)
          /\ \A i \in 1..Unseen("rx") : UnseenAt("rx", i) = Entry(r, L, i - 1)
      BY Zenon, <2>1, <3>1, RxTypes, QueueView
    <3>3. [i \in 1..Unseen("rx") |-> b[UnseenAt("rx", i)].frame] = Handed(b, r, L)
      BY Zenon, <3>2 DEF Handed
    <3> QED BY Zenon, <2>1, <3>1, <3>3 DEF RxIs, RxQueue, RxReady
  <2>2. CASE ~queues["rx"].ready
    BY Zenon, <2>2 DEF RxIs, RxQueue, RxReady
  <2> QED BY Zenon, <2>1, <2>2
<1>2. TxIs = TxQueue
  <2>1. CASE queues["tx"].ready
    BY Zenon, <2>1, TxChainsIs DEF TxIs, TxQueue, TxReady, Waits
  <2>2. CASE ~queues["tx"].ready
    BY Zenon, <2>2 DEF TxIs, TxQueue, TxReady
  <2> QED BY Zenon, <2>1, <2>2
<1> QED
  BY Zenon, <1>1, <1>2 DEF Shown

\* Frames cross the device in order in both directions, none twice, and none is
\* lost while its queue stays ready: with FIFOs of the frames on their way, every
\* step of the device, of the driver and of an injection is a step of a FIFO, or
\* none. A queue taken away loses the oldest frames, the handed back ones, and a
\* reset of the device loses all.
THEOREM DeviceKeepsOrder == Spec => KeepsOrder
<1>1. OwnerInv' => Shown'
  BY QueuesShown, PTL
<1>2. Init => RX!Init /\ TX!Init
  <2> SUFFICES ASSUME Init PROVE RX!Init /\ TX!Init
    BY Zenon
  <2>1. ~queues["rx"].ready /\ ~queues["tx"].ready /\ pending = << >> /\ got = << >> /\ sent = << >>
    BY DEF Init, ClosedQueue, Queue
  <2>2. << >> \o << >> = << >>
    OBVIOUS
  <2> QED BY Zenon, <2>1, <2>2 DEF RX!Init, TX!Init
<1>3. OwnerInv /\ OwnerInv' /\ [Next]_vars => FifoStep(RxOn, RxIs, got, RxOn', RxIs', got')
  BY Zenon, <1>1, QueuesShown, RxStep DEF Shown, RxFifo
<1>4. OwnerInv /\ OwnerInv' /\ [Next]_vars => FifoStep(TxOn, TxIs, sent, TxOn', TxIs', sent')
  BY Zenon, <1>1, QueuesShown, TxStep DEF Shown, TxFifo
<1>5. ASSUME FifoStep(RxOn, RxIs, got, RxOn', RxIs', got')
      PROVE  RX!Next \/ (RxOn' = RxOn /\ RxIs' = RxIs /\ got' = got)
  <2>1. ASSUME RxOn' = RxOn, Moves(RxOn, RxIs, got, RxIs', got')
        PROVE  RX!Send \/ RX!Deliver \/ (RxIs' = RxIs /\ got' = got)
    BY Zenon, <2>1 DEF Moves, RX!Send, RX!Deliver, RxIs, RxOn
  <2>2. ASSUME Turns(RxOn, RxIs, RxOn', RxIs'), got' = got PROVE RX!Open \/ RX!Close \/ RX!Reset
    BY Zenon, <2>2 DEF Turns, RX!Open, RX!Close, RX!Reset, RxIs, RxOn
  <2> QED BY Zenon, <1>5, <2>1, <2>2 DEF RX!Next, FifoStep
<1>6. ASSUME FifoStep(TxOn, TxIs, sent, TxOn', TxIs', sent')
      PROVE  TX!Next \/ (TxOn' = TxOn /\ TxIs' = TxIs /\ sent' = sent)
  <2>1. ASSUME TxOn' = TxOn, Moves(TxOn, TxIs, sent, TxIs', sent')
        PROVE  TX!Send \/ TX!Deliver \/ (TxIs' = TxIs /\ sent' = sent)
    BY Zenon, <2>1 DEF Moves, TX!Send, TX!Deliver, TxIs, TxOn
  <2>2. ASSUME Turns(TxOn, TxIs, TxOn', TxIs'), sent' = sent PROVE TX!Open \/ TX!Close \/ TX!Reset
    BY Zenon, <2>2 DEF Turns, TX!Open, TX!Close, TX!Reset, TxIs, TxOn
  <2> QED BY Zenon, <1>6, <2>1, <2>2 DEF TX!Next, FifoStep
<1>7. OwnerInv /\ OwnerInv' /\ [Next]_vars => [RX!Next]_<<RxOn, RxIs, got>>
  BY Zenon, <1>3, <1>5
<1>8. OwnerInv /\ OwnerInv' /\ [Next]_vars => [TX!Next]_<<TxOn, TxIs, sent>>
  BY Zenon, <1>4, <1>6
<1>9. Spec => RX!Spec
  BY <1>2, <1>7, OwnerInit, OwnerStep, PTL DEF Spec, RX!Spec, RxIs, RxOn
<1>10. Spec => TX!Spec
  BY <1>2, <1>8, OwnerInit, OwnerStep, PTL DEF Spec, TX!Spec, TxIs, TxOn
<1> QED
  BY <1>9, <1>10, PTL DEF KeepsOrder

================================================================================
