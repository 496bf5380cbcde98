----------------------------- MODULE EmunetProofs -----------------------------
(***************************************************************************)
(* Safety of the network of processes: elections and circuits, and the     *)
(* leader's core with its NAT, its leases and its search for a port, for   *)
(* every set of processes, workload and size of the address pools, and     *)
(* whatever errors of older circuits are still on their way.               *)
(***************************************************************************)
EXTENDS Emunet, FiniteSetTheorems, TLAPS

(* The NAT table *)

\* What the two maps are to each other. The key of an entry is the one its
\* flow and its external port make: without that, dropping a flow could leave
\* a key behind that names it.
NATMaps(out, in) ==
    /\ \A f \in DOMAIN out :
          /\ out[f] \in [external : Externals, idle : Nat]
          /\ InKey(f, out[f].external) \in DOMAIN in
          /\ in[InKey(f, out[f].external)] = f
    /\ \A key \in DOMAIN in :
          in[key] \in DOMAIN out /\ key = InKey(in[key], out[in[key]].external)
    /\ \A f, g \in DOMAIN out : out[f].external = out[g].external => f = g

\* Maps in this relation describe the same flows.
LEMMA MapsConsistent ==
    ASSUME NEW c, NATMaps(c.natByOut, c.natByIn)
    PROVE  NATConsistent(c)
<1>1. \A f, ext : InKey(f, ext).external = ext
  BY DEF InKey
<1> QED
  BY <1>1 DEF NATMaps, NATConsistent

\* An entry leaves both maps.
LEMMA MapsDrop ==
    ASSUME NEW out, NEW in, NATMaps(out, in), NEW gone
    PROVE  NATMaps(Without(out, gone),
                   Without(in, {InKey(f, out[f].external) : f \in gone \cap DOMAIN out}))
<1> DEFINE keys == {InKey(f, out[f].external) : f \in gone \cap DOMAIN out}
           o == Without(out, gone)
           i == Without(in, keys)
<1>1. /\ DOMAIN o = DOMAIN out \ gone /\ \A f \in DOMAIN o : o[f] = out[f]
      /\ DOMAIN i = DOMAIN in \ keys /\ \A k \in DOMAIN i : i[k] = in[k]
  BY DEF Without
<1>2. ASSUME NEW f \in DOMAIN o
      PROVE  InKey(f, out[f].external) \notin keys
  <2>1. ASSUME NEW g \in gone \cap DOMAIN out,
               InKey(f, out[f].external) = InKey(g, out[g].external)
        PROVE  FALSE
    <3>1. out[f].external = out[g].external
      BY <2>1 DEF InKey
    <3> QED BY <1>1, <2>1, <3>1 DEF NATMaps
  <2> QED BY <2>1
<1>3. ASSUME NEW k \in DOMAIN i
      PROVE  in[k] \notin gone
  BY <1>1 DEF NATMaps
<1> HIDE DEF keys, o, i
<1>4. NATMaps(o, i)
  BY <1>1, <1>2, <1>3 DEF NATMaps
<1> QED
  BY <1>4 DEF o, i, keys

\* An entry is used.
LEMMA MapsTouch ==
    ASSUME NEW out, NEW in, NATMaps(out, in), NEW f \in DOMAIN out
    PROVE  NATMaps([out EXCEPT ![f].idle = 0], in)
<1> DEFINE o == [out EXCEPT ![f].idle = 0]
<1>1. DOMAIN o = DOMAIN out
  OBVIOUS
<1>2. \A g \in DOMAIN out : /\ o[g] \in [external : Externals, idle : Nat]
                            /\ o[g].external = out[g].external
  BY DEF NATMaps
<1> HIDE DEF o
<1>3. NATMaps(o, in)
  BY <1>1, <1>2 DEF NATMaps
<1> QED
  BY <1>3 DEF o

\* A flow gets an external port that no key has.
LEMMA MapsAdd ==
    ASSUME NEW out, NEW in, NATMaps(out, in), NEW f, f \notin DOMAIN out,
           NEW ext \in Externals \ {k.external : k \in DOMAIN in}
    PROVE  NATMaps(With(out, f, [external |-> ext, idle |-> 0]), With(in, InKey(f, ext), f))
<1> DEFINE e == [external |-> ext, idle |-> 0]
           o == With(out, f, e)
           i == With(in, InKey(f, ext), f)
<1>1. e \in [external : Externals, idle : Nat] /\ e.external = ext
  OBVIOUS
<1>2. /\ DOMAIN o = DOMAIN out \cup {f} /\ o[f] = e
      /\ \A g \in DOMAIN out : o[g] = out[g]
  BY DEF With
<1>3. /\ DOMAIN i = DOMAIN in \cup {InKey(f, ext)} /\ i[InKey(f, ext)] = f
      /\ \A k \in DOMAIN in : k # InKey(f, ext) => i[k] = in[k]
  BY DEF With
<1>4. InKey(f, ext).external = ext
  BY DEF InKey
<1>5. InKey(f, ext) \notin DOMAIN in
  BY <1>4
<1>6. \A g \in DOMAIN out : out[g].external # ext
  <2>1. ASSUME NEW g \in DOMAIN out PROVE InKey(g, out[g].external).external = out[g].external
    BY DEF InKey
  <2> QED BY <2>1 DEF NATMaps
<1> HIDE DEF e, o, i
<1>7. NATMaps(o, i)
  <2>1. ASSUME NEW g \in DOMAIN o
        PROVE  /\ o[g] \in [external : Externals, idle : Nat]
               /\ InKey(g, o[g].external) \in DOMAIN i
               /\ i[InKey(g, o[g].external)] = g
    <3>1. CASE g = f
      BY <1>1, <1>2, <1>3, <3>1
    <3>2. CASE g \in DOMAIN out
      BY <1>2, <1>3, <1>5, <3>2 DEF NATMaps
    <3> QED BY <1>2, <2>1, <3>1, <3>2
  <2>2. ASSUME NEW k \in DOMAIN i
        PROVE  i[k] \in DOMAIN o /\ k = InKey(i[k], o[i[k]].external)
    BY <1>1, <1>2, <1>3 DEF NATMaps
  <2>3. \A g, h \in DOMAIN o : o[g].external = o[h].external => g = h
    BY <1>1, <1>2, <1>6 DEF NATMaps
  <2> QED BY <2>1, <2>2, <2>3 DEF NATMaps
<1> QED
  BY <1>7 DEF o, i, e

\* A set of numbers has a least one.
LEMMA LeastNumber ==
    ASSUME NEW T \in SUBSET Nat, T # {}
    PROVE  \E x \in T : \A y \in T : x <= y
<1>1. PICK x \in T : \A y \in T : ~ (<<y, x>> \in OpToRel(<, Nat))
  BY Zenon, WFMin, NatLessThanWellFounded
<1>2. \A y \in T : ~(y < x)
  BY Zenon, <1>1 DEF OpToRel
<1> QED
  BY <1>2

\* The allocator of external ports finds one that is free, if there is one.
LEMMA NextNATFree ==
    ASSUME NEW c, FreeExternals(c) # {}
    PROVE  NextNAT(c) \in FreeExternals(c)
<1> DEFINE free == FreeExternals(c)
           turns == {Turn(c, e) : e \in free}
<1>1. \A e \in Externals : Turn(c, e) \in Nat
  <2> DEFINE first == IF c.nextNATID \in Externals THEN c.nextNATID ELSE FirstNAT
             size == LastNAT - FirstNAT + 1
  <2>1. first \in FirstNAT..LastNAT /\ size \in Nat \ {0}
    BY RouterAssumption DEF Externals
  <2>2. ASSUME NEW e \in Externals PROVE e + size - first \in Nat
    BY <2>1, RouterAssumption DEF Externals
  <2> HIDE DEF first, size
  <2>3. ASSUME NEW e \in Externals PROVE (e + size - first) % size \in Nat
    BY <2>1, <2>2
  <2> QED BY <2>3 DEF Turn, first, size
<1>2. turns \in SUBSET Nat /\ turns # {}
  BY <1>1 DEF FreeExternals
<1>3. PICK x \in turns : \A y \in turns : x <= y
  BY Zenon, <1>2, LeastNumber
<1>4. PICK e \in free : x = Turn(c, e)
  BY <1>3
<1>5. \A other \in free : Turn(c, e) <= Turn(c, other)
  BY <1>3, <1>4
<1> QED
  BY <1>4, <1>5 DEF NextNAT

-----------------------------------------------------------------------------
(* The core of a leader *)

\* After k leases were given out, and until all have been, the ports hold
\* leases below the one whose turn it is.
LeasesOK(ports, next, k) ==
    /\ k \in Nat
    /\ k = 0 => next = 0
    /\ k \in 1..(LastLease - FirstLease) => next = FirstLease + k
    /\ k <= LastLease - FirstLease + 1 =>
         /\ \A p \in DOMAIN ports : ports[p].lease \in FirstLease..(FirstLease + k - 1)
         /\ \A p, q \in DOMAIN ports : ports[p].lease = ports[q].lease => p = q

CoreShape(c) ==
    c = [ports |-> c.ports, nextLease |-> c.nextLease,
         natByOut |-> c.natByOut, natByIn |-> c.natByIn, nextNATID |-> c.nextNATID,
         hung |-> c.hung]

CoreOK(c, k) ==
    /\ CoreShape(c)
    /\ NATMaps(c.natByOut, c.natByIn)
    /\ LeasesOK(c.ports, c.nextLease, k)

\* A new core is in order.
LEMMA NewCoreOK == CoreOK(NewCore, 0)
<1>1. DOMAIN Empty = {}
  BY DEF Empty
<1>2. CoreShape(NewCore)
  BY DEF CoreShape, NewCore
<1>3. NATMaps(NewCore.natByOut, NewCore.natByIn)
  BY <1>1 DEF NewCore, NATMaps
<1>4. LeasesOK(NewCore.ports, NewCore.nextLease, 0)
  BY <1>1 DEF NewCore, LeasesOK
<1> QED
  BY <1>2, <1>3, <1>4 DEF CoreOK

\* What dropping flows changes.
LEMMA DropFlowsOK ==
    ASSUME NEW c, NEW k, CoreOK(c, k), NEW gone
    PROVE  /\ CoreOK(DropFlows(c, gone), k)
           /\ DropFlows(c, gone).ports = c.ports
           /\ DropFlows(c, gone).nextLease = c.nextLease
           /\ DropFlows(c, gone).hung = c.hung
           /\ DropFlows(c, gone).natByOut = Without(c.natByOut, gone)
<1> DEFINE d == DropFlows(c, gone)
           keys == {InKey(f, c.natByOut[f].external) : f \in gone \cap DOMAIN c.natByOut}
<1>1. /\ d.ports = c.ports /\ d.nextLease = c.nextLease /\ d.hung = c.hung
      /\ d.natByOut = Without(c.natByOut, gone)
      /\ d.natByIn = Without(c.natByIn, keys)
      /\ CoreShape(d)
  <2> DEFINE out == Without(c.natByOut, gone)
             in == Without(c.natByIn, keys)
  <2>1. d = [c EXCEPT !.natByOut = out, !.natByIn = in]
    BY DEF DropFlows
  <2> HIDE DEF d, keys, out, in
  <2>2. /\ d.ports = c.ports /\ d.nextLease = c.nextLease /\ d.hung = c.hung
        /\ d.natByOut = out /\ d.natByIn = in /\ CoreShape(d)
    BY Zenon, <2>1 DEF CoreOK, CoreShape
  <2> QED BY <2>2 DEF out, in
<1>2. NATMaps(Without(c.natByOut, gone), Without(c.natByIn, keys))
  BY MapsDrop DEF CoreOK
<1> HIDE DEF d, keys
<1>3. CoreOK(d, k)
  BY <1>1, <1>2 DEF CoreOK
<1> QED
  BY <1>1, <1>3 DEF d

\* Removing a port takes its flows along and keeps the other leases.
LEMMA RemovePortOK ==
    ASSUME NEW c, NEW k, CoreOK(c, k), NEW id
    PROVE  CoreOK(RemoveEmunetPort(c, id), k) /\ RemoveEmunetPort(c, id).hung = c.hung
<1> DEFINE gone == {f \in DOMAIN c.natByOut : f.port = id}
           d == DropFlows(c, gone)
           e == RemoveEmunetPort(c, id)
<1>1. /\ CoreOK(d, k) /\ d.ports = c.ports /\ d.nextLease = c.nextLease
      /\ d.hung = c.hung
  BY DropFlowsOK
<1>2. e = [d EXCEPT !.ports = Without(@, {id})]
  BY DEF RemoveEmunetPort
<1> HIDE DEF gone, d, e
<1>3. /\ e.ports = Without(d.ports, {id}) /\ e.nextLease = d.nextLease
      /\ e.hung = d.hung
      /\ e.natByOut = d.natByOut /\ e.natByIn = d.natByIn /\ CoreShape(e)
  BY <1>1, <1>2 DEF CoreOK, CoreShape
<1>4. /\ DOMAIN e.ports \subseteq DOMAIN d.ports
      /\ \A p \in DOMAIN e.ports : e.ports[p] = d.ports[p]
  BY <1>3 DEF Without
<1>5. LeasesOK(e.ports, e.nextLease, k)
  BY Zenon, <1>1, <1>3, <1>4 DEF CoreOK, LeasesOK
<1>6. CoreOK(e, k)
  BY <1>1, <1>3, <1>5 DEF CoreOK
<1> QED
  BY <1>1, <1>3, <1>6 DEF e

\* Creating a port gives out the next lease.
LEMMA EmunetPortOK ==
    ASSUME NEW c, NEW k, CoreOK(c, k), NEW id, NEW emit, NEW j \in Nat,
           IF id \in DOMAIN c.ports \/ k > LastLease - FirstLease + 1 THEN j = k ELSE j = k + 1
    PROVE  CoreOK(EmunetPort(c, id, emit), j) /\ EmunetPort(c, id, emit).hung = c.hung
<1> DEFINE fresh == id \notin DOMAIN c.ports
           lease == IF fresh THEN NextLease(c) ELSE c.ports[id].lease
           entry == [lease |-> lease, emit |-> emit]
           next == IF ~fresh THEN c.nextLease
                   ELSE IF lease = LastLease THEN FirstLease ELSE lease + 1
           d == EmunetPort(c, id, emit)
<1>1. /\ d.ports = With(c.ports, id, entry) /\ d.nextLease = next /\ d.hung = c.hung
      /\ d.natByOut = c.natByOut /\ d.natByIn = c.natByIn /\ CoreShape(d)
  <2> DEFINE ports == With(c.ports, id, entry)
  <2>1. d = [c EXCEPT !.ports = ports, !.nextLease = next]
    BY DEF EmunetPort
  <2> HIDE DEF d, entry, next, ports
  <2>2. /\ d.ports = ports /\ d.nextLease = next /\ d.hung = c.hung
        /\ d.natByOut = c.natByOut /\ d.natByIn = c.natByIn /\ CoreShape(d)
    BY Zenon, <2>1 DEF CoreOK, CoreShape
  <2> QED BY <2>2 DEF ports
<1>2. entry.lease = lease
  OBVIOUS
<1>3. /\ DOMAIN d.ports = DOMAIN c.ports \cup {id} /\ d.ports[id] = entry
      /\ \A p \in DOMAIN c.ports : p # id => d.ports[p] = c.ports[p]
  BY <1>1 DEF With
<1>4. LeasesOK(c.ports, c.nextLease, k) /\ k \in Nat
  BY DEF CoreOK, LeasesOK
<1>5. CASE ~fresh
  <2>1. /\ DOMAIN d.ports = DOMAIN c.ports /\ d.nextLease = c.nextLease /\ j = k
        /\ \A p \in DOMAIN c.ports : d.ports[p].lease = c.ports[p].lease
    BY <1>1, <1>2, <1>3, <1>5
  <2> HIDE DEF d
  <2>2. LeasesOK(d.ports, d.nextLease, j)
    BY <1>4, <2>1 DEF LeasesOK
  <2>3. CoreOK(d, j)
    BY <1>1, <2>2 DEF CoreOK
  <2> QED BY <1>1, <2>3 DEF d
<1>6. CASE fresh
  <2>1. CASE k > LastLease - FirstLease + 1
    <3> HIDE DEF d
    <3>1. LeasesOK(d.ports, d.nextLease, j)
      BY <1>4, <2>1, RouterAssumption DEF LeasesOK
    <3>2. CoreOK(d, j)
      BY <1>1, <3>1 DEF CoreOK
    <3> QED BY <1>1, <3>2 DEF d
  <2>2. CASE k = LastLease - FirstLease + 1
    <3> HIDE DEF d
    <3>1. LeasesOK(d.ports, d.nextLease, j)
      BY <1>4, <1>6, <2>2, RouterAssumption DEF LeasesOK
    <3>2. CoreOK(d, j)
      BY <1>1, <3>1 DEF CoreOK
    <3> QED BY <1>1, <3>2 DEF d
  <2>3. CASE k < LastLease - FirstLease + 1
    <3>1. j = k + 1 /\ j <= LastLease - FirstLease + 1
      BY <1>4, <1>6, <2>3, RouterAssumption
    <3>2. lease = FirstLease + k
      BY <1>4, <1>6, <2>3, RouterAssumption DEF LeasesOK, NextLease, Leases
    <3>3. j \in 1..(LastLease - FirstLease) => d.nextLease = FirstLease + j
      BY <1>1, <1>4, <1>6, <3>1, <3>2, RouterAssumption
    <3> HIDE DEF d, entry, lease
    <3>4. ASSUME NEW p \in DOMAIN d.ports
          PROVE  /\ d.ports[p].lease \in FirstLease..(FirstLease + j - 1)
                 /\ p = id => d.ports[p].lease = FirstLease + k
                 /\ p # id => /\ p \in DOMAIN c.ports
                              /\ d.ports[p].lease = c.ports[p].lease
                              /\ d.ports[p].lease \in FirstLease..(FirstLease + k - 1)
      BY <1>2, <1>3, <1>4, <2>3, <3>1, <3>2, RouterAssumption DEF LeasesOK
    <3>5. ASSUME NEW p \in DOMAIN d.ports, NEW q \in DOMAIN d.ports,
                 d.ports[p].lease = d.ports[q].lease
          PROVE  p = q
      BY <1>4, <2>3, <3>4, <3>5, RouterAssumption DEF LeasesOK
    <3>6. LeasesOK(d.ports, d.nextLease, j)
      BY <1>4, <3>1, <3>3, <3>4, <3>5 DEF LeasesOK
    <3>7. CoreOK(d, j)
      BY <1>1, <3>6 DEF CoreOK
    <3> QED BY <1>1, <3>7 DEF d
  <2> QED BY <1>4, <2>1, <2>2, <2>3, RouterAssumption
<1> QED
  BY <1>5, <1>6

\* Using a mapping keeps the core in order.
LEMMA TouchOK ==
    ASSUME NEW c, NEW k, CoreOK(c, k), NEW f \in DOMAIN c.natByOut
    PROVE  CoreOK(Touch(c, f), k) /\ Touch(c, f).hung = c.hung
<1> DEFINE out == [c.natByOut EXCEPT ![f].idle = 0]
           d == Touch(c, f)
<1>1. d = [c EXCEPT !.natByOut = out]
  BY DEF Touch
<1>2. NATMaps(out, c.natByIn)
  BY MapsTouch DEF CoreOK
<1> HIDE DEF out, d
<1>3. /\ d.ports = c.ports /\ d.nextLease = c.nextLease /\ d.hung = c.hung
      /\ d.natByOut = out /\ d.natByIn = c.natByIn /\ CoreShape(d)
  BY <1>1 DEF CoreOK, CoreShape
<1>4. CoreOK(d, k)
  BY <1>2, <1>3 DEF CoreOK
<1> QED
  BY <1>3, <1>4 DEF d

\* So does the removal of expired mappings.
LEMMA CleanupOK ==
    ASSUME NEW c, NEW k, CoreOK(c, k)
    PROVE  LET d == CleanupExpiredNAT(c)
           IN  /\ CoreOK(d, k) /\ d.hung = c.hung
               /\ ~\E f \in DOMAIN d.natByOut : d.natByOut[f].idle > IdleTimeout[f.proto]
<1> DEFINE gone == {f \in DOMAIN c.natByOut : c.natByOut[f].idle > IdleTimeout[f.proto]}
           d == DropFlows(c, gone)
<1>1. CoreOK(d, k) /\ d.hung = c.hung /\ d.natByOut = Without(c.natByOut, gone)
  BY DropFlowsOK
<1> HIDE DEF d
<1>2. ~\E f \in DOMAIN d.natByOut : d.natByOut[f].idle > IdleTimeout[f.proto]
  BY <1>1 DEF Without
<1> QED
  BY Zenon, <1>1, <1>2 DEF CleanupExpiredNAT, d

\* And the translation of a packet that leaves.
LEMMA NATExternalOK ==
    ASSUME NEW c, NEW k, CoreOK(c, k), NEW flow
    PROVE  LET d == NATExternal(c, flow)
           IN  CoreOK(d, k) /\ (d.hung = c.hung \/ FullOfUsedFlows(d))
<1> DEFINE clean == CleanupExpiredNAT(c)
           ext == NextNAT(clean)
           out == With(clean.natByOut, flow, [external |-> ext, idle |-> 0])
           in == With(clean.natByIn, InKey(flow, ext), flow)
           turn == IF ext = LastNAT THEN FirstNAT ELSE ext + 1
           d == NATExternal(c, flow)
<1>1. /\ CoreOK(clean, k) /\ clean.hung = c.hung
      /\ ~\E f \in DOMAIN clean.natByOut : clean.natByOut[f].idle > IdleTimeout[f.proto]
  BY Zenon, CleanupOK
<1>2. CASE flow \in DOMAIN clean.natByOut
  <2>1. d = Touch(clean, flow)
    BY <1>2 DEF NATExternal
  <2> HIDE DEF clean, d
  <2>2. CoreOK(d, k) /\ d.hung = c.hung
    BY <1>1, <1>2, <2>1, TouchOK
  <2> QED BY <2>2 DEF d
<1>3. CASE flow \notin DOMAIN clean.natByOut /\ FreeExternals(clean) = {}
  <2>1. d = [clean EXCEPT !.hung = {flow.port}]
    BY <1>3 DEF NATExternal
  <2> HIDE DEF clean, d
  <2>2. /\ d.ports = clean.ports /\ d.nextLease = clean.nextLease
        /\ d.natByOut = clean.natByOut /\ d.natByIn = clean.natByIn /\ CoreShape(d)
    BY Zenon, <1>1, <2>1 DEF CoreOK, CoreShape
  <2>3. CoreOK(d, k)
    BY <1>1, <2>2 DEF CoreOK
  <2>4. FullOfUsedFlows(d)
    BY <1>1, <1>3, <2>2 DEF FullOfUsedFlows, FreeExternals
  <2> QED BY <2>3, <2>4 DEF d
<1>4. CASE flow \notin DOMAIN clean.natByOut /\ FreeExternals(clean) # {}
  <2>1. d = [clean EXCEPT !.natByOut = out, !.natByIn = in, !.nextNATID = turn]
    BY <1>4 DEF NATExternal
  <2> HIDE DEF clean
  <2>2. ext \in Externals \ {key.external : key \in DOMAIN clean.natByIn}
    BY <1>4, NextNATFree DEF FreeExternals
  <2>3. NATMaps(out, in)
    BY <1>1, <1>4, <2>2, MapsAdd DEF CoreOK
  <2> HIDE DEF ext, out, in, turn, d
  <2>4. /\ d.ports = clean.ports /\ d.nextLease = clean.nextLease
        /\ d.natByOut = out /\ d.natByIn = in /\ CoreShape(d) /\ d.hung = clean.hung
    BY Zenon, <1>1, <2>1 DEF CoreOK, CoreShape
  <2>5. CoreOK(d, k)
    BY <1>1, <2>3, <2>4 DEF CoreOK
  <2> QED BY <1>1, <2>4, <2>5 DEF d
<1> QED
  BY <1>2, <1>3, <1>4

\* And of one that arrives.
LEMMA NATInboundOK ==
    ASSUME NEW c, NEW k, CoreOK(c, k), NEW key
    PROVE  CoreOK(NATInbound(c, key), k) /\ NATInbound(c, key).hung = c.hung
<1> DEFINE clean == CleanupExpiredNAT(c)
<1>1. CoreOK(clean, k) /\ clean.hung = c.hung
  BY CleanupOK
<1>2. CASE key \in DOMAIN clean.natByIn
  <2>1. clean.natByIn[key] \in DOMAIN clean.natByOut
    BY <1>1, <1>2 DEF CoreOK, NATMaps
  <2>2. NATInbound(c, key) = Touch(clean, clean.natByIn[key])
    BY <1>2 DEF NATInbound
  <2> HIDE DEF clean
  <2> QED BY <1>1, <2>1, <2>2, TouchOK
<1>3. CASE key \notin DOMAIN clean.natByIn
  BY <1>1, <1>3 DEF NATInbound
<1> QED
  BY <1>2, <1>3

\* And time.
LEMMA AgeOK ==
    ASSUME NEW c, NEW k, CoreOK(c, k)
    PROVE  CoreOK(Age(c), k) /\ Age(c).hung = c.hung
<1> DEFINE out == [f \in DOMAIN c.natByOut |->
                     [c.natByOut[f] EXCEPT !.idle = Older(@, IdleTimeout[f.proto])]]
           d == Age(c)
<1>1. d = [c EXCEPT !.natByOut = out]
  BY DEF Age
<1>2. \A age \in Nat : \A limit : Older(age, limit) \in Nat
  BY DEF Older
<1>3. ASSUME NEW f \in DOMAIN c.natByOut
      PROVE  /\ out[f] \in [external : Externals, idle : Nat]
             /\ out[f].external = c.natByOut[f].external
  <2>1. c.natByOut[f] \in [external : Externals, idle : Nat]
    BY DEF CoreOK, NATMaps
  <2>2. Older(c.natByOut[f].idle, IdleTimeout[f.proto]) \in Nat
    BY <1>2, <2>1
  <2> QED BY <2>1, <2>2
<1>4. DOMAIN out = DOMAIN c.natByOut
  OBVIOUS
<1> HIDE DEF out, d
<1>5. NATMaps(out, c.natByIn)
  BY <1>3, <1>4 DEF CoreOK, NATMaps
<1>6. /\ d.ports = c.ports /\ d.nextLease = c.nextLease /\ d.hung = c.hung
      /\ d.natByOut = out /\ d.natByIn = c.natByIn /\ CoreShape(d)
  BY <1>1 DEF CoreOK, CoreShape
<1>7. CoreOK(d, k)
  BY <1>5, <1>6 DEF CoreOK
<1> QED
  BY <1>6, <1>7 DEF d

-----------------------------------------------------------------------------
(* Elections *)

PCs == {"off", "listen", "lookup", "connect", "adopt", "promote", "publish",
        "idle", "dead"}

\* The parts of a process that elections read and write.
ElectionTypes ==
    /\ pc \in [Nodes -> PCs]
    /\ booting \in [Nodes -> BOOLEAN] /\ closed \in [Nodes -> {"no", "closing", "yes"}]
    /\ role \in [Nodes -> {"none", "follower", "leader"}]

\* A promotion owns the listener from the moment it was bound, and a process
\* that leads has left its watchdog for good.
Ownership ==
    \A n \in Nodes :
        /\ pc[n] \in {"promote", "publish"} => holder = n
        /\ pc[n] = "publish" => serving
        /\ role[n] = "leader" => pc[n] \in {"idle", "dead"}
        /\ IsLeader(n) => holder = n /\ serving

ElectionInv == ElectionTypes /\ Ownership

\* A failed attempt gives the thread a place to go on from.
LEMMA FailedType ==
    ASSUME ElectionTypes, NEW n \in Nodes, Failed(n)
    PROVE  /\ pc' \in [Nodes -> PCs] /\ pc'[n] \in {"listen", "dead"}
           /\ \A m \in Nodes \ {n} : pc'[m] = pc[m]
BY DEF ElectionTypes, Failed, PCs

\* A step that leaves the places and roles of all processes alone, and the
\* listener too, keeps the invariant.
LEMMA ElectionUnchanged ==
    ASSUME ElectionInv, UNCHANGED <<pc, booting, closed, role, holder, serving>>
    PROVE  ElectionInv'
BY Zenon DEF ElectionInv, ElectionTypes, Ownership, IsLeader, Up

\* The steps of the constructor and the watchdog.
LEMMA WatchdogElection ==
    ASSUME ElectionInv, NEW n \in Nodes, Start(n) \/ Watchdog(n)
    PROVE  ElectionInv'
<1> USE DEF ElectionInv, ElectionTypes, Ownership, IsLeader, Up, PCs
<1>1. CASE Start(n)
  BY <1>1 DEF Start, rendezvous
<1>2. CASE Listen(n)
  BY <1>2, EmunetAssumption DEF Listen
<1>3. CASE LookupDNS(n)
  <2>1. CASE holder = None
    BY <1>3, <2>1, FailedType DEF LookupDNS, rendezvous
  <2>2. CASE holder # None
    BY <1>3, <2>2 DEF LookupDNS, rendezvous
  <2> QED BY <2>1, <2>2
<1>4. CASE Connect(n)
  <2>1. CASE Reachable(found[n])
    BY <1>4, <2>1 DEF Connect, rendezvous
  <2>2. CASE ~Reachable(found[n])
    BY SMTT(30), <1>4, <2>2, FailedType DEF Connect, rendezvous
  <2> QED BY Zenon, <2>1, <2>2
<1>5. CASE Adopt(n)
  BY <1>5 DEF Adopt, rendezvous
<1>6. CASE StartCore(n)
  BY <1>6 DEF StartCore
<1>7. CASE CoreFails(n)
  BY <1>7, FailedType DEF CoreFails
<1>8. CASE Publish(n)
  BY <1>8 DEF Publish, rendezvous
<1> QED
  BY <1>1, <1>2, <1>3, <1>4, <1>5, <1>6, <1>7, <1>8 DEF Watchdog

\* What ends a process, and the steps of Close.
Ending(n) == Crash(n) \/ Close(n) \/ CloseCore(n)

\* A process that ends gives up what it owns and nothing else.
LEMMA EndElection ==
    ASSUME ElectionInv, NEW n \in Nodes, Ending(n)
    PROVE  ElectionInv'
<1> USE DEF ElectionInv, ElectionTypes, Ownership, IsLeader, Up, PCs
<1>1. CASE Crash(n)
  BY Zenon, <1>1, EmunetAssumption DEF Crash, Ends
<1>2. CASE Close(n)
  BY Zenon, <1>2, EmunetAssumption DEF Close
<1>3. CASE CloseCore(n)
  BY Zenon, <1>3 DEF CloseCore, Ends, rendezvous
<1> QED
  BY Zenon, <1>1, <1>2, <1>3 DEF Ending

\* The other steps do not concern the election.
LEMMA OtherElection ==
    ASSUME Next, ~\E n \in Nodes : Start(n) \/ Watchdog(n) \/ Ending(n)
    PROVE  UNCHANGED <<thread, rendezvous>>
BY Zenon DEF Next, EventReader, HandleMessage, HandleCircuitError, GuestSends, GuestSent,
       HandleTsnetPacket, Break, Tick, Ending

\* Every step keeps the invariant of the election.
LEMMA ElectionNext == ElectionInv /\ [Next]_vars => ElectionInv'
<1> SUFFICES ASSUME ElectionInv, [Next]_vars PROVE ElectionInv'
  OBVIOUS
<1>1. CASE \E n \in Nodes : Start(n) \/ Watchdog(n)
  BY <1>1, WatchdogElection
<1>2. CASE \E n \in Nodes : Ending(n)
  BY <1>2, EndElection
<1>3. CASE UNCHANGED vars
  BY <1>3, ElectionUnchanged DEF vars
<1>4. CASE Next /\ ~\E n \in Nodes : Start(n) \/ Watchdog(n) \/ Ending(n)
  BY <1>4, OtherElection, ElectionUnchanged DEF thread, rendezvous
<1> QED
  BY <1>1, <1>2, <1>3, <1>4

\* The initial states have it.
LEMMA ElectionInit == Init => ElectionInv
<1> SUFFICES ASSUME Init PROVE ElectionInv
  OBVIOUS
<1>1. ElectionTypes
  BY DEF Init, ElectionTypes, PCs
<1>2. /\ \A n \in Nodes : pc[n] \in {"listen", "idle", "off"}
      /\ \A n \in Nodes : role[n] = "leader" => n = work.leader /\ pc[n] = "idle"
      /\ holder = work.leader /\ serving = (work.leader # None)
  BY DEF Init
<1>3. \A n \in Nodes : n # None
  BY EmunetAssumption
<1> QED
  BY Zenon, <1>1, <1>2, <1>3 DEF ElectionInv, Ownership, IsLeader

\* Leadership is ownership of the rendezvous listener: whatever number of
\* processes start, promote, fail, close and crash in whatever order, the one
\* that acts as the leader owns the socket and serves on it, so there are
\* never two (promoteToLeader, runFollowerWatchDog).
THEOREM LeaderAlwaysOwnsRendezvous == Spec => []LeaderOwnsRendezvous
<1>1. ElectionInv => LeaderOwnsRendezvous
  BY DEF ElectionInv, Ownership, LeaderOwnsRendezvous
<1> QED
  BY <1>1, ElectionInit, ElectionNext, PTL DEF Spec

-----------------------------------------------------------------------------
(* The circuit of a follower *)

\* A circuit has a number that its node has given out.
Old(c) == c.from \in Nodes /\ c.nr \in Nat /\ c.nr <= circuits[c.from]

\* An error event belongs to a circuit that does not work any more and whose
\* number is not used again.
ErrorsOK ==
    /\ circuits \in [Nodes -> Nat]
    /\ \A c \in live : Old(c)
    /\ \A e \in errors : Old(e[2]) /\ e[2] \notin live

\* A watchdog that is about to change circuits changes to another leader.
SwitchOK ==
    /\ DOMAIN leaderCkt = Nodes /\ DOMAIN leaderURL = Nodes /\ DOMAIN found = Nodes
    /\ \A n \in Nodes :
          /\ pc[n] = "off" \/ booting[n] => leaderCkt[n] = None
          /\ pc[n] \in {"connect", "adopt"} /\ leaderCkt[n] # None
               => found[n] \notin {None, leaderURL[n]}

CircuitInv == ErrorsOK /\ SwitchOK

\* Circuits that fail leave events of circuits that failed.
LEMMA SeverErrors ==
    ASSUME ErrorsOK, NEW cs, NEW survivors, Sever(cs, survivors), UNCHANGED circuits
    PROVE  ErrorsOK'
<1>1. live' = live \ cs
  BY DEF Sever
<1>2. \A e \in errors' : e \in errors \/ e[2] \in cs \cap live
  BY DEF Sever
<1> QED
  BY <1>1, <1>2 DEF ErrorsOK, Old

\* No circuit fails or is opened, and events are only taken.
LEMMA FewerErrors ==
    ASSUME ErrorsOK, UNCHANGED <<live, circuits>>, errors' \subseteq errors
    PROVE  ErrorsOK'
BY DEF ErrorsOK, Old

\* The steps that concern neither watchdogs nor circuits of followers.
LEMMA SwitchUnchanged ==
    ASSUME SwitchOK, UNCHANGED <<pc, booting, leaderCkt, leaderURL, found>>
    PROVE  SwitchOK'
BY DEF SwitchOK

\* A follower that loses its circuit has none to change.
LEMMA LostSwitch ==
    ASSUME SwitchOK, NEW n \in Nodes, NEW c,
           NoteLeaderCircuitLost(n, c), UNCHANGED <<pc, booting, found>>
    PROVE  SwitchOK'
<1>1. CASE UNCHANGED <<leaderCkt, leaderURL>>
  BY <1>1, SwitchUnchanged
<1>2. CASE /\ leaderCkt' = [leaderCkt EXCEPT ![n] = None]
           /\ leaderURL' = [leaderURL EXCEPT ![n] = None]
  BY <1>2 DEF SwitchOK
<1> QED
  BY <1>1, <1>2 DEF NoteLeaderCircuitLost

\* The steps of the watchdog.
LEMMA WatchdogCircuit ==
    ASSUME CircuitInv, ElectionInv, NEW n \in Nodes, Start(n) \/ Watchdog(n)
    PROVE  CircuitInv'
<1> USE DEF CircuitInv, ElectionInv, ElectionTypes
<1>1. CASE Start(n)
  <2>1. ErrorsOK'
    BY <1>1, FewerErrors DEF Start, network
  <2> QED BY <1>1, <2>1 DEF Start, leader, SwitchOK
<1>2. CASE Listen(n) \/ StartCore(n) \/ CoreFails(n)
  <2>1. ErrorsOK'
    BY <1>2, FewerErrors DEF Listen, StartCore, CoreFails, network
  <2>2. /\ UNCHANGED <<booting, leaderCkt, leaderURL, found>> /\ pc[n] # "off"
        /\ \A m \in Nodes \ {n} : pc'[m] = pc[m]
        /\ pc'[n] \notin {"off", "connect", "adopt"}
    BY <1>2, FailedType DEF Listen, StartCore, CoreFails, leader
  <2> QED BY <2>1, <2>2 DEF SwitchOK
<1>3. CASE LookupDNS(n)
  <2>1. ErrorsOK'
    BY Zenon, <1>3, FewerErrors DEF LookupDNS, network
  <2>2. UNCHANGED <<booting, leaderCkt, leaderURL>> /\ found' = [found EXCEPT ![n] = holder]
    BY Zenon, <1>3 DEF LookupDNS, leader
  <2>3. /\ \A m \in Nodes \ {n} : pc'[m] = pc[m]
        /\ pc'[n] \notin {"off", "adopt"}
        /\ pc'[n] = "connect" => /\ holder # None
                                 /\ booting[n] \/ leaderCkt[n] = None \/ leaderURL[n] # holder
    <3>1. CASE holder = None
      BY ZenonT(60), <1>3, <3>1, FailedType DEF LookupDNS
    <3>2. CASE holder # None
      BY <1>3, <3>2 DEF LookupDNS
    <3> QED BY Zenon, <3>1, <3>2
  <2> QED BY <2>1, <2>2, <2>3 DEF SwitchOK
<1>4. CASE Connect(n) /\ Reachable(found[n])
  <2>0. PICK c : c = [from |-> n, to |-> found[n], nr |-> circuits[n] + 1]
    BY Zenon
  <2>1. /\ circuits' = [circuits EXCEPT ![n] = @ + 1] /\ live' = live \cup {c}
        /\ UNCHANGED <<errors, booting, leaderCkt, leaderURL, found>>
        /\ pc[n] = "connect" /\ pc' = [pc EXCEPT ![n] = "adopt"]
    BY <1>4, <2>0 DEF Connect, leader
  <2>2. c.from = n /\ c.nr = circuits[n] + 1
    BY Zenon, <2>0
  <2>3. circuits[n] \in Nat /\ \A m \in Nodes : circuits[m] \in Nat /\ circuits'[m] >= circuits[m]
    BY <2>1 DEF ErrorsOK
  <2>4. \A d : Old(d) => Old(d)' /\ d # c
    BY <2>1, <2>2, <2>3 DEF Old
  <2>5. Old(c)'
    BY <2>1, <2>2, <2>3 DEF Old, ErrorsOK
  <2>6. ErrorsOK'
    BY <2>1, <2>4, <2>5 DEF ErrorsOK
  <2>7. SwitchOK'
    BY <2>1 DEF SwitchOK
  <2> QED BY <2>6, <2>7
<1>5. CASE Connect(n) /\ ~Reachable(found[n])
  <2>1. ErrorsOK'
    BY Zenon, <1>5, FewerErrors DEF Connect
  <2>2. /\ UNCHANGED <<booting, leaderCkt, leaderURL, found>>
        /\ \A m \in Nodes \ {n} : pc'[m] = pc[m]
        /\ pc'[n] \notin {"off", "connect", "adopt"}
    BY <1>5, FailedType DEF Connect, leader
  <2> QED BY Zenon, <2>1, <2>2 DEF SwitchOK
<1>6. CASE Adopt(n) \/ Publish(n)
  <2>1. ErrorsOK'
    BY Zenon, <1>6, SeverErrors DEF Adopt, Publish
  <2>2. /\ DOMAIN leaderCkt' = Nodes /\ DOMAIN leaderURL' = Nodes /\ UNCHANGED found
        /\ \A m \in Nodes \ {n} : /\ pc'[m] = pc[m] /\ booting'[m] = booting[m]
                                  /\ leaderCkt'[m] = leaderCkt[m]
                                  /\ leaderURL'[m] = leaderURL[m]
        /\ pc'[n] \in {"listen", "idle"} /\ ~booting'[n]
    BY ZenonT(60), <1>6 DEF Adopt, Publish, SwitchOK
  <2> QED BY Zenon, <2>1, <2>2 DEF SwitchOK
<1> QED
  BY <1>1, <1>2, <1>3, <1>4, <1>5, <1>6 DEF Watchdog

\* A process ends, or a circuit fails.
LEMMA FaultCircuit ==
    ASSUME CircuitInv, ElectionInv,
           (\E n \in Nodes : Ending(n)) \/ (\E c \in live : Break(c))
    PROVE  CircuitInv'
<1>1. ErrorsOK'
  BY Zenon, SeverErrors DEF CircuitInv, Ending, Crash, Close, CloseCore, Ends, Break
<1>2. /\ UNCHANGED <<booting, leaderCkt, leaderURL, found>>
      /\ \A m \in Nodes : pc'[m] = pc[m] \/ pc'[m] = "dead"
  BY Zenon DEF Ending, Crash, Close, CloseCore, Ends, Break, leader, thread, ElectionInv, ElectionTypes
<1>3. SwitchOK'
  BY Zenon, <1>2 DEF CircuitInv, SwitchOK
<1> QED
  BY <1>1, <1>3 DEF CircuitInv

\* The steps of the guests, the event readers, the tailnet and time.
LEMMA TrafficCircuit ==
    ASSUME CircuitInv,
           \/ \E n \in Nodes :
                 \/ EventReader(n) \/ GuestSent(n)
                 \/ \E content \in work.frames[n] : GuestSends(n, content)
                 \/ \E key \in InKeys : HandleTsnetPacket(n, key)
           \/ Tick
    PROVE  CircuitInv'
<1> USE DEF CircuitInv
<1>1. ASSUME NEW n \in Nodes, GuestSent(n) PROVE CircuitInv'
  <2>1. ErrorsOK'
    BY Zenon, <1>1, FewerErrors DEF GuestSent
  <2>2. UNCHANGED <<pc, booting, found>>
    BY Zenon, <1>1 DEF GuestSent, thread
  <2>3. UNCHANGED leader \/ NoteLeaderCircuitLost(n, sending[n].ckt)
    BY Zenon, <1>1 DEF GuestSent
  <2> QED BY Zenon, <2>1, <2>2, <2>3, LostSwitch, SwitchUnchanged DEF leader
<1>2. ASSUME NEW n \in Nodes, NEW c, HandleCircuitError(n, c) PROVE CircuitInv'
  <2>1. ErrorsOK'
    BY Zenon, <1>2, FewerErrors DEF HandleCircuitError
  <2>2. UNCHANGED <<pc, booting, found>>
    BY ZenonT(60), <1>2 DEF HandleCircuitError, thread
  <2>3. UNCHANGED leader \/ NoteLeaderCircuitLost(n, c)
    BY ZenonT(60), <1>2 DEF HandleCircuitError
  <2> QED BY Zenon, <2>1, <2>2, <2>3, LostSwitch, SwitchUnchanged DEF leader
<1>3. ASSUME \/ \E c \in DOMAIN reads : HandleMessage(c)
             \/ \E n \in Nodes : \E content : GuestSends(n, content)
             \/ \E n \in Nodes, key \in InKeys : HandleTsnetPacket(n, key)
             \/ Tick
      PROVE  CircuitInv'
  <2>1. UNCHANGED <<live, errors, circuits, pc, booting, leaderCkt, leaderURL, found>>
    BY <1>3 DEF HandleMessage, GuestSends, HandleTsnetPacket, Tick, thread, leader, network
  <2> QED BY Zenon, <2>1, FewerErrors, SwitchUnchanged
<1> QED
  BY Zenon, <1>1, <1>2, <1>3 DEF EventReader

\* Every step keeps the invariant of the circuits.
LEMMA CircuitNext == CircuitInv /\ ElectionInv /\ [Next]_vars => CircuitInv'
<1> SUFFICES ASSUME CircuitInv, ElectionInv, [Next]_vars PROVE CircuitInv'
  OBVIOUS
<1>1. CASE UNCHANGED vars
  BY <1>1, FewerErrors, SwitchUnchanged DEF vars, CircuitInv
<1>2. CASE Next
  BY Zenon, <1>2, WatchdogCircuit, FaultCircuit, TrafficCircuit DEF Next, Ending
<1> QED
  BY <1>1, <1>2

\* The initial states have it.
LEMMA CircuitInit == Init => CircuitInv
<1> SUFFICES ASSUME Init PROVE CircuitInv
  OBVIOUS
<1>1. ErrorsOK
  <2> DEFINE line(f) == [from |-> f, to |-> work.leader, nr |-> 1]
             followers == work.nodes \ {work.leader}
  <2>1. /\ live = {line(f) : f \in followers} /\ errors = {}
        /\ circuits = [n \in Nodes |-> IF n \in followers THEN 1 ELSE 0]
    BY Zenon DEF Init
  <2>2. followers \subseteq Nodes
    BY Zenon, EmunetAssumption DEF Init
  <2>3. ASSUME NEW f \in followers PROVE Old(line(f))
    BY <2>1, <2>2 DEF Old
  <2> QED BY Zenon, <2>1, <2>3 DEF ErrorsOK
<1>2. SwitchOK
  BY Zenon DEF Init, SwitchOK
<1> QED
  BY <1>1, <1>2 DEF CircuitInv

\* A circuit that n loses by an error or by a failed send had failed.
LEMMA LostForAReason ==
    ASSUME SwitchOK, NEW n \in Nodes, NEW c, c \notin live, NoteLeaderCircuitLost(n, c)
    PROVE  \A m \in Nodes : LetsGoForAReason(m)
BY DEF NoteLeaderCircuitLost, LetsGoForAReason, SwitchOK

\* Only four kinds of steps change the circuit of a follower.
LEMMA CircuitSteps ==
    ASSUME [Next]_vars
    PROVE  \/ UNCHANGED leaderCkt
           \/ \E n \in Nodes : Adopt(n) \/ Publish(n) \/ GuestSent(n)
           \/ \E n \in Nodes, e \in errors : HandleCircuitError(n, e[2])
<1>1. CASE UNCHANGED vars
  BY <1>1 DEF vars
<1>2. CASE \E n \in Nodes : Start(n) \/ Watchdog(n) \/ Ending(n)
  BY <1>2 DEF Watchdog, Start, Listen, LookupDNS, Connect, StartCore, CoreFails, Ending, Crash,
              Close, CloseCore, Ends, leader
<1>3. CASE \/ \E n \in Nodes : \/ \E c \in DOMAIN reads : HandleMessage(c)
                               \/ \E content \in work.frames[n] : GuestSends(n, content)
                               \/ \E key \in InKeys : HandleTsnetPacket(n, key)
           \/ \E c \in live : Break(c)
           \/ Tick
  BY Zenon, <1>3 DEF HandleMessage, GuestSends, HandleTsnetPacket, Break, Tick, leader
<1> QED
  BY Zenon, <1>1, <1>2, <1>3 DEF Next, EventReader, Ending

\* No step takes a working circuit to the leader away from a follower.
LEMMA KeptStep ==
    ASSUME CircuitInv, ElectionInv, [Next]_vars
    PROVE  \A m \in Nodes : LetsGoForAReason(m)
<1>1. CASE UNCHANGED leaderCkt
  BY <1>1 DEF LetsGoForAReason
<1>2. ASSUME NEW n \in Nodes, Adopt(n) PROVE \A m \in Nodes : LetsGoForAReason(m)
  BY Zenon, <1>2 DEF Adopt, LetsGoForAReason, CircuitInv, SwitchOK
<1>3. ASSUME NEW n \in Nodes, Publish(n) PROVE \A m \in Nodes : LetsGoForAReason(m)
  BY Zenon, <1>3 DEF Publish, LetsGoForAReason, CircuitInv, SwitchOK, ElectionInv, ElectionTypes
<1>4. ASSUME NEW n \in Nodes, GuestSent(n) PROVE \A m \in Nodes : LetsGoForAReason(m)
  <2>1. CASE sending[n].ckt \in live
    BY Zenon, <1>4, <2>1 DEF GuestSent, leader, LetsGoForAReason
  <2>2. CASE sending[n].ckt \notin live
    <3>1. NoteLeaderCircuitLost(n, sending[n].ckt)
      BY Zenon, <1>4, <2>2 DEF GuestSent
    <3> QED BY <2>2, <3>1, LostForAReason DEF CircuitInv
  <2> QED BY <2>1, <2>2
<1>5. ASSUME NEW n \in Nodes, NEW e \in errors, HandleCircuitError(n, e[2])
      PROVE  \A m \in Nodes : LetsGoForAReason(m)
  <2>1. e[2] \notin live
    BY DEF CircuitInv, ErrorsOK
  <2>2. UNCHANGED leader \/ NoteLeaderCircuitLost(n, e[2])
    BY Zenon, <1>5 DEF HandleCircuitError
  <2> QED BY <2>1, <2>2, LostForAReason DEF CircuitInv, leader, LetsGoForAReason
<1> QED
  BY <1>1, <1>2, <1>3, <1>4, <1>5, CircuitSteps

\* A follower lets go of a circuit that works only to follow another leader or
\* to lead, for any number of circuits, late events and late sends
\* (noteLeaderCircuitLost, shouldConnectToDNSLeader, connectToLeader).
THEOREM GoodCircuitAlwaysKept == Spec => GoodCircuitKept
<1>1. CircuitInv /\ ElectionInv /\ [Next]_vars => [\A n \in Nodes : LetsGoForAReason(n)]_vars
  BY KeptStep
<1> QED
  BY <1>1, ElectionInit, ElectionNext, CircuitInit, CircuitNext, PTL
  DEF Spec, GoodCircuitKept

-----------------------------------------------------------------------------
(* The cores of all processes *)

\* Only a leader has a core, it has one as long as it runs, and every core is
\* in order after the leases that it has given out.
CoreInv ==
    /\ DOMAIN core = Nodes /\ issued \in [Nodes -> Nat]
    /\ \A n \in Nodes :
          /\ core[n] = NoCore \/ CoreOK(core[n], issued[n])
          /\ IsLeader(n) => CoreOK(core[n], issued[n])
          /\ role[n] # "leader" => core[n] = NoCore /\ issued[n] = 0

LeaseCount == LastLease - FirstLease + 1

\* The number of addresses.
LEMMA LeaseCardinality == Cardinality(Leases) = LeaseCount
BY RouterAssumption, FS_Interval DEF Leases, LeaseCount

\* One leader's core changes.
LEMMA OneCore ==
    ASSUME CoreInv, NEW n \in Nodes, NEW c, NEW k \in Nat, role[n] = "leader", CoreOK(c, k),
           core' = [core EXCEPT ![n] = c], issued' = [issued EXCEPT ![n] = k],
           UNCHANGED thread
    PROVE  CoreInv'
BY DEF CoreInv, IsLeader, Up, thread

\* No core changes.
LEMMA SameCores ==
    ASSUME CoreInv, UNCHANGED <<core, issued>>,
           \A n \in Nodes : (IsLeader(n)' => IsLeader(n)) /\ (role[n] = "leader" => role'[n] = "leader")
    PROVE  CoreInv'
BY DEF CoreInv

\* A frame of a guest reaches a core.
LEMMA HandleGuestFrameCore ==
    ASSUME CoreInv, NEW n \in Nodes, core[n] # NoCore, NEW port, NEW emit, NEW content,
           HandleGuestFrame(n, port, emit, content), UNCHANGED thread
    PROVE  CoreInv'
<1>1. role[n] = "leader" /\ CoreOK(core[n], issued[n]) /\ issued[n] \in Nat
  BY DEF CoreInv
<1>2. CASE content = None
  <2> DEFINE j == IF port \in DOMAIN core[n].ports \/ issued[n] > LeaseCount
                  THEN issued[n] ELSE issued[n] + 1
             d == EmunetPort(core[n], port, emit)
  <2>1. j \in Nat
    BY <1>1
  <2>2. core' = [core EXCEPT ![n] = d] /\ issued' = [issued EXCEPT ![n] = j]
    BY ZenonT(60), <1>2, LeaseCardinality DEF HandleGuestFrame, CoreInv
  <2>3. CoreOK(d, j)
    BY Zenon, <1>1, <2>1, EmunetPortOK DEF LeaseCount
  <2> HIDE DEF j, d
  <2> QED BY ZenonT(60), <1>1, <2>1, <2>2, <2>3, OneCore
<1>3. CASE content # None
  <2> DEFINE d == NATExternal(core[n], FlowOf(content, port))
  <2>1. core' = [core EXCEPT ![n] = d] /\ issued' = [issued EXCEPT ![n] = issued[n]]
    BY ZenonT(60), <1>3 DEF HandleGuestFrame, CoreInv
  <2>2. CoreOK(d, issued[n])
    BY Zenon, <1>1, NATExternalOK
  <2> HIDE DEF d
  <2> QED BY Zenon, <1>1, <2>1, <2>2, OneCore
<1> QED
  BY ZenonT(60), <1>2, <1>3

\* A process that ends leaves no core.
LEMMA EndCore ==
    ASSUME CoreInv, ElectionInv, NEW n \in Nodes, Ending(n)
    PROVE  CoreInv'
<1>1. /\ core' = core \/ core' = [core EXCEPT ![n] = NoCore]
      /\ UNCHANGED <<issued, role>>
      /\ \A m \in Nodes \ {n} : pc'[m] = pc[m] /\ closed'[m] = closed[m]
      /\ pc'[n] = "dead" \/ closed'[n] # "no"
  BY DEF Ending, Crash, Close, CloseCore, Ends, ElectionInv, ElectionTypes
<1>2. ~IsLeader(n)'
  BY <1>1 DEF IsLeader, Up
<1> QED
  BY <1>1, <1>2 DEF CoreInv, IsLeader, Up

\* The watchdog's steps: only the last one of a promotion makes a core.
LEMMA WatchdogCore ==
    ASSUME CoreInv, ElectionInv, NEW n \in Nodes, Start(n) \/ Watchdog(n)
    PROVE  CoreInv'
<1>1. CASE Publish(n)
  <2>1. role[n] # "leader" /\ issued[n] = 0
    BY <1>1 DEF Publish, ElectionInv, Ownership, CoreInv
  <2>2. /\ core' = [core EXCEPT ![n] = NewCore] /\ UNCHANGED issued
        /\ role' = [role EXCEPT ![n] = "leader"] /\ UNCHANGED closed
        /\ pc' = [pc EXCEPT ![n] = "idle"]
    BY Zenon, <1>1 DEF Publish
  <2>3. CoreOK(NewCore, issued[n])
    BY <2>1, NewCoreOK
  <2>4. role \in [Nodes -> {"none", "follower", "leader"}] /\ pc \in [Nodes -> PCs]
    BY DEF ElectionInv, ElectionTypes
  <2> QED BY Zenon, <2>2, <2>3, <2>4 DEF CoreInv, IsLeader, Up
<1>2. CASE Start(n) \/ Listen(n) \/ LookupDNS(n) \/ Connect(n) \/ Adopt(n) \/ StartCore(n)
           \/ CoreFails(n)
  <2>1. UNCHANGED <<core, issued, closed>> /\ role[n] # "leader" /\ role'[n] # "leader"
    BY <1>2 DEF Start, Listen, LookupDNS, Connect, Adopt, StartCore, CoreFails, router,
                ElectionInv, ElectionTypes, Ownership
  <2>2. \A m \in Nodes \ {n} : pc'[m] = pc[m] /\ role'[m] = role[m]
    BY SMTT(30), <1>2 DEF Start, Listen, LookupDNS, Connect, Adopt, StartCore, CoreFails, Failed,
                ElectionInv, ElectionTypes
  <2> QED BY Zenon, <2>1, <2>2, SameCores DEF IsLeader, Up
<1> QED
  BY Zenon, <1>1, <1>2 DEF Watchdog

\* Messages and errors of circuits.
LEMMA EventCore ==
    ASSUME CoreInv, NEW n \in Nodes, EventReader(n)
    PROVE  CoreInv'
<1>1. ASSUME NEW c \in DOMAIN reads, c.to = n, HandleMessage(c)
      PROVE  CoreInv'
  <2>1. UNCHANGED thread
    BY Zenon, <1>1 DEF HandleMessage
  <2>2. CASE UNCHANGED router
    BY ZenonT(60), <2>1, <2>2, SameCores DEF router, thread, IsLeader, Up
  <2>3. CASE core[n] # NoCore /\ HandleGuestFrame(n, c.from, c, Head(reads[c]).content)
    BY Zenon, <2>1, <2>3, HandleGuestFrameCore
  <2> QED BY <1>1, <2>2, <2>3 DEF HandleMessage
<1>2. ASSUME NEW c, HandleCircuitError(n, c)
      PROVE  CoreInv'
  <2>1. UNCHANGED <<thread, issued>>
    BY Zenon, <1>2 DEF HandleCircuitError
  <2>2. CASE UNCHANGED core
    BY ZenonT(60), <2>1, <2>2, SameCores DEF thread, IsLeader, Up
  <2>3. CASE role[n] = "leader" /\ core' = [core EXCEPT ![n] = RemoveEmunetPort(@, c.from)]
    <3>1. CoreOK(core[n], issued[n]) /\ issued[n] \in Nat
      BY Zenon, <1>2, <2>3 DEF CoreInv, HandleCircuitError, IsLeader
    <3>2. CoreOK(RemoveEmunetPort(core[n], c.from), issued[n])
      BY ZenonT(60), <3>1, RemovePortOK
    <3>3. issued' = [issued EXCEPT ![n] = issued[n]]
      BY Zenon, <2>1 DEF CoreInv
    <3> QED BY Zenon, <2>1, <2>3, <3>1, <3>2, <3>3, OneCore
  <2> QED BY Zenon, <1>2, <2>2, <2>3 DEF HandleCircuitError, ForgetFollowerCircuit
<1> QED
  BY <1>1, <1>2 DEF EventReader

\* Frames of the guests and packets of the tailnet.
LEMMA PacketCore ==
    ASSUME CoreInv, NEW n \in Nodes,
           \/ \E content \in work.frames[n] : GuestSends(n, content)
           \/ GuestSent(n)
           \/ \E key \in InKeys : HandleTsnetPacket(n, key)
    PROVE  CoreInv'
<1>1. ASSUME NEW content, GuestSends(n, content) PROVE CoreInv'
  <2>1. UNCHANGED thread
    BY Zenon, <1>1 DEF GuestSends
  <2>2. CASE core[n] # NoCore /\ HandleGuestFrame(n, Local, Local, content)
    BY Zenon, <2>1, <2>2, HandleGuestFrameCore
  <2>3. CASE UNCHANGED router
    BY <2>1, <2>3, SameCores DEF router, thread, IsLeader, Up
  <2> QED BY Zenon, <1>1, <2>2, <2>3 DEF GuestSends
<1>2. CASE GuestSent(n)
  BY Zenon, <1>2, SameCores DEF GuestSent, router, thread, IsLeader, Up
<1>3. ASSUME NEW key, HandleTsnetPacket(n, key) PROVE CoreInv'
  <2>1. role[n] = "leader" /\ CoreOK(core[n], issued[n]) /\ issued[n] \in Nat
    BY <1>3 DEF CoreInv, HandleTsnetPacket, IsLeader
  <2>2. CoreOK(NATInbound(core[n], key), issued[n])
    BY <2>1, NATInboundOK
  <2>3. /\ core' = [core EXCEPT ![n] = NATInbound(core[n], key)]
        /\ issued' = [issued EXCEPT ![n] = issued[n]] /\ UNCHANGED thread
    BY Zenon, <1>3 DEF HandleTsnetPacket, CoreInv
  <2> QED BY Zenon, <2>1, <2>2, <2>3, OneCore
<1> QED
  BY <1>1, <1>2, <1>3

\* Time ages the table of every core.
LEMMA TickCore ==
    ASSUME CoreInv, Tick
    PROVE  CoreInv'
<1>1. /\ core' = [n \in Nodes |-> IF core[n] = NoCore \/ core[n].hung # {} THEN core[n]
                                  ELSE Age(core[n])]
      /\ UNCHANGED <<thread, issued>>
  BY DEF Tick
<1>2. \A n \in Nodes : core'[n] = core[n] \/ (core[n] # NoCore /\ core'[n] = Age(core[n]))
  BY <1>1
<1>3. ASSUME NEW n \in Nodes, CoreOK(core[n], issued[n])
      PROVE  CoreOK(core'[n], issued'[n])
  BY Zenon, <1>1, <1>2, <1>3, AgeOK
<1> QED
  BY <1>1, <1>2, <1>3 DEF CoreInv, thread, IsLeader, Up

\* Every step keeps all cores in order.
LEMMA CoreNext == CoreInv /\ ElectionInv /\ [Next]_vars => CoreInv'
<1> SUFFICES ASSUME CoreInv, ElectionInv, [Next]_vars PROVE CoreInv'
  BY Zenon
<1>1. CASE UNCHANGED vars
  BY Zenon, <1>1, SameCores DEF vars, thread, IsLeader, Up
<1>2. CASE \E c \in live : Break(c)
  BY Zenon, <1>2, SameCores DEF Break, thread, router, IsLeader, Up
<1>3. CASE Tick
  BY <1>3, TickCore
<1>4. ASSUME NEW n \in Nodes,
             \/ Start(n) \/ Watchdog(n) \/ EventReader(n) \/ Ending(n)
             \/ \E content \in work.frames[n] : GuestSends(n, content)
             \/ GuestSent(n)
             \/ \E key \in InKeys : HandleTsnetPacket(n, key)
      PROVE  CoreInv'
  BY Zenon, <1>4, WatchdogCore, EventCore, EndCore, PacketCore
<1> QED
  BY Zenon, <1>1, <1>2, <1>3, <1>4 DEF Next, Ending

\* The initial states have it.
LEMMA CoreInit == Init => CoreInv
<1> SUFFICES ASSUME Init PROVE CoreInv
  OBVIOUS
<1>1. /\ DOMAIN core = Nodes /\ issued = [n \in Nodes |-> 0]
      /\ \A n \in Nodes : core[n] = IF n = work.leader THEN NewCore ELSE NoCore
      /\ \A n \in Nodes : role[n] = "leader" <=> n = work.leader
  BY Zenon DEF Init
<1> QED
  BY <1>1, NewCoreOK DEF CoreInv, IsLeader

\* Both maps of every NAT table describe the same flows, with an external port
\* each, for every number of guests and every size of the pool of external
\* ports (natExternalLocked, natInbound, cleanupExpiredNATLocked and
\* removeEmunetPort).
THEOREM NATTablesAlwaysAgree == Spec => []NATTablesAgree
<1>1. CoreInv => NATTablesAgree
  <2> SUFFICES ASSUME CoreInv, NEW n \in Nodes, core[n] # NoCore
               PROVE  NATConsistent(core[n])
    BY DEF NATTablesAgree
  <2>1. NATMaps(core[n].natByOut, core[n].natByIn)
    BY Zenon DEF CoreInv, CoreOK
  <2> QED BY Zenon, <2>1, MapsConsistent
<1> QED
  BY <1>1, ElectionInit, ElectionNext, CoreInit, CoreNext, PTL DEF Spec

\* Guests have different addresses until the allocator has gone through all of
\* its addresses, however ports come and go (nextLeaseLocked).
THEOREM LeasesAlwaysDistinct == Spec => []LeasesDistinct
<1>1. CoreInv => LeasesDistinct
  BY Zenon, LeaseCardinality DEF CoreInv, CoreOK, LeasesOK, LeasesDistinct, LeaseCount
<1> QED
  BY <1>1, ElectionInit, ElectionNext, CoreInit, CoreNext, PTL DEF Spec

\* The core of n is left alone, or does not spin, or spins for want of a port.
SpinsForAReason(n) ==
    core'[n] = core[n] \/ core'[n].hung = {} \/ FullOfUsedFlows(core'[n])

\* A core and the frame of a guest.
LEMMA HandleGuestFrameSpin ==
    ASSUME CoreInv, NEW n \in Nodes, core[n] # NoCore, NEW port, NEW emit, NEW content,
           HandleGuestFrame(n, port, emit, content)
    PROVE  \A m \in Nodes : SpinsForAReason(m)
<1>1. CoreOK(core[n], issued[n]) /\ core[n].hung = {} /\ issued[n] \in Nat
  BY Zenon DEF CoreInv, HandleGuestFrame
<1>2. CASE content = None
  <2> DEFINE d == EmunetPort(core[n], port, emit)
  <2>1. core' = [core EXCEPT ![n] = d]
    BY <1>2 DEF HandleGuestFrame
  <2>2. \E j \in Nat : IF port \in DOMAIN core[n].ports \/ issued[n] > LastLease - FirstLease + 1
                       THEN j = issued[n] ELSE j = issued[n] + 1
    BY SMTT(30), <1>1
  <2>3. d.hung = {}
    BY <1>1, <2>2, EmunetPortOK
  <2> HIDE DEF d
  <2> QED BY Zenon, <2>1, <2>3 DEF SpinsForAReason, CoreInv
<1>3. CASE content # None
  <2> DEFINE d == NATExternal(core[n], FlowOf(content, port))
  <2>1. core' = [core EXCEPT ![n] = d]
    BY ZenonT(60), <1>3 DEF HandleGuestFrame
  <2>2. d.hung = {} \/ FullOfUsedFlows(d)
    BY ZenonT(60), <1>1, NATExternalOK
  <2> HIDE DEF d
  <2> QED BY Zenon, <2>1, <2>2 DEF SpinsForAReason, CoreInv
<1> QED
  BY <1>2, <1>3

\* The event reader of n.
LEMMA EventSpin ==
    ASSUME CoreInv, NEW n \in Nodes, EventReader(n)
    PROVE  \A m \in Nodes : SpinsForAReason(m)
<1>1. ASSUME NEW c \in DOMAIN reads, c.to = n, HandleMessage(c)
      PROVE  \A m \in Nodes : SpinsForAReason(m)
  <2>1. CASE UNCHANGED router
    BY <2>1 DEF router, SpinsForAReason
  <2>2. CASE core[n] # NoCore /\ HandleGuestFrame(n, c.from, c, Head(reads[c]).content)
    BY Zenon, <2>2, HandleGuestFrameSpin
  <2> QED BY <1>1, <2>1, <2>2 DEF HandleMessage
<1>2. ASSUME NEW c, HandleCircuitError(n, c)
      PROVE  \A m \in Nodes : SpinsForAReason(m)
  <2>1. CASE UNCHANGED core
    BY <2>1 DEF SpinsForAReason
  <2>2. CASE /\ role[n] = "leader" /\ core[n].hung = {}
             /\ core' = [core EXCEPT ![n] = RemoveEmunetPort(@, c.from)]
    <3>1. CoreOK(core[n], issued[n])
      BY Zenon, <1>2, <2>2 DEF CoreInv, HandleCircuitError, IsLeader
    <3>2. RemoveEmunetPort(core[n], c.from).hung = {}
      BY <2>2, <3>1, RemovePortOK
    <3> QED BY Zenon, <2>2, <3>2 DEF SpinsForAReason, CoreInv
  <2> QED BY Zenon, <1>2, <2>1, <2>2 DEF HandleCircuitError, ForgetFollowerCircuit
<1> QED
  BY <1>1, <1>2 DEF EventReader

\* Every step.
LEMMA SpinStep ==
    ASSUME CoreInv, [Next]_vars
    PROVE  \A m \in Nodes : SpinsForAReason(m)
<1>1. CASE UNCHANGED core
  BY <1>1 DEF SpinsForAReason
<1>2. ASSUME NEW n \in Nodes, EventReader(n) PROVE \A m \in Nodes : SpinsForAReason(m)
  BY <1>2, EventSpin
<1>3. ASSUME NEW n \in Nodes, Publish(n) \/ Crash(n) \/ CloseCore(n)
      PROVE  \A m \in Nodes : SpinsForAReason(m)
  <2>1. NewCore.hung = {} /\ NoCore.hung = {}
    BY DEF NewCore, NoCore
  <2>2. core' = [core EXCEPT ![n] = NewCore] \/ core' = [core EXCEPT ![n] = NoCore]
    BY ZenonT(60), <1>3 DEF Publish, Crash, CloseCore, Ends
  <2> QED BY Zenon, <2>1, <2>2 DEF SpinsForAReason, CoreInv
<1>4. ASSUME NEW n \in Nodes, NEW content, GuestSends(n, content)
      PROVE  \A m \in Nodes : SpinsForAReason(m)
  <2>1. CASE UNCHANGED router
    BY <2>1 DEF router, SpinsForAReason
  <2>2. CASE core[n] # NoCore /\ HandleGuestFrame(n, Local, Local, content)
    BY ZenonT(60), <2>2, HandleGuestFrameSpin
  <2> QED BY ZenonT(60), <1>4, <2>1, <2>2 DEF GuestSends
<1>5. ASSUME NEW n \in Nodes, NEW key, HandleTsnetPacket(n, key)
      PROVE  \A m \in Nodes : SpinsForAReason(m)
  <2>1. CoreOK(core[n], issued[n]) /\ core[n].hung = {}
    BY Zenon, <1>5 DEF CoreInv, HandleTsnetPacket
  <2>2. NATInbound(core[n], key).hung = {}
    BY <2>1, NATInboundOK
  <2>3. core' = [core EXCEPT ![n] = NATInbound(core[n], key)]
    BY <1>5 DEF HandleTsnetPacket
  <2> QED BY <2>2, <2>3 DEF SpinsForAReason, CoreInv
<1>6. CASE Tick
  <2>1. ASSUME NEW m \in Nodes, core'[m] # core[m] PROVE core'[m].hung = {}
    <3>1. core'[m] = Age(core[m]) /\ core[m] # NoCore /\ core[m].hung = {}
      BY Zenon, <1>6, <2>1 DEF Tick
    <3>2. CoreOK(core[m], issued[m])
      BY <3>1 DEF CoreInv
    <3> QED BY <3>1, <3>2, AgeOK
  <2> QED BY <2>1 DEF SpinsForAReason
<1>7. CASE \/ \E n \in Nodes : Start(n) \/ Listen(n) \/ LookupDNS(n) \/ Connect(n) \/ Adopt(n)
                               \/ StartCore(n) \/ CoreFails(n) \/ GuestSent(n) \/ Close(n)
           \/ \E c \in live : Break(c)
  <2>1. UNCHANGED core
    BY Zenon, <1>7 DEF Start, Listen, LookupDNS, Connect, Adopt, StartCore, CoreFails, GuestSent,
                Close, Break, router
  <2> QED BY <1>1, <2>1
<1> QED
  BY Zenon, <1>1, <1>2, <1>3, <1>4, <1>5, <1>6, <1>7 DEF Next, Watchdog, vars

\* The search of nextNATLocked runs for ever only when every external port
\* belongs to a flow within its idle time, whatever the size of the pool.
THEOREM SpinsAlwaysForWantOfPorts == Spec => []SpinsOnlyWhenFull
<1>1. Init => SpinsOnlyWhenFull
  <2>1. NewCore.hung = {} /\ NoCore.hung = {}
    BY DEF NewCore, NoCore
  <2>2. Init => \A n \in Nodes : core[n] = NewCore \/ core[n] = NoCore
    BY Zenon DEF Init
  <2> QED BY <2>1, <2>2 DEF SpinsOnlyWhenFull
<1>2. CoreInv /\ SpinsOnlyWhenFull /\ [Next]_vars => SpinsOnlyWhenFull'
  <2> SUFFICES ASSUME CoreInv, SpinsOnlyWhenFull, [Next]_vars, NEW n \in Nodes,
                      core'[n].hung # {}
               PROVE  FullOfUsedFlows(core'[n])
    BY Zenon DEF SpinsOnlyWhenFull, FullOfUsedFlows
  <2> QED BY SpinStep DEF SpinsForAReason, SpinsOnlyWhenFull
<1> QED
  BY <1>1, <1>2, ElectionInit, ElectionNext, CoreInit, CoreNext, PTL DEF Spec
=============================================================================
