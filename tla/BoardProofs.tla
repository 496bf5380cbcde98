------------------------------ MODULE BoardProofs ------------------------------
(***************************************************************************)
(* The fast path of SupervisorExternalInterruptPending is exact for every  *)
(* buffer limit, number of injecting goroutines and guest program, as long *)
(* as every source of input calls wakeWFI (no console socket).  The        *)
(* inductive invariant says what an evaluation in progress has collected:  *)
(* as long as nobody has marked the flag, the lines read so far still have *)
(* the level they had.                                                     *)
(***************************************************************************)
EXTENDS BoardIRQ, TLAPS, SequenceTheorems

Quiet == ~dirty /\ \A g \in Producers : prod[g] # "mark"

\* What an evaluation for a refresh has collected.
Collected ==
    hart.job = "refresh" =>
      /\ plic.claimed = 0
      /\ hart.pc \in {"drain", "virtio"}
      /\ hart.pc = "drain" /\ hart.port = 0 => hart.irqs = {}
      /\ hart.pc = "drain" /\ hart.port = 1 /\ Quiet
           => hart.irqs = DueLine(0, uart[0], chan[0])
      /\ hart.pc = "virtio" /\ Quiet
           => hart.irqs = DueLine(0, uart[0], chan[0]) \cup DueLine(1, uart[1], chan[1])

\* A refresh of SEIP knows where it returns to.
Control ==
    hart.pc = "refresh" \/ hart.job = "refresh" => hart.next \in {"exec", "wfi", "top"}

\* The three parts of TypeOK: device registers, flags, and goroutines.
DeviceType ==
    /\ uart \in [Port -> UARTPort]
    /\ chan \in [Port -> [q : Seq(Nat), closed : BOOLEAN]]
    /\ \A p \in Port : Len(uart[p].rx) <= RXLimit /\ Len(chan[p].q) <= RXLimit
    /\ typed \in [Port -> Nat] /\ taken \in [Port -> Nat]
    /\ plic \in PLICState

FlagType ==
    /\ vnet \in BOOLEAN /\ dirty \in BOOLEAN /\ cached \in BOOLEAN
    /\ seip \in BOOLEAN /\ ie \in BOOLEAN /\ wake \in BOOLEAN

ControlType ==
    /\ hart \in HartState /\ Control
    /\ prod \in [Producers -> {"idle", "mark", "token"}]

Types == DeviceType /\ FlagType /\ ControlType

-----------------------------------------------------------------------------
\* The parts together are TypeOK and Control.
LEMMA TypeParts == Types <=> TypeOK /\ Control
BY Zenon DEF Types, DeviceType, FlagType, ControlType, TypeOK

\* Init gives every variable its type.
LEMMA InitType == Init => Types
<1> SUFFICES ASSUME Init PROVE Types
  OBVIOUS
<1>1. << >> \in Seq(Nat) /\ Len(<< >>) = 0
  OBVIOUS
<1>2. \A p \in Port : [ier |-> {}, dlab |-> FALSE, tx |-> FALSE, rx |-> << >>,
                       open |-> p = 0 \/ ConsoleSocket] \in UARTPort
  BY <1>1 DEF UARTPort
<1>3. uart \in [Port -> UARTPort] /\ \A p \in Port : uart[p].rx = << >>
  BY <1>2 DEF Init
<1>4. /\ chan \in [Port -> [q : Seq(Nat), closed : BOOLEAN]]
      /\ \A p \in Port : chan[p].q = << >>
  BY <1>1 DEF Init
<1>5. plic \in PLICState
  BY DEF Init, PLICState, Source
<1>6. DeviceType
  BY <1>1, <1>3, <1>4, <1>5, BoardAssumption DEF Init, DeviceType
<1>7. ControlType
  BY DEF Init, ControlType, Control, HartState, Top, At, Port
<1>8. FlagType
  BY Zenon DEF Init, FlagType
<1> QED
  BY <1>6, <1>7, <1>8 DEF Types

\* Where the hart goes has the type of hart.
LEMMA AtType ==
    ASSUME NEW pc \in {"refresh", "drain", "virtio", "exec", "wfi", "sleep"},
           NEW job \in {"none", "refresh", "claim", "bits", "read"},
           NEW next \in {"none", "exec", "wfi", "top", "rbr", "iir", "lsr"}
    PROVE  /\ At(pc, job, next) \in HartState
           /\ At(pc, job, next).pc = pc /\ At(pc, job, next).job = job
           /\ At(pc, job, next).next = next
BY DEF At, HartState, Port

\* Returning from a refresh.
LEMMA ReturnedType ==
    ASSUME NEW next \in {"exec", "wfi", "top"}
    PROVE  /\ Top \in HartState /\ Returned(next) \in HartState
           /\ Top.job = "none" /\ Top.pc = "refresh" /\ Top.next = "exec"
           /\ Returned(next).job = "none"
           /\ Returned(next).pc = "refresh" => Returned(next).next = "exec"
BY DEF Top, Returned, At, HartState, Port

\* A UART port keeps its type when one field changes.
LEMMA UARTTypes ==
    ASSUME NEW u \in UARTPort
    PROVE  /\ \A b \in SUBSET UARTInterrupts : [u EXCEPT !.ier = b] \in UARTPort
           /\ \A b \in BOOLEAN : [u EXCEPT !.dlab = b] \in UARTPort
           /\ \A b \in BOOLEAN : [u EXCEPT !.tx = b] \in UARTPort
           /\ \A b \in BOOLEAN : [u EXCEPT !.open = b] \in UARTPort
           /\ \A r \in Seq(Nat) : [u EXCEPT !.rx = r] \in UARTPort
BY Zenon DEF UARTPort

\* The host's steps keep the types of the devices.
LEMMA DeliverType ==
    ASSUME DeviceType, NEW p \in Port, Deliver(p)
    PROVE  DeviceType'
<1>1. chan[p] \in [q : Seq(Nat), closed : BOOLEAN] /\ typed[p] \in Nat
  BY DEF DeviceType
<1>2. /\ Append(chan[p].q, typed[p] + 1) \in Seq(Nat)
      /\ Len(Append(chan[p].q, typed[p] + 1)) <= RXLimit
  BY <1>1, BoardAssumption DEF Deliver
<1>3. /\ chan' \in [Port -> [q : Seq(Nat), closed : BOOLEAN]]
      /\ \A r \in Port : Len(chan'[r].q) <= RXLimit
  BY Zenon, <1>1, <1>2 DEF Deliver, DeviceType
<1> QED
  BY <1>1, <1>3 DEF Deliver, DeviceType

\* Moving the head of one sequence to the end of another.
LEMMA MoveHead ==
    ASSUME NEW s \in Seq(Nat), s # << >>, NEW r \in Seq(Nat)
    PROVE  /\ Tail(s) \in Seq(Nat) /\ Len(Tail(s)) = Len(s) - 1
           /\ Append(r, Head(s)) \in Seq(Nat) /\ Len(Append(r, Head(s))) = Len(r) + 1
           /\ Append(r, Head(s)) # << >>
           /\ Len(s) \in Nat /\ Len(r) \in Nat
<1>1. Head(s) \in Nat /\ Tail(s) \in Seq(Nat) /\ Len(Tail(s)) = Len(s) - 1
  BY HeadTailProperties
<1>2. Append(r, Head(s)) \in Seq(Nat) /\ Len(Append(r, Head(s))) = Len(r) + 1
  BY <1>1, AppendProperties
<1>3. Append(r, Head(s)) # << >>
  BY <1>1, AppendProperties
<1>4. Len(s) \in Nat /\ Len(r) \in Nat
  BY LenProperties
<1> QED
  BY <1>1, <1>2, <1>3, <1>4

\* Draining a byte keeps both buffers within their limits.
LEMMA DrainByteType ==
    ASSUME DeviceType, ControlType, DrainByte
    PROVE  DeviceType'
<1> DEFINE p == hart.port
<1>1. p \in Port /\ chan[p] \in [q : Seq(Nat), closed : BOOLEAN] /\ uart[p] \in UARTPort
  BY DEF DeviceType, ControlType, HartState
<1>2. chan[p].q \in Seq(Nat) /\ uart[p].rx \in Seq(Nat)
  BY <1>1 DEF UARTPort
<1>3. chan[p].q # << >> /\ Len(uart[p].rx) < RXLimit /\ Len(chan[p].q) <= RXLimit
  BY <1>1 DEF DrainByte, CanReceive, DeviceType
<1>4. /\ Tail(chan[p].q) \in Seq(Nat) /\ Len(Tail(chan[p].q)) <= RXLimit
      /\ Append(uart[p].rx, Head(chan[p].q)) \in Seq(Nat)
      /\ Len(Append(uart[p].rx, Head(chan[p].q))) <= RXLimit
  BY <1>2, <1>3, MoveHead, BoardAssumption
<1>5. /\ uart' = [uart EXCEPT ![p] = [uart[p] EXCEPT !.rx = Append(uart[p].rx, Head(chan[p].q))]]
      /\ chan' = [chan EXCEPT ![p] = [chan[p] EXCEPT !.q = Tail(chan[p].q)]]
  BY <1>1 DEF DrainByte, DeviceType
<1>6. /\ chan' \in [Port -> [q : Seq(Nat), closed : BOOLEAN]]
      /\ \A r \in Port : Len(chan'[r].q) <= RXLimit
  <2>1. [chan[p] EXCEPT !.q = Tail(chan[p].q)] \in [q : Seq(Nat), closed : BOOLEAN]
    BY Zenon, <1>1, <1>4
  <2> QED BY <1>1, <1>4, <1>5, <2>1 DEF DeviceType
<1>7. /\ uart' \in [Port -> UARTPort]
      /\ \A r \in Port : Len(uart'[r].rx) <= RXLimit
  <2>1. [uart[p] EXCEPT !.rx = Append(uart[p].rx, Head(chan[p].q))] \in UARTPort
    BY Zenon, <1>1, <1>4, UARTTypes
  <2>2. [uart[p] EXCEPT !.rx = Append(uart[p].rx, Head(chan[p].q))].rx
          = Append(uart[p].rx, Head(chan[p].q))
    BY <1>1 DEF UARTPort
  <2> HIDE DEF p
  <2> QED BY <1>1, <1>4, <1>5, <2>1, <2>2 DEF DeviceType
<1> QED
  BY <1>6, <1>7 DEF DrainByte, DeviceType

\* A port whose registers change and whose rx does not grow keeps DeviceType.
LEMMA SetPortType ==
    ASSUME DeviceType, NEW p \in Port, NEW u \in UARTPort, Len(u.rx) <= RXLimit,
           uart' = [uart EXCEPT ![p] = u],
           taken' \in [Port -> Nat], UNCHANGED <<chan, typed, plic>>
    PROVE  DeviceType'
BY Zenon DEF DeviceType

\* Instructions that write UART registers.
LEMMA StoreUARTType ==
    ASSUME DeviceType, NEW p \in Port,
           \/ StoreTHR(p)
           \/ \E b \in IERValues : StoreIER(p, b)
           \/ \E b \in BOOLEAN : StoreLCR(p, b)
    PROVE  DeviceType'
<1>1. uart[p] \in UARTPort /\ Len(uart[p].rx) <= RXLimit
  BY DEF DeviceType
<1>2. \A ier \in SUBSET UARTInterrupts, dlab \in BOOLEAN, tx \in BOOLEAN :
        LET u == [uart[p] EXCEPT !.ier = ier, !.dlab = dlab, !.tx = tx]
        IN  u \in UARTPort /\ Len(u.rx) <= RXLimit
  BY ZenonT(60), <1>1 DEF UARTPort
<1>3. uart[p].ier \in SUBSET UARTInterrupts /\ uart[p].dlab \in BOOLEAN /\ uart[p].tx \in BOOLEAN
  BY <1>1 DEF UARTPort
<1>4. PICK ier \in SUBSET UARTInterrupts, dlab \in BOOLEAN, tx \in BOOLEAN :
        uart' = [uart EXCEPT ![p] = [uart[p] EXCEPT !.ier = ier, !.dlab = dlab, !.tx = tx]]
  <2>1. CASE StoreTHR(p)
    <3> DEFINE t == uart[p].tx \/ (~uart[p].dlab /\ "THRI" \in uart[p].ier)
    <3>1. t \in BOOLEAN
      BY <1>3
    <3>2. uart' = [uart EXCEPT ![p] = [uart[p] EXCEPT !.tx = t]]
      BY <2>1 DEF StoreTHR, DeviceType
    <3>3. [uart[p] EXCEPT !.tx = t]
            = [uart[p] EXCEPT !.ier = uart[p].ier, !.dlab = uart[p].dlab, !.tx = t]
      BY Zenon, <1>1 DEF UARTPort
    <3> HIDE DEF t
    <3> QED BY Zenon, <1>3, <3>1, <3>2, <3>3
  <2>2. CASE \E b \in IERValues : StoreIER(p, b)
    <3>1. PICK b \in IERValues : StoreIER(p, b)
      BY <2>2
    <3> DEFINE t == IF uart[p].dlab THEN uart[p].tx ELSE "THRI" \in b
    <3>2. t \in BOOLEAN
      <4>1. CASE uart[p].dlab
        BY <1>3, <4>1
      <4>2. CASE ~uart[p].dlab
        <5>1. ("THRI" \in b) \in BOOLEAN
          BY SMTT(30)
        <5> QED BY <4>2, <5>1, Zenon
      <4> QED BY <4>1, <4>2
    <3>3. uart' = [uart EXCEPT ![p] = [uart[p] EXCEPT !.ier = b, !.tx = t]]
      BY Zenon, <3>1 DEF StoreIER, DeviceType
    <3>4. [uart[p] EXCEPT !.ier = b, !.tx = t]
            = [uart[p] EXCEPT !.ier = b, !.dlab = uart[p].dlab, !.tx = t]
      BY Zenon, <1>1 DEF UARTPort
    <3> HIDE DEF t
    <3> QED BY Zenon, BoardAssumption, <1>3, <3>2, <3>3, <3>4
  <2>3. CASE \E b \in BOOLEAN : StoreLCR(p, b)
    <3>1. PICK b \in BOOLEAN : StoreLCR(p, b)
      BY <2>3
    <3>2. uart' = [uart EXCEPT ![p] = [uart[p] EXCEPT !.dlab = b]]
      BY <3>1 DEF StoreLCR, DeviceType
    <3>3. [uart[p] EXCEPT !.dlab = b]
            = [uart[p] EXCEPT !.ier = uart[p].ier, !.dlab = b, !.tx = uart[p].tx]
      BY Zenon, <1>1 DEF UARTPort
    <3> QED BY Zenon, <1>3, <3>2, <3>3
  <2> QED BY Zenon, <2>1, <2>2, <2>3
<1>5. taken' \in [Port -> Nat] /\ UNCHANGED <<chan, typed, plic>>
  BY Zenon DEF StoreTHR, StoreIER, StoreLCR, Stored, DeviceType
<1> QED
  BY Zenon, <1>2, <1>4, <1>5, SetPortType

\* drainUARTInput drops a closed channel.
LEMMA DrainClosedType ==
    ASSUME DeviceType, ControlType, DrainClosed
    PROVE  DeviceType'
<1> DEFINE p == hart.port
           u == [uart[p] EXCEPT !.open = FALSE]
<1>1. p \in Port /\ uart[p] \in UARTPort /\ Len(uart[p].rx) <= RXLimit
  BY DEF DeviceType, ControlType, HartState
<1>2. u \in UARTPort /\ u.rx = uart[p].rx
  BY Zenon, <1>1 DEF UARTPort
<1>3. uart' = [uart EXCEPT ![p] = u]
  BY <1>1 DEF DrainClosed, DeviceType
<1>4. taken' \in [Port -> Nat] /\ UNCHANGED <<chan, typed, plic>>
  BY DEF DrainClosed, DeviceType
<1> HIDE DEF p, u
<1> QED
  BY Zenon, <1>1, <1>2, <1>3, <1>4, SetPortType

\* A load of a UART register.
LEMMA UARTByteType ==
    ASSUME DeviceType, NEW p \in Port, UARTByte(p)
    PROVE  DeviceType'
<1> DEFINE pops == hart.next = "rbr" /\ ~uart[p].dlab /\ uart[p].rx # << >>
           acks == /\ hart.next = "iir" /\ ~uart[p].dlab
                   /\ ~UARTRXInterruptPending(uart[p]) /\ UARTTXInterruptPending(uart[p])
           u == IF pops THEN PopRX(uart[p])
                ELSE IF acks THEN [uart[p] EXCEPT !.tx = FALSE] ELSE uart[p]
<1>1. uart[p] \in UARTPort /\ Len(uart[p].rx) <= RXLimit /\ taken[p] \in Nat
  BY DEF DeviceType
<1>2. uart[p].rx \in Seq(Nat)
  BY <1>1 DEF UARTPort
<1>3. u \in UARTPort /\ Len(u.rx) <= RXLimit
  <2>1. CASE pops
    <3>1. Tail(uart[p].rx) \in Seq(Nat) /\ Len(Tail(uart[p].rx)) <= RXLimit
      BY <1>1, <1>2, <2>1, MoveHead, BoardAssumption
    <3>2. PopRX(uart[p]) \in UARTPort /\ PopRX(uart[p]).rx = Tail(uart[p].rx)
      BY Zenon, <1>1, <3>1 DEF PopRX, UARTPort
    <3> QED BY Zenon, <2>1, <3>1, <3>2
  <2>2. CASE ~pops /\ acks
    BY Zenon, <1>1, <2>2 DEF UARTPort
  <2>3. CASE ~pops /\ ~acks
    BY <1>1, <2>3
  <2> QED BY <2>1, <2>2, <2>3
<1>4. uart' = [uart EXCEPT ![p] = u]
  BY DEF UARTByte
<1>5. taken' \in [Port -> Nat] /\ UNCHANGED <<chan, typed, plic>>
  BY <1>1 DEF UARTByte, DeviceType
<1> HIDE DEF u
<1> QED
  BY Zenon, <1>3, <1>4, <1>5, SetPortType

\* plicPendingForContext returns a source or 0.
LEMMA PlicBestType ==
    ASSUME NEW pl \in PLICState, NEW irqs \in SUBSET Source
    PROVE  PlicBest(pl, irqs) \in Source \cup {0}
<1> DEFINE open == {s \in irqs \cap pl.enable : pl.priority[s] > pl.threshold}
           top(s) == \A r \in open : \/ pl.priority[s] > pl.priority[r]
                                     \/ pl.priority[s] = pl.priority[r] /\ s <= r
<1>1. open \subseteq {1, 10, 11}
  BY Zenon DEF Source, VirtioNetIRQ
<1>2. \A s \in {1, 10, 11} : pl.priority[s] \in Nat
  BY DEF PLICState, Source, VirtioNetIRQ
<1>3. open # {} => \E s \in open : top(s)
  <2> DEFINE f(s) == pl.priority[s]
  <2> HIDE DEF open
  <2>1. (10 \in open => f(10) <= f(1)) /\ (11 \in open => f(11) <= f(1)) => top(1)
    BY <1>1, <1>2
  <2>2. (1 \in open => f(1) < f(10)) /\ (11 \in open => f(11) <= f(10)) => top(10)
    BY <1>1, <1>2
  <2>3. (1 \in open => f(1) < f(11)) /\ (10 \in open => f(10) < f(11)) => top(11)
    BY <1>1, <1>2
  <2>4. f(1) \in Nat /\ f(10) \in Nat /\ f(11) \in Nat
    BY <1>2
  <2>5. open # {} => 1 \in open \/ 10 \in open \/ 11 \in open
    BY Zenon, <1>1
  <2> HIDE DEF top, f
  <2>6. open # {} => \/ 1 \in open /\ top(1)
                     \/ 10 \in open /\ top(10)
                     \/ 11 \in open /\ top(11)
    BY <2>1, <2>2, <2>3, <2>4, <2>5
  <2> QED BY <2>6
<1>4. CASE open = {}
  BY <1>4 DEF PlicBest
<1>5. CASE open # {}
  <2>1. PlicBest(pl, irqs) = CHOOSE s \in open : top(s)
    BY Zenon, <1>5 DEF PlicBest
  <2>2. (CHOOSE s \in open : top(s)) \in open
    <3> HIDE DEF open, top
    <3> QED BY <1>3, <1>5
  <2> QED BY <2>1, <2>2, <1>1 DEF Source, VirtioNetIRQ
<1> QED
  BY <1>4, <1>5

\* The guest's PLIC writes, and a claim.
LEMMA StorePLICType ==
    ASSUME DeviceType, ControlType,
           \/ \E s \in GuestSources, v \in Priorities : StorePriority(s, v)
           \/ \E E \in SUBSET GuestSources : StoreEnable(E)
           \/ \E v \in Priorities : StoreThreshold(v)
           \/ \E s \in GuestSources : PlicComplete(s)
           \/ LoadClaim
           \/ Evaluate
    PROVE  DeviceType'
<1>1. plic \in PLICState
  BY DEF DeviceType
<1>2. UNCHANGED <<uart, chan, typed, taken>>
  BY DEF StorePriority, StoreEnable, StoreThreshold, PlicComplete, LoadClaim, Evaluate,
         Stored, devices
<1>3. plic' \in PLICState
  <2>1. CASE \E s \in GuestSources, v \in Priorities : StorePriority(s, v)
    BY <1>1, <2>1, BoardAssumption DEF StorePriority, PLICState
  <2>2. CASE \E E \in SUBSET GuestSources : StoreEnable(E)
    BY <1>1, <2>2, BoardAssumption DEF StoreEnable, PLICState
  <2>3. CASE \E v \in Priorities : StoreThreshold(v)
    BY <1>1, <2>3, BoardAssumption DEF StoreThreshold, PLICState
  <2>4. CASE \E s \in GuestSources : PlicComplete(s)
    BY <1>1, <2>4, BoardAssumption DEF PlicComplete, PLICState
  <2>5. CASE LoadClaim
    BY <1>1, <2>5 DEF LoadClaim, PLICState, devices
  <2>6. CASE Evaluate
    <3> DEFINE best == PlicBest(plic, hart.irqs \cup VirtioLine)
    <3>1. hart.irqs \cup VirtioLine \in SUBSET Source
      BY DEF ControlType, HartState, VirtioLine, Source
    <3>2. best \in Source \cup {0}
      BY <1>1, <3>1, PlicBestType
    <3>3. \/ plic' = plic
          \/ plic' = [plic EXCEPT !.claimed = best]
      BY <2>6 DEF Evaluate
    <3> HIDE DEF best
    <3> QED BY <1>1, <3>2, <3>3 DEF PLICState
  <2> QED BY <2>1, <2>2, <2>3, <2>4, <2>5, <2>6
<1> QED
  BY <1>2, <1>3 DEF DeviceType

\* Every step keeps the types of the device registers.
LEMMA DeviceStep ==
    ASSUME DeviceType, ControlType, [Next]_vars
    PROVE  DeviceType'
<1>1. CASE \/ StdinByte \/ ConsoleByte
  BY <1>1, DeliverType DEF StdinByte, ConsoleByte, Port
<1>2. CASE StdinEOF
  <2>1. chan' = [chan EXCEPT ![0] = [chan[0] EXCEPT !.closed = TRUE]]
    BY <1>2 DEF StdinEOF, DeviceType, Port
  <2>2. chan[0] \in [q : Seq(Nat), closed : BOOLEAN]
    BY DEF DeviceType, Port
  <2> DEFINE c == [chan[0] EXCEPT !.closed = TRUE]
  <2>3. c \in [q : Seq(Nat), closed : BOOLEAN] /\ c.q = chan[0].q
    BY Zenon, <2>2
  <2> HIDE DEF c
  <2>4. /\ chan' \in [Port -> [q : Seq(Nat), closed : BOOLEAN]]
        /\ \A p \in Port : Len(chan'[p].q) <= RXLimit
    BY Zenon, <2>1, <2>3 DEF DeviceType, c
  <2> QED BY <1>2, <2>4 DEF StdinEOF, DeviceType
<1>3. CASE DrainByte
  BY <1>3, DrainByteType
<1>4. CASE DrainClosed
  BY <1>4, DrainClosedType
<1>5. CASE \E p \in Port : UARTByte(p)
  BY <1>5, UARTByteType
<1>6. CASE \E p \in GuestPorts : \/ StoreTHR(p)
                                 \/ \E b \in IERValues : StoreIER(p, b)
                                 \/ \E b \in BOOLEAN : StoreLCR(p, b)
  BY <1>6, StoreUARTType, BoardAssumption
<1>7. CASE \/ \E s \in GuestSources, v \in Priorities : StorePriority(s, v)
           \/ \E E \in SUBSET GuestSources : StoreEnable(E)
           \/ \E v \in Priorities : StoreThreshold(v)
           \/ \E s \in GuestSources : PlicComplete(s)
           \/ LoadClaim
           \/ Evaluate
  BY <1>7, StorePLICType
<1>8. CASE \/ Refresh \/ Trap \/ LoadPending \/ StoreVirtio \/ WFI \/ ServiceWFI \/ Sleep
           \/ (\E p \in Port : EvaluateUART(p))
           \/ (\E p \in GuestPorts, reg \in {"rbr", "iir", "lsr"} : LoadUART(p, reg))
           \/ (\E b \in BOOLEAN : SetIE(b))
           \/ (\E g \in Injectors : InjectGuestFrame(g))
           \/ (\E g \in Producers : WakeWFI(g))
           \/ UNCHANGED vars
  <2>1. UNCHANGED <<uart, chan, typed, taken, plic>>
    BY Zenon, <1>8 DEF Refresh, Trap, LoadPending, StoreVirtio, WFI, ServiceWFI, Sleep, EvaluateUART,
                LoadUART, SetIE, InjectGuestFrame, WakeWFI, Stored, devices, vars
  <2> QED BY SMTT(30), <2>1 DEF DeviceType
<1> QED
  BY <1>1, <1>2, <1>3, <1>4, <1>5, <1>6, <1>7, <1>8 DEF Next, Hart, Host, Instruction

\* Every step keeps the flags Boolean.
LEMMA FlagStep ==
    ASSUME FlagType, ControlType, [Next]_vars
    PROVE  FlagType'
<1> USE DEF FlagType
<1>1. CASE StdinByte \/ StdinEOF \/ ConsoleByte
  BY <1>1, Zenon DEF StdinByte, StdinEOF, ConsoleByte, Deliver
<1>2. CASE DrainByte
  BY <1>2, Zenon DEF DrainByte
<1>3. CASE DrainClosed
  BY <1>3, Zenon DEF DrainClosed
<1>4. CASE \E p \in Port : UARTByte(p)
  <2>1. PICK p \in Port : UARTByte(p)
    BY <1>4
  <2>2. dirty' \in BOOLEAN /\ UNCHANGED <<vnet, cached, seip, ie, wake>>
    BY <2>1, Zenon DEF UARTByte
  <2> QED BY <2>2, Zenon
<1>5. CASE \E p \in Port : EvaluateUART(p)
  <2>1. PICK p \in Port : EvaluateUART(p)
    BY <1>5
  <2>2. dirty' \in BOOLEAN /\ UNCHANGED <<vnet, cached, seip, ie, wake>>
    BY <2>1, Zenon DEF EvaluateUART, devices
  <2> QED BY <2>2, Zenon
<1>6. CASE Refresh
  BY <1>6, Zenon DEF Refresh, SetPending, devices
<1>7. CASE Evaluate
  <2> DEFINE best == PlicBest(plic, hart.irqs \cup VirtioLine)
  <2>1. (best # 0) \in BOOLEAN
    OBVIOUS
  <2> HIDE DEF best
  <2>2. /\ dirty' = dirty \/ dirty' = TRUE
        /\ (cached' = (best # 0) /\ seip' = (best # 0)) \/ UNCHANGED <<cached, seip>>
        /\ UNCHANGED <<vnet, ie, wake>>
    BY <1>7 DEF Evaluate, SetPending, best
  <2> QED BY <2>1, <2>2, Zenon
<1>8. CASE \/ \E p \in GuestPorts : \/ StoreTHR(p)
                                    \/ \E b \in IERValues : StoreIER(p, b)
                                    \/ \E b \in BOOLEAN : StoreLCR(p, b)
           \/ \E s \in GuestSources, v \in Priorities : StorePriority(s, v)
           \/ \E E \in SUBSET GuestSources : StoreEnable(E)
           \/ \E v \in Priorities : StoreThreshold(v)
           \/ \E s \in GuestSources : PlicComplete(s)
           \/ LoadClaim
  <2>1. (dirty' = TRUE \/ UNCHANGED dirty) /\ UNCHANGED <<vnet, cached, seip, ie, wake>>
    BY ZenonT(60), <1>8 DEF StoreTHR, StoreIER, StoreLCR, StorePriority, StoreEnable, StoreThreshold,
                PlicComplete, LoadClaim, Stored, devices
  <2> QED BY <2>1, Zenon
<1>9. CASE StoreVirtio
  BY <1>9, Zenon DEF StoreVirtio, Stored
<1>10. CASE \/ Trap \/ LoadPending \/ WFI \/ ServiceWFI \/ Sleep
            \/ \E p \in GuestPorts, reg \in {"rbr", "iir", "lsr"} : LoadUART(p, reg)
            \/ \E b \in BOOLEAN : SetIE(b)
  BY <1>10, Zenon DEF Trap, LoadPending, WFI, ServiceWFI, Sleep, LoadUART, SetIE, devices
<1>11. CASE \/ \E g \in Injectors : InjectGuestFrame(g)
            \/ \E g \in Producers : WakeWFI(g)
  BY <1>11, Zenon DEF InjectGuestFrame, WakeWFI, devices
<1>12. CASE UNCHANGED vars
  BY <1>12, Zenon DEF vars, devices
<1> QED
  BY <1>1, <1>2, <1>3, <1>4, <1>5, <1>6, <1>7, <1>8, <1>9, <1>10, <1>11, <1>12
  DEF Next, Hart, Host, Instruction

\* Every step keeps the types of the goroutines' places.
LEMMA ControlStep ==
    ASSUME ControlType, [Next]_vars
    PROVE  ControlType'
<1>1. hart \in HartState /\ Control /\ prod \in [Producers -> {"idle", "mark", "token"}]
  BY DEF ControlType
<1>2. CASE Hart
  <2>1. prod' = prod
    BY Zenon, <1>2 DEF Hart, Refresh, DrainByte, DrainClosed, Evaluate, EvaluateUART, UARTByte, Trap,
                Instruction, ServiceWFI, Sleep, StoreTHR, StoreIER, StoreLCR, LoadUART,
                StorePriority, StoreEnable, StoreThreshold, PlicComplete, LoadClaim,
                LoadPending, StoreVirtio, SetIE, WFI, Stored
  <2>2. hart' \in HartState /\ Control'
    <3>1. CASE hart' = Top
      BY <3>1, ReturnedType DEF Control
    <3>2. CASE Refresh \/ Evaluate
      <4>1. \/ hart' = Top
            \/ hart.next \in {"exec", "wfi", "top"} /\ hart' = Returned(hart.next)
            \/ hart.next \in {"exec", "wfi", "top"} /\ hart' = At("drain", "refresh", hart.next)
        BY <1>1, <3>2 DEF Refresh, Evaluate, SetPending, Control
      <4>2. CASE hart.next \in {"exec", "wfi", "top"} /\ hart' = Returned(hart.next)
        BY <4>2, ReturnedType DEF Control
      <4>3. CASE hart.next \in {"exec", "wfi", "top"} /\ hart' = At("drain", "refresh", hart.next)
        <5>1. hart' \in HartState /\ hart'.next = hart.next
          BY <4>3, AtType, SMTT(30)
        <5> QED BY <4>3, <5>1 DEF Control
      <4> QED BY <3>1, <4>1, <4>2, <4>3
    <3>3. CASE DrainByte \/ DrainClosed
      <4>1. hart' = [hart EXCEPT !.changed = TRUE]
        BY <3>3 DEF DrainByte, DrainClosed
      <4> QED BY Zenon, <1>1, <4>1 DEF HartState, Control
    <3>4. CASE \E p \in Port : EvaluateUART(p)
      <4>1. PICK p \in Port : EvaluateUART(p)
        BY <3>4
      <4>2. hart.irqs \cup UARTLine(p, uart[p]) \in SUBSET Source
        BY <1>1 DEF HartState, UARTLine, UARTIRQ, Source, Port
      <4>3. hart' = [hart EXCEPT !.pc = IF p = 0 THEN "drain" ELSE "virtio", !.port = 1,
                                 !.changed = FALSE, !.irqs = hart.irqs \cup UARTLine(p, uart[p])]
        BY <1>1, <4>1 DEF EvaluateUART, HartState
      <4> QED BY Zenon, <1>1, <4>2, <4>3 DEF HartState, Control, Port
    <3>5. CASE \E p \in GuestPorts, reg \in {"rbr", "iir", "lsr"} : LoadUART(p, reg)
      BY Zenon, <3>5, BoardAssumption DEF LoadUART, At, HartState, Control, Port
    <3>6. CASE \/ LoadClaim /\ hart' = At("drain", "claim", "none")
               \/ LoadPending \/ WFI \/ ServiceWFI \/ Sleep
      <4>1. \/ hart' = Top
            \/ hart' = At("drain", "claim", "none") \/ hart' = At("drain", "bits", "none")
            \/ hart' = At("refresh", "none", "wfi") \/ hart' = At("sleep", "none", "none")
            \/ hart' = At("refresh", "none", "top")
        BY <3>6 DEF LoadPending, WFI, ServiceWFI, Sleep
      <4>2. \/ hart' = Top
            \/ hart' \in HartState /\ hart'.pc # "refresh" /\ hart'.job # "refresh"
            \/ hart' \in HartState /\ hart'.next \in {"wfi", "top"}
        BY <4>1, AtType, SMTT(30)
      <4> QED BY <3>1, <4>2 DEF Control
    <3> QED
      BY Zenon, <1>2, <3>1, <3>2, <3>3, <3>4, <3>5, <3>6
      DEF Hart, UARTByte, Trap, Instruction, StoreTHR, StoreIER, StoreLCR, StorePriority,
          StoreEnable, StoreThreshold, PlicComplete, LoadClaim, StoreVirtio, SetIE, Stored
  <2> QED BY <1>1, <2>1, <2>2 DEF ControlType
<1>3. CASE Host \/ UNCHANGED vars
  <2>1. hart' = hart
    BY Zenon, <1>3 DEF Host, StdinByte, StdinEOF, ConsoleByte, Deliver, InjectGuestFrame, WakeWFI, vars
  <2>2. prod' \in [Producers -> {"idle", "mark", "token"}]
    BY Zenon, <1>1, <1>3 DEF Host, StdinByte, StdinEOF, ConsoleByte, InjectGuestFrame, WakeWFI, vars
  <2> QED BY <1>1, <2>1, <2>2 DEF ControlType, Control
<1> QED
  BY <1>2, <1>3 DEF Next

\* The type invariant and Control are inductive.
LEMMA TypesStep == Types /\ [Next]_vars => Types'
BY DeviceStep, FlagStep, ControlStep DEF Types

\* Registers, buffers, flags and goroutine positions keep their types, and rx and
\* rxCh never exceed uartRXLimit, for every limit and every guest.
THEOREM BoardTypeCorrect == Spec => []TypeOK
<1>1. Spec => []Types
  BY InitType, TypesStep, PTL DEF Spec
<1>2. Types => TypeOK
  BY TypeParts
<1> QED
  BY <1>1, <1>2, PTL

-----------------------------------------------------------------------------
\* drainUARTInput changes where a byte waits, never whether an interrupt is due.
LEMMA DrainKeepsDue ==
    ASSUME Types, DrainByte \/ DrainClosed, NEW p \in Port
    PROVE  DueLine(p, uart'[p], chan'[p]) = DueLine(p, uart[p], chan[p])
<1>1. hart.port \in Port /\ uart \in [Port -> UARTPort]
      /\ chan \in [Port -> [q : Seq(Nat), closed : BOOLEAN]]
  BY DEF Types, DeviceType, ControlType, HartState
<1>2. CASE hart.port # p
  <2>1. uart'[p] = uart[p] /\ chan'[p] = chan[p]
    BY <1>1, <1>2 DEF DrainByte, DrainClosed
  <2> QED BY <2>1
<1>3. CASE DrainByte /\ hart.port = p
  <2>1. /\ uart[p].open /\ chan[p].q # << >> /\ chan[p].q \in Seq(Nat)
        /\ uart[p].rx \in Seq(Nat)
    BY <1>1, <1>3 DEF DrainByte, CanReceive, UARTPort
  <2>2. /\ uart'[p].rx = Append(uart[p].rx, Head(chan[p].q))
        /\ uart'[p].ier = uart[p].ier /\ uart'[p].tx = uart[p].tx
    BY <1>1, <1>3 DEF DrainByte, UARTPort
  <2>3. uart'[p].rx # << >>
    BY Zenon, <2>1, <2>2, MoveHead
  <2> QED BY <2>1, <2>2, <2>3 DEF DueLine, UARTTXInterruptPending
<1>4. CASE DrainClosed /\ hart.port = p
  <2>1. chan[p].q = << >> /\ chan' = chan
    BY <1>4 DEF DrainClosed
  <2>2. /\ uart'[p].ier = uart[p].ier /\ uart'[p].tx = uart[p].tx /\ uart'[p].rx = uart[p].rx
    BY <1>1, <1>4 DEF DrainClosed, UARTPort
  <2> QED BY <2>1, <2>2 DEF DueLine, UARTTXInterruptPending
<1> QED
  BY <1>2, <1>3, <1>4

\* After a drain the line of a port shows all its input: bytes are left in rxCh
\* only when rx is full.
LEMMA DrainedShowsDue ==
    ASSUME Types, NEW p \in Port, Drained(p)
    PROVE  UARTLine(p, uart[p]) = DueLine(p, uart[p], chan[p])
<1>1. uart[p] \in UARTPort
  BY DEF Types, DeviceType
<1>2. uart[p].open /\ chan[p].q # << >> => uart[p].rx # << >>
  <2>1. SUFFICES ASSUME uart[p].open, chan[p].q # << >>, uart[p].rx = << >> PROVE FALSE
    OBVIOUS
  <2>2. Len(uart[p].rx) = 0
    BY <2>1
  <2>3. CanReceive(p)
    BY <2>1, <2>2, BoardAssumption DEF CanReceive
  <2> QED BY <2>1, <2>3 DEF Drained
<1> QED
  BY <1>2 DEF UARTLine, DueLine, UARTRXInterruptPending

\* Steps that touch no line, leave the cache alone and are not part of a refresh.
LEMMA UntouchedKeepsExact ==
    ASSUME CacheIsExact, hart.job # "refresh", hart'.job # "refresh",
           UNCHANGED <<uart, chan, vnet, plic, cached>>,
           Quiet' => Quiet
    PROVE  CacheIsExact' /\ Collected'
<1>1. InterruptDue' = InterruptDue
  BY DEF InterruptDue, DueLines, VirtioLine
<1> HIDE DEF InterruptDue
<1>2. CacheIsExact'
  BY <1>1, Zenon DEF CacheIsExact, Quiet
<1> QED
  BY <1>2 DEF Collected

\* Steps after which the flag is set, or about to be.
LEMMA MarkedKeepsExact ==
    ASSUME ~Quiet',
           hart.job = "refresh" => Collected /\ hart' = hart /\ plic' = plic,
           hart.job # "refresh" => hart'.job # "refresh"
    PROVE  CacheIsExact' /\ Collected'
<1>1. CacheIsExact'
  BY Zenon DEF CacheIsExact, Quiet
<1>2. CASE hart.job = "refresh"
  BY <1>1, <1>2 DEF Collected
<1>3. CASE hart.job # "refresh"
  BY <1>1, <1>3 DEF Collected
<1> QED
  BY <1>2, <1>3

\* What the host goroutines do keeps the cache exact: whoever changes a line is
\* about to mark the flag.
LEMMA HostKeepsExact ==
    ASSUME ~ConsoleSocket, Types, CacheIsExact, Collected, Host
    PROVE  CacheIsExact' /\ Collected'
<1>1. prod \in [Producers -> {"idle", "mark", "token"}]
  BY DEF Types, ControlType
<1>2. hart' = hart /\ plic' = plic
  BY Zenon DEF Host, StdinByte, StdinEOF, ConsoleByte, Deliver, InjectGuestFrame, WakeWFI, devices
<1>3. CASE StdinByte \/ StdinEOF \/ \E g \in Injectors : InjectGuestFrame(g)
  <2>1. \E g \in Producers : prod'[g] = "mark"
    BY Zenon, <1>1, <1>3 DEF StdinByte, StdinEOF, InjectGuestFrame, Producers
  <2>2. ~Quiet'
    BY <2>1 DEF Quiet
  <2> QED BY <1>2, <2>2, MarkedKeepsExact
<1>4. ASSUME NEW g \in Producers, WakeWFI(g) PROVE CacheIsExact' /\ Collected'
  <2>1. CASE dirty' = TRUE
    <3>1. ~Quiet'
      BY <2>1, Zenon DEF Quiet
    <3> QED BY <1>2, <3>1, MarkedKeepsExact
  <2>2. CASE ~(dirty' = TRUE)
    <3>1. /\ prod[g] = "token" /\ prod' = [prod EXCEPT ![g] = "idle"]
          /\ UNCHANGED <<uart, chan, vnet, plic, cached, dirty>>
      BY <1>4, <2>2 DEF WakeWFI, devices
    <3>2. (\A h \in Producers : prod'[h] # "mark") => \A h \in Producers : prod[h] # "mark"
      BY <1>1, <3>1
    <3>3. Quiet' => Quiet
      BY <3>1, <3>2, Zenon DEF Quiet
    <3>4. CASE hart.job # "refresh"
      BY <1>2, <3>1, <3>3, <3>4, UntouchedKeepsExact
    <3>5. CASE hart.job = "refresh"
      <4>1. CacheIsExact'
        BY <1>2, <3>5 DEF CacheIsExact
      <4>2. Collected'
        BY <1>2, <3>1, <3>3, <3>5 DEF Collected
      <4> QED BY <4>1, <4>2
    <3> QED BY <3>4, <3>5
  <2> QED BY Zenon, <2>1, <2>2
<1> QED
  BY <1>3, <1>4 DEF Host, ConsoleByte

\* The evaluation of the PLIC reads the lines one by one; if nobody marks the
\* flag meanwhile, the result is exact when it is stored.
LEMMA EvaluationKeepsExact ==
    ASSUME Types, CacheIsExact, Collected,
           \/ Refresh \/ DrainByte \/ DrainClosed \/ Evaluate
           \/ \E p \in Port : EvaluateUART(p)
    PROVE  CacheIsExact' /\ Collected'
<1>1. hart \in HartState /\ Control
  BY DEF Types, ControlType
<1>2. CASE Refresh
  <2>1. hart.job # "refresh" /\ UNCHANGED <<uart, chan, vnet, plic, prod>>
    BY <1>2 DEF Refresh, Collected, devices
  <2>2. hart.next \in {"exec", "wfi", "top"}
    BY <1>1, <1>2 DEF Refresh, Control
  <2>3. CASE ~dirty /\ SetPending(cached, hart.next)
    <3>1. cached' = cached /\ hart'.job = "none"
      BY <2>2, <2>3, ReturnedType DEF SetPending
    <3>2. Quiet' => Quiet
      BY <2>1, <2>3, Zenon DEF Quiet
    <3> QED BY <2>1, <3>1, <3>2, UntouchedKeepsExact
  <2>4. CASE plic.claimed # 0 /\ SetPending(FALSE, hart.next)
    <3>1. cached' = FALSE /\ hart'.job = "none"
      BY <2>2, <2>4, ReturnedType DEF SetPending
    <3>2. InterruptDue' = FALSE
      BY <2>1, <2>4 DEF InterruptDue
    <3>3. CacheIsExact'
      BY <3>1, <3>2, Zenon DEF CacheIsExact
    <3> QED BY <3>1, <3>3 DEF Collected
  <2>5. CASE plic.claimed = 0 /\ hart' = At("drain", "refresh", hart.next)
    <3>1. hart'.job = "refresh" /\ hart'.pc = "drain" /\ hart'.port = 0 /\ hart'.irqs = {}
      BY <2>5 DEF At
    <3>2. plic'.claimed = 0
      BY <2>1, <2>5
    <3> QED BY <3>1, <3>2 DEF CacheIsExact, Collected
  <2> QED BY Zenon, <1>2, <2>3, <2>4, <2>5 DEF Refresh
<1>3. CASE DrainByte \/ DrainClosed
  <2>1. /\ hart' = [hart EXCEPT !.changed = TRUE]
        /\ UNCHANGED <<vnet, plic, dirty, cached, prod>>
    BY <1>3 DEF DrainByte, DrainClosed
  <2>2. /\ hart'.job = hart.job /\ hart'.pc = hart.pc /\ hart'.port = hart.port
        /\ hart'.irqs = hart.irqs
    BY <1>1, <2>1 DEF HartState
  <2>3. /\ DueLine(0, uart'[0], chan'[0]) = DueLine(0, uart[0], chan[0])
        /\ DueLine(1, uart'[1], chan'[1]) = DueLine(1, uart[1], chan[1])
    BY <1>3, DrainKeepsDue DEF Port
  <2>4. Quiet' => Quiet
    BY <2>1, Zenon DEF Quiet
  <2>5. InterruptDue' = InterruptDue
    BY SMTT(30), <2>1, <2>3 DEF InterruptDue, DueLines, VirtioLine
  <2>6. CacheIsExact'
    BY <2>1, <2>2, <2>5, Zenon DEF CacheIsExact
  <2>7. Collected'
    BY <2>1, <2>2, <2>3, <2>4 DEF Collected
  <2> QED BY <2>6, <2>7
<1>4. ASSUME NEW p \in Port, EvaluateUART(p) PROVE CacheIsExact' /\ Collected'
  <2>1. /\ UNCHANGED <<uart, chan, vnet, plic, cached, prod>>
        /\ hart.pc = "drain" /\ hart.port = p /\ dirty' = (dirty \/ hart.changed)
    BY ZenonT(60), <1>4 DEF EvaluateUART, Drained, devices
  <2>2. /\ hart'.job = hart.job /\ hart'.port = 1
        /\ hart'.pc = IF p = 0 THEN "drain" ELSE "virtio"
        /\ hart'.irqs = hart.irqs \cup UARTLine(p, uart[p])
    BY Zenon, <1>1, <1>4 DEF EvaluateUART, HartState
  <2>3. Quiet' => Quiet
    BY <2>1, Zenon DEF Quiet
  <2>4. CASE hart.job # "refresh"
    BY <2>1, <2>2, <2>3, <2>4, UntouchedKeepsExact
  <2>5. CASE hart.job = "refresh"
    <3>1. UARTLine(p, uart[p]) = DueLine(p, uart[p], chan[p])
      BY Zenon, <1>4, DrainedShowsDue DEF EvaluateUART
    <3>2. CASE p = 0
      BY <2>1, <2>2, <2>5, <3>1, <3>2 DEF Collected, CacheIsExact
    <3>3. CASE p = 1
      BY <2>1, <2>2, <2>3, <2>5, <3>1, <3>3 DEF Collected, CacheIsExact
    <3> QED BY SMTT(30), <3>2, <3>3 DEF Port
  <2> QED BY <2>4, <2>5
<1>5. CASE Evaluate
  <2>1. UNCHANGED <<uart, chan, vnet, prod>> /\ hart.pc = "virtio"
    BY <1>5 DEF Evaluate
  <2>2. CASE hart.job = "refresh"
    <3>1. /\ UNCHANGED <<plic, dirty>> /\ plic.claimed = 0
          /\ SetPending(PlicBest(plic, hart.irqs \cup VirtioLine) # 0, hart.next)
      BY <1>5, <2>2 DEF Evaluate, Collected
    <3>2. /\ cached' = (PlicBest(plic, hart.irqs \cup VirtioLine) # 0)
          /\ hart'.job = "none"
      BY <1>1, <2>2, <3>1, ReturnedType DEF SetPending, Control
    <3>3. Quiet' => cached' = InterruptDue'
      <4>1. Quiet' => Quiet
        BY <2>1, <3>1, Zenon DEF Quiet
      <4>2. Quiet => hart.irqs \cup VirtioLine = DueLines
        BY <2>1, <2>2 DEF Collected, DueLines
      <4>3. InterruptDue' = (PlicBest(plic, DueLines) # 0)
        BY <2>1, <3>1 DEF InterruptDue, DueLines, VirtioLine
      <4> QED BY <3>2, <4>1, <4>2, <4>3
    <3>4. CacheIsExact'
      BY <3>3, Zenon DEF CacheIsExact, Quiet
    <3> QED BY <3>2, <3>4 DEF Collected
  <2>3. CASE hart.job # "refresh"
    <3>1. hart'.job # "refresh" /\ UNCHANGED cached
      BY <1>5, <2>3, ReturnedType DEF Evaluate
    <3>2. CASE dirty' = TRUE
      <4>1. ~Quiet'
        BY <3>2, Zenon DEF Quiet
      <4> QED BY <2>3, <3>1, <4>1, MarkedKeepsExact
    <3>3. CASE UNCHANGED <<plic, dirty>>
      <4>1. Quiet' => Quiet
        BY <2>1, <3>3, Zenon DEF Quiet
      <4> QED BY <2>1, <2>3, <3>1, <3>3, <4>1, UntouchedKeepsExact
    <3> QED BY Zenon, <1>5, <2>3, <3>2, <3>3 DEF Evaluate
  <2> QED BY <2>2, <2>3
<1> QED
  BY <1>2, <1>3, <1>4, <1>5

\* Instructions that change a register mark the flag; the others change none.
LEMMA InstructionKeepsExact ==
    ASSUME Types, CacheIsExact, Collected,
           Trap \/ Instruction \/ ServiceWFI \/ Sleep \/ \E p \in Port : UARTByte(p)
    PROVE  CacheIsExact' /\ Collected'
<1>1. hart.job # "refresh"
  BY Zenon DEF Trap, Instruction, ServiceWFI, Sleep, UARTByte, Drained, StoreTHR, StoreIER, StoreLCR,
         LoadUART, StorePriority, StoreEnable, StoreThreshold, PlicComplete, LoadClaim,
         LoadPending, StoreVirtio, SetIE, WFI, Executes, Collected
<1>2. Top.job = "none"
  BY DEF Top, At
<1>3. ASSUME dirty' = TRUE, hart' = Top PROVE CacheIsExact' /\ Collected'
  <2>1. ~Quiet'
    BY <1>3, Zenon DEF Quiet
  <2> QED BY <1>1, <1>2, <1>3, <2>1, MarkedKeepsExact
<1>4. ASSUME UNCHANGED <<uart, chan, vnet, plic, cached, dirty, prod>>, hart'.job # "refresh"
      PROVE  CacheIsExact' /\ Collected'
  <2>1. Quiet' => Quiet
    BY <1>4, Zenon DEF Quiet
  <2> QED BY <1>1, <1>4, <2>1, UntouchedKeepsExact
<1>5. CASE Trap \/ Instruction \/ ServiceWFI \/ Sleep
  <2>1. CASE \/ Trap \/ ServiceWFI \/ Sleep \/ LoadPending \/ WFI
             \/ \E b \in BOOLEAN : SetIE(b)
             \/ \E p \in GuestPorts, reg \in {"rbr", "iir", "lsr"} : LoadUART(p, reg)
    <3>1. UNCHANGED <<uart, chan, vnet, plic, cached, dirty, prod>>
      BY <2>1 DEF Trap, ServiceWFI, Sleep, LoadPending, WFI, SetIE, LoadUART, devices
    <3>2. hart'.job # "refresh"
      BY <1>2, <2>1 DEF Trap, ServiceWFI, Sleep, LoadPending, WFI, SetIE, LoadUART, At
    <3> QED BY <1>4, <3>1, <3>2
  <2>2. CASE LoadClaim
    <3>1. CASE Stored
      BY <1>3, <3>1 DEF Stored
    <3>2. CASE ~Stored
      <4>1. /\ UNCHANGED <<uart, chan, vnet, plic, cached, dirty, prod>>
            /\ hart' = At("drain", "claim", "none")
        BY <2>2, <3>2 DEF LoadClaim, devices
      <4>2. hart'.job = "claim"
        BY <4>1 DEF At
      <4> QED BY <1>4, <4>1, <4>2
    <3> QED BY <3>1, <3>2
  <2>3. CASE Stored
    BY <1>3, <2>3 DEF Stored
  <2> QED
    BY Zenon, <1>5, <2>1, <2>2, <2>3
    DEF Instruction, StoreTHR, StoreIER, StoreLCR, StorePriority, StoreEnable, StoreThreshold,
        PlicComplete, StoreVirtio
<1>6. ASSUME NEW p \in Port, UARTByte(p) PROVE CacheIsExact' /\ Collected'
  <2>1. hart' = Top /\ UNCHANGED <<chan, vnet, plic, cached, prod>>
    BY <1>6 DEF UARTByte
  <2>2. CASE dirty' = TRUE
    BY <1>3, <2>1, <2>2
  <2>3. CASE ~(dirty' = TRUE)
    <3>1. ~dirty /\ ~dirty' /\ uart' = [uart EXCEPT ![p] = uart[p]]
      BY <1>6, <2>3, Zenon DEF UARTByte, Types, FlagType
    <3>2. dirty' = dirty
      BY <1>6, <2>3, <3>1, Zenon DEF Types, FlagType, UARTByte
    <3>3. uart' = uart
      BY <3>1 DEF Types, DeviceType
    <3> QED BY <1>2, <1>4, <2>1, <3>2, <3>3
  <2> QED BY Zenon, <2>2, <2>3
<1> QED
  BY <1>5, <1>6

ExactInv == Types /\ CacheIsExact /\ Collected

\* At the start the flag is set.
LEMMA ExactInit == Init => ExactInv
<1> SUFFICES ASSUME Init PROVE ExactInv
  OBVIOUS
<1>1. Types
  BY InitType
<1>2. dirty = TRUE /\ hart.job # "refresh"
  BY DEF Init, Top, At
<1> QED BY <1>1, <1>2 DEF ExactInv, CacheIsExact, Collected

\* Every step keeps the cache exact and an evaluation up to date.
LEMMA ExactStep ==
    ASSUME ~ConsoleSocket, ExactInv, [Next]_vars
    PROVE  ExactInv'
<1> USE DEF ExactInv
<1>1. Types'
  BY TypesStep
<1>2. CacheIsExact' /\ Collected'
  <2>1. CASE Host
    BY <2>1, HostKeepsExact
  <2>2. CASE Hart
    BY <2>2, EvaluationKeepsExact, InstructionKeepsExact DEF Hart
  <2>3. CASE UNCHANGED vars
    <3>1. UNCHANGED <<uart, chan, vnet, plic, cached, dirty, prod, hart>>
      BY <2>3 DEF vars, devices
    <3>2. InterruptDue' = InterruptDue
      BY <3>1 DEF InterruptDue, DueLines, VirtioLine
    <3>3. CacheIsExact'
      BY <3>1, <3>2, Zenon DEF CacheIsExact
    <3>4. Quiet' => Quiet
      BY <3>1, Zenon DEF Quiet
    <3> QED BY <3>1, <3>3, <3>4 DEF Collected
  <2> QED BY <2>1, <2>2, <2>3 DEF Next
<1> QED BY <1>1, <1>2

\* With every source of input calling wakeWFI, the cached answer of
\* SupervisorExternalInterruptPending is exact whenever externalInterruptDirty is
\* clear and no goroutine is about to set it.
THEOREM CacheAlwaysExact == ~ConsoleSocket => (Spec => []CacheIsExact)
<1> SUFFICES ASSUME ~ConsoleSocket PROVE Spec => []CacheIsExact
  OBVIOUS
<1>1. ExactInv /\ [Next]_vars => ExactInv'
  BY ExactStep
<1>2. ExactInv => CacheIsExact
  BY DEF ExactInv
<1> QED
  BY ExactInit, <1>1, <1>2, PTL DEF Spec

-----------------------------------------------------------------------------
(* A hart asleep in WFI.  The flag does not tell whether the answer it fell *)
(* asleep with is still good: a drain may have set it.  The channel wfiWake *)
(* does: until somebody has put a token there, nothing has changed.         *)

Calm == Net /\ ~wake /\ \A g \in Producers : prod[g] = "idle"

CalmCollected ==
    hart.job = "refresh" /\ Calm =>
      /\ hart.pc = "drain" /\ hart.port = 1 => hart.irqs = DueLine(0, uart[0], chan[0])
      /\ hart.pc = "virtio"
           => hart.irqs = DueLine(0, uart[0], chan[0]) \cup DueLine(1, uart[1], chan[1])

Dozing == hart.pc \in {"wfi", "sleep"} /\ Calm => seip = InterruptDue

\* Whoever brings input has a token to give, or has just given it.
LEMMA HostWakes ==
    ASSUME ~ConsoleSocket, Types, Host
    PROVE  ~Calm'
<1>1. prod \in [Producers -> {"idle", "mark", "token"}]
  BY DEF Types, ControlType
<1>2. CASE StdinByte \/ StdinEOF \/ \E g \in Injectors : InjectGuestFrame(g)
  <2>1. \E g \in Producers : prod'[g] = "mark"
    BY Zenon, <1>1, <1>2 DEF StdinByte, StdinEOF, InjectGuestFrame, Producers
  <2> QED BY <2>1 DEF Calm
<1>3. ASSUME NEW g \in Producers, WakeWFI(g) PROVE ~Calm'
  <2>1. CASE prod[g] = "mark"
    <3>1. Net => prod'[g] = "token"
      BY <1>1, <1>3, <2>1 DEF WakeWFI
    <3> QED BY Zenon, <3>1 DEF Calm
  <2>2. CASE prod[g] = "token"
    <3>1. wake' = TRUE
      BY <1>3, <2>2 DEF WakeWFI
    <3> QED BY Zenon, <3>1 DEF Calm
  <2> QED BY <1>3, <2>1, <2>2 DEF WakeWFI
<1> QED
  BY <1>2, <1>3 DEF Host, ConsoleByte

\* Outside a refresh and out of WFI there is nothing to keep.
LEMMA AwakeKeeps ==
    ASSUME hart'.job # "refresh", hart'.pc \notin {"wfi", "sleep"}
    PROVE  CalmCollected' /\ Dozing'
BY DEF CalmCollected, Dozing

\* The refresh before a sleep ends with the right answer, unless a token waits.
LEMMA RefreshKeepsDozing ==
    ASSUME Types, CacheIsExact, Collected, CalmCollected, Refresh \/ Evaluate
    PROVE  CalmCollected' /\ Dozing'
<1>1. hart \in HartState /\ Control
  BY DEF Types, ControlType
<1>2. UNCHANGED <<uart, chan, vnet, wake, prod>>
  BY Zenon DEF Refresh, Evaluate, devices
<1>3. Calm' => Calm
  BY Zenon, <1>2 DEF Calm
<1>4. ASSUME hart.next \in {"exec", "wfi", "top"}, hart' = Returned(hart.next),
             Calm => seip' = InterruptDue'
      PROVE  CalmCollected' /\ Dozing'
  <2>1. hart'.job = "none"
    BY <1>4, ReturnedType
  <2> QED BY Zenon, <1>3, <1>4, <2>1 DEF CalmCollected, Dozing
<1>5. ASSUME hart' = Top PROVE CalmCollected' /\ Dozing'
  BY <1>5, ReturnedType, AwakeKeeps
<1>6. CASE Refresh
  <2>1. hart.job # "refresh" /\ plic' = plic /\ hart.next \in {"exec", "wfi", "top"}
    BY <1>1, <1>6 DEF Refresh, Collected, Control, devices
  <2>2. InterruptDue' = InterruptDue
    BY <1>2, <2>1 DEF InterruptDue, DueLines, VirtioLine
  <2>3. CASE ~dirty /\ SetPending(cached, hart.next)
    <3>1. Calm => cached = InterruptDue
      <4>1. Calm => \A g \in Producers : prod[g] # "mark"
        BY DEF Calm
      <4> QED BY Zenon, <2>1, <2>3, <4>1 DEF CacheIsExact
    <3>2. hart' = Returned(hart.next) /\ seip' = cached
      BY <2>3 DEF SetPending
    <3> QED BY Zenon, <1>4, <2>1, <2>2, <3>1, <3>2
  <2>4. CASE plic.claimed # 0 /\ SetPending(FALSE, hart.next)
    <3>1. hart' = Returned(hart.next) /\ seip' = FALSE
      BY <2>4 DEF SetPending
    <3>2. InterruptDue = FALSE
      BY <2>4 DEF InterruptDue
    <3> QED BY Zenon, <1>4, <2>1, <2>2, <3>1, <3>2
  <2>5. CASE plic.claimed = 0 /\ hart' = At("drain", "refresh", hart.next)
    <3>1. hart'.pc = "drain" /\ hart'.port = 0
      BY <2>5 DEF At
    <3> QED BY <3>1 DEF CalmCollected, Dozing
  <2> QED BY Zenon, <1>6, <2>3, <2>4, <2>5 DEF Refresh
<1>7. CASE Evaluate
  <2>1. hart.pc = "virtio"
    BY <1>7 DEF Evaluate
  <2>2. CASE hart.job = "refresh"
    <3>1. /\ plic' = plic /\ plic.claimed = 0
          /\ SetPending(PlicBest(plic, hart.irqs \cup VirtioLine) # 0, hart.next)
      BY <1>7, <2>2 DEF Evaluate, Collected
    <3>2. /\ seip' = (PlicBest(plic, hart.irqs \cup VirtioLine) # 0)
          /\ hart' = Returned(hart.next) /\ hart.next \in {"exec", "wfi", "top"}
      BY <1>1, <2>2, <3>1 DEF SetPending, Control
    <3>3. Calm => hart.irqs \cup VirtioLine = DueLines
      BY <2>1, <2>2 DEF CalmCollected, DueLines
    <3>4. InterruptDue' = (PlicBest(plic, DueLines) # 0)
      BY <1>2, <3>1 DEF InterruptDue, DueLines, VirtioLine
    <3> QED BY Zenon, <1>4, <3>2, <3>3, <3>4
  <2>3. CASE hart.job # "refresh"
    <3>1. hart' = Top
      BY <1>7, <2>3 DEF Evaluate
    <3> QED BY <1>5, <3>1
  <2> QED BY <2>2, <2>3
<1> QED
  BY <1>6, <1>7

\* What a refresh has collected stays right while it drains the next port.
LEMMA DrainKeepsDozing ==
    ASSUME Types, Collected, CalmCollected, Dozing,
           DrainByte \/ DrainClosed \/ \E p \in Port : EvaluateUART(p)
    PROVE  CalmCollected' /\ Dozing'
<1>1. hart \in HartState
  BY DEF Types, ControlType
<1>2. CASE DrainByte \/ DrainClosed
  <2>1. hart' = [hart EXCEPT !.changed = TRUE] /\ UNCHANGED <<wake, prod>> /\ hart.pc = "drain"
    BY <1>2 DEF DrainByte, DrainClosed
  <2>2. /\ hart'.job = hart.job /\ hart'.pc = hart.pc /\ hart'.port = hart.port
        /\ hart'.irqs = hart.irqs
    BY <1>1, <2>1 DEF HartState
  <2>3. /\ DueLine(0, uart'[0], chan'[0]) = DueLine(0, uart[0], chan[0])
        /\ DueLine(1, uart'[1], chan'[1]) = DueLine(1, uart[1], chan[1])
    BY <1>2, DrainKeepsDue DEF Port
  <2>4. Calm' => Calm
    BY Zenon, <2>1 DEF Calm
  <2> QED BY <2>1, <2>2, <2>3, <2>4 DEF CalmCollected, Dozing
<1>3. ASSUME NEW p \in Port, EvaluateUART(p) PROVE CalmCollected' /\ Dozing'
  <2>1. /\ UNCHANGED <<uart, chan, wake, prod>> /\ hart.pc = "drain" /\ hart.port = p
    BY ZenonT(60), <1>3 DEF EvaluateUART, Drained, devices
  <2>2. /\ hart'.job = hart.job /\ hart'.port = 1
        /\ hart'.pc = IF p = 0 THEN "drain" ELSE "virtio"
        /\ hart'.irqs = hart.irqs \cup UARTLine(p, uart[p])
    BY Zenon, <1>1, <1>3 DEF EvaluateUART, HartState
  <2>3. UARTLine(p, uart[p]) = DueLine(p, uart[p], chan[p])
    BY Zenon, <1>3, DrainedShowsDue DEF EvaluateUART
  <2>4. Calm' => Calm
    BY Zenon, <2>1 DEF Calm
  <2>5. p = 0 \/ p = 1
    BY DEF Port
  <2> QED BY <2>1, <2>2, <2>3, <2>4, <2>5 DEF Collected, CalmCollected, Dozing
<1> QED
  BY <1>2, <1>3

\* Instructions, and the sleep itself.
LEMMA InstructionKeepsDozing ==
    ASSUME Types, Dozing,
           Trap \/ Instruction \/ ServiceWFI \/ Sleep \/ \E p \in Port : UARTByte(p)
    PROVE  CalmCollected' /\ Dozing'
<1>1. Top.job = "none" /\ Top.pc = "refresh"
  BY DEF Top, At
<1>2. CASE hart' = Top
  BY <1>1, <1>2, AwakeKeeps
<1>3. CASE ServiceWFI /\ hart' # Top
  <2>1. /\ hart.pc = "wfi" /\ hart' = At("sleep", "none", "none")
        /\ UNCHANGED <<uart, chan, vnet, plic, seip, wake, prod>>
    BY <1>3 DEF ServiceWFI, devices
  <2>2. hart'.job = "none"
    BY <2>1 DEF At
  <2>3. InterruptDue' = InterruptDue
    BY <2>1 DEF InterruptDue, DueLines, VirtioLine
  <2>4. Calm' => Calm
    BY Zenon, <2>1 DEF Calm
  <2> QED BY Zenon, <2>1, <2>2, <2>3, <2>4 DEF CalmCollected, Dozing
<1>4. CASE \/ Sleep \/ LoadPending \/ WFI \/ (LoadClaim /\ hart' # Top)
           \/ \E p \in GuestPorts, reg \in {"rbr", "iir", "lsr"} : LoadUART(p, reg)
  <2>1. hart'.job # "refresh" /\ hart'.pc \notin {"wfi", "sleep"}
    BY <1>4 DEF Sleep, LoadPending, WFI, LoadClaim, Stored, LoadUART, At
  <2> QED BY <2>1, AwakeKeeps
<1> QED
  BY Zenon, <1>2, <1>3, <1>4
  DEF Trap, Instruction, UARTByte, StoreTHR, StoreIER, StoreLCR, StorePriority, StoreEnable,
      StoreThreshold, PlicComplete, StoreVirtio, SetIE, Stored

\* The hart never sleeps in WFI through an interrupt: if one is due that it fell
\* asleep without, a token is in wfiWake or a goroutine is about to put one there.
\* It holds for every guest and any number of goroutines that call wakeWFI.
THEOREM SleeperAlwaysWoken == ~ConsoleSocket => (Spec => []SleeperIsWoken)
<1> SUFFICES ASSUME ~ConsoleSocket PROVE Spec => []SleeperIsWoken
  OBVIOUS
<1> DEFINE Inv == ExactInv /\ CalmCollected /\ Dozing
<1>1. Init => Inv
  <2>1. Init => hart.job # "refresh" /\ hart.pc = "refresh"
    BY DEF Init, Top, At
  <2> QED BY <2>1, ExactInit DEF CalmCollected, Dozing
<1>2. Inv /\ [Next]_vars => Inv'
  <2> SUFFICES ASSUME Inv, [Next]_vars PROVE Inv'
    OBVIOUS
  <2>1. ExactInv'
    BY ExactStep
  <2>2. Types /\ CacheIsExact /\ Collected
    BY DEF ExactInv
  <2>3. CalmCollected' /\ Dozing'
    <3>1. CASE Host
      <4>1. ~Calm'
        BY <2>2, <3>1, HostWakes
      <4> QED BY <4>1 DEF CalmCollected, Dozing
    <3>2. CASE Hart
      BY <2>2, <3>2, RefreshKeepsDozing, DrainKeepsDozing, InstructionKeepsDozing DEF Hart
    <3>3. CASE UNCHANGED vars
      <4>1. UNCHANGED <<uart, chan, vnet, plic, seip, wake, prod, hart>>
        BY <3>3 DEF vars, devices
      <4>2. InterruptDue' = InterruptDue
        BY <4>1 DEF InterruptDue, DueLines, VirtioLine
      <4>3. Calm' => Calm
        BY Zenon, <4>1 DEF Calm
      <4> QED BY Zenon, <4>1, <4>2, <4>3 DEF CalmCollected, Dozing
    <3> QED BY <3>1, <3>2, <3>3 DEF Next
  <2> QED BY <2>1, <2>3
<1>3. Inv => SleeperIsWoken
  BY Zenon DEF Dozing, Calm, SleeperIsWoken
<1> QED
  BY <1>1, <1>2, <1>3, PTL DEF Spec

-----------------------------------------------------------------------------
(* Console input. *)

\* What one port's buffers hold: rx, then rxCh, after the host has typed n bytes
\* and the guest has taken m.
InOrder(rx, q, n, m) ==
    /\ Len(rx) + Len(q) = n - m
    /\ \A i \in 1..Len(rx) : rx[i] = m + i
    /\ \A i \in 1..Len(q) : q[i] = m + Len(rx) + i

\* A port without a channel gets no more input.
Silent(p) == chan[p].q = << >> /\ (chan[p].closed \/ (p = 1 /\ ~ConsoleSocket))

PortInOrder(p) ==
    /\ InOrder(uart[p].rx, chan[p].q, typed[p], taken[p])
    /\ ~uart[p].open => Silent(p)

BytesInv == \A p \in Port : PortInOrder(p)

\* Bytes in order, as one sequence.
LEMMA OneSequence ==
    ASSUME NEW rx \in Seq(Nat), NEW q \in Seq(Nat), NEW n \in Nat, NEW m \in Nat,
           InOrder(rx, q, n, m)
    PROVE  rx \o q = [i \in 1..(n - m) |-> m + i]
<1> DEFINE s == rx \o q
           f == [i \in 1..(n - m) |-> m + i]
<1>1. s \in Seq(Nat) /\ Len(s) = Len(rx) + Len(q) /\ Len(rx) \in Nat /\ Len(q) \in Nat
  OBVIOUS
<1>2. Len(rx) + Len(q) = n - m
  BY DEF InOrder
<1>3. s = [i \in 1..(n - m) |-> s[i]]
  <2> HIDE DEF s
  <2>1. s = [i \in 1..Len(s) |-> s[i]]
    BY <1>1
  <2> QED BY <1>1, <1>2, <2>1
<1>4. ASSUME NEW i \in 1..(n - m) PROVE s[i] = m + i
  <2>1. CASE i <= Len(rx)
    <3>1. i \in 1..Len(rx)
      BY <1>1, <2>1
    <3>2. s[i] = rx[i]
      BY <3>1
    <3>3. rx[i] = m + i
      BY <3>1 DEF InOrder
    <3> QED BY Zenon, <3>2, <3>3
  <2>2. CASE ~ (i <= Len(rx))
    <3> DEFINE k == i - Len(rx)
    <3>1. k \in 1..Len(q) /\ m + Len(rx) + k = m + i
      BY <1>1, <1>2, <2>2
    <3>2. s[i] = q[k]
      BY <1>1, <1>2, <2>2
    <3> HIDE DEF k, s
    <3>3. q[k] = m + Len(rx) + k
      BY <3>1 DEF InOrder
    <3> QED BY <3>1, <3>2, <3>3
  <2> QED BY Zenon, <2>1, <2>2
<1> HIDE DEF s
<1>5. s = f
  BY <1>3, <1>4
<1> QED
  BY <1>5 DEF s

\* InOrder, from its parts.
LEMMA MakeOrder ==
    ASSUME NEW rx \in Seq(Nat), NEW q \in Seq(Nat), NEW n, NEW m, NEW a \in Nat, NEW b \in Nat,
           a = Len(rx), b = Len(q), a + b = n - m,
           \A i \in 1..a : rx[i] = m + i,
           \A i \in 1..b : q[i] = m + a + i
    PROVE  InOrder(rx, q, n, m)
BY Zenon DEF InOrder

\* A byte arrives, moves from rxCh to rx, and is read.
LEMMA OrderKept ==
    ASSUME NEW rx \in Seq(Nat), NEW q \in Seq(Nat), NEW n \in Nat, NEW m \in Nat,
           InOrder(rx, q, n, m)
    PROVE  /\ InOrder(rx, Append(q, n + 1), n + 1, m)
           /\ q # << >> => InOrder(Append(rx, Head(q)), Tail(q), n, m)
           /\ rx # << >> => InOrder(Tail(rx), q, n, m + 1)
<1> DEFINE a == Len(rx)
           b == Len(q)
<1>1. a \in Nat /\ b \in Nat /\ a + b = n - m
  BY DEF InOrder
<1>2. (\A i \in 1..a : rx[i] = m + i) /\ (\A i \in 1..b : q[i] = m + a + i)
  BY DEF InOrder
<1>3. InOrder(rx, Append(q, n + 1), n + 1, m)
  <2> DEFINE r == Append(q, n + 1)
  <2>1. r \in Seq(Nat) /\ Len(r) = b + 1
    OBVIOUS
  <2>2. ASSUME NEW i \in 1..(b + 1) PROVE r[i] = m + a + i
    <3>1. CASE i = b + 1
      <4>1. r[i] = n + 1
        BY <3>1
      <4> HIDE DEF a, b, r
      <4> QED BY <1>1, <3>1, <4>1
    <3>2. CASE i # b + 1
      <4>1. i \in 1..b
        BY <1>1, <3>2
      <4>2. r[i] = q[i]
        BY <4>1
      <4> QED BY Zenon, <1>2, <4>1, <4>2
    <3> QED BY Zenon, <3>1, <3>2
  <2>3. b + 1 \in Nat /\ a + (b + 1) = (n + 1) - m
    <3> HIDE DEF a, b
    <3> QED BY <1>1
  <2> HIDE DEF r, b
  <2>4. InOrder(rx, r, n + 1, m)
    BY Zenon, <1>1, <1>2, <2>1, <2>2, <2>3, MakeOrder
  <2> QED BY <2>4 DEF r
<1>4. ASSUME q # << >> PROVE InOrder(Append(rx, Head(q)), Tail(q), n, m)
  <2> DEFINE r == Append(rx, Head(q))
             t == Tail(q)
  <2>1. b > 0 /\ Head(q) = q[1] /\ Head(q) \in Nat
    BY <1>4
  <2>2. Head(q) = m + a + 1
    <3>1. 1 \in 1..b
      BY <1>1, <2>1
    <3> QED BY Zenon, <1>2, <2>1, <3>1
  <2>3. r \in Seq(Nat) /\ Len(r) = a + 1 /\ t \in Seq(Nat) /\ Len(t) = b - 1
    BY <1>4
  <2>4. ASSUME NEW i \in 1..(a + 1) PROVE r[i] = m + i
    <3>1. CASE i = a + 1
      <4>1. r[i] = Head(q)
        BY <3>1
      <4> HIDE DEF a, r
      <4> QED BY <1>1, <2>2, <3>1, <4>1
    <3>2. CASE i # a + 1
      <4>1. i \in 1..a
        BY <1>1, <3>2
      <4>2. r[i] = rx[i]
        BY <4>1
      <4> QED BY Zenon, <1>2, <4>1, <4>2
    <3> QED BY Zenon, <3>1, <3>2
  <2>5. ASSUME NEW i \in 1..(b - 1) PROVE t[i] = m + (a + 1) + i
    <3>1. t[i] = q[i + 1] /\ i + 1 \in 1..b
      BY <1>1, <1>4, <2>3
    <3> HIDE DEF a, b, t
    <3>2. q[i + 1] = m + a + (i + 1)
      BY Zenon, <1>2, <3>1
    <3> QED BY <1>1, <3>1, <3>2
  <2>6. a + 1 \in Nat /\ b - 1 \in Nat /\ (a + 1) + (b - 1) = n - m
    <3> HIDE DEF a, b
    <3> QED BY <1>1, <2>1
  <2> HIDE DEF r, t, a, b
  <2>7. InOrder(r, t, n, m)
    BY Zenon, <2>3, <2>4, <2>5, <2>6, MakeOrder
  <2> QED BY <2>7 DEF r, t
<1>5. ASSUME rx # << >> PROVE InOrder(Tail(rx), q, n, m + 1)
  <2> DEFINE t == Tail(rx)
  <2>1. t \in Seq(Nat) /\ Len(t) = a - 1 /\ a > 0
    BY <1>5
  <2>2. ASSUME NEW i \in 1..(a - 1) PROVE t[i] = (m + 1) + i
    <3>1. t[i] = rx[i + 1] /\ i + 1 \in 1..a
      BY <1>1, <1>5, <2>1
    <3> HIDE DEF a, t
    <3>2. rx[i + 1] = m + (i + 1)
      BY Zenon, <1>2, <3>1
    <3> QED BY <3>1, <3>2
  <2> HIDE DEF t, a, b
  <2>3. a - 1 \in Nat /\ (a - 1) + b = n - (m + 1)
    BY <1>1, <2>1
  <2>4. \A i \in 1..b : q[i] = (m + 1) + (a - 1) + i
    <3>1. \A i \in 1..b : m + a + i = (m + 1) + (a - 1) + i
      BY <1>1
    <3> QED BY Zenon, <1>2, <3>1
  <2>5. b = Len(q)
    BY DEF b
  <2>6. InOrder(t, q, n, m + 1)
    BY Zenon, <1>1, <2>1, <2>2, <2>3, <2>4, <2>5, MakeOrder
  <2> QED BY <2>6 DEF t
<1> QED
  BY <1>3, <1>4, <1>5

\* The types of one port.
LEMMA PortTypes ==
    ASSUME Types, NEW p \in Port
    PROVE  /\ uart[p] \in UARTPort /\ uart[p].rx \in Seq(Nat)
           /\ chan[p] \in [q : Seq(Nat), closed : BOOLEAN] /\ chan[p].q \in Seq(Nat)
           /\ typed[p] \in Nat /\ taken[p] \in Nat
BY DEF Types, DeviceType, UARTPort

\* A port whose bytes are left alone.
LEMMA SamePort ==
    ASSUME BytesInv, NEW p \in Port,
           uart'[p].rx = uart[p].rx, uart'[p].open = uart[p].open,
           chan'[p].q = chan[p].q, chan[p].closed => chan'[p].closed,
           typed'[p] = typed[p], taken'[p] = taken[p]
    PROVE  PortInOrder(p)'
BY Zenon DEF BytesInv, PortInOrder, Silent

\* A host goroutine sends a byte.
LEMMA DeliverInOrder ==
    ASSUME Types, BytesInv, NEW p \in Port, Deliver(p), p = 1 => ConsoleSocket
    PROVE  BytesInv'
<1>1. /\ chan' = [chan EXCEPT ![p].q = Append(@, typed[p] + 1)] /\ ~chan[p].closed
      /\ typed' = [typed EXCEPT ![p] = @ + 1] /\ UNCHANGED <<uart, taken>>
  BY DEF Deliver
<1>2. /\ chan \in [Port -> [q : Seq(Nat), closed : BOOLEAN]] /\ typed \in [Port -> Nat]
  BY DEF Types, DeviceType
<1>3. chan'[p].q = Append(chan[p].q, typed[p] + 1) /\ typed'[p] = typed[p] + 1
  BY <1>1, <1>2
<1>4. PortInOrder(p)'
  <2>1. uart[p].open
    BY Zenon, <1>1 DEF BytesInv, PortInOrder, Silent
  <2>2. InOrder(uart[p].rx, Append(chan[p].q, typed[p] + 1), typed[p] + 1, taken[p])
    BY Zenon, PortTypes, OrderKept DEF BytesInv, PortInOrder
  <2> QED BY Zenon, <1>1, <1>3, <2>1, <2>2 DEF PortInOrder
<1>5. ASSUME NEW r \in Port, r # p PROVE PortInOrder(r)'
  <2>1. chan'[r] = chan[r] /\ typed'[r] = typed[r] /\ uart' = uart /\ taken' = taken
    BY <1>1, <1>2, <1>5
  <2> QED BY Zenon, <2>1, SamePort
<1> QED
  BY Zenon, <1>4, <1>5 DEF BytesInv

\* drainUARTInput moves a byte, or drops the channel once it is empty.
LEMMA DrainInOrder ==
    ASSUME Types, BytesInv, DrainByte \/ DrainClosed
    PROVE  BytesInv'
<1>1. /\ hart.port \in Port /\ uart \in [Port -> UARTPort]
      /\ chan \in [Port -> [q : Seq(Nat), closed : BOOLEAN]]
  BY DEF Types, DeviceType, ControlType, HartState
<1> PICK p \in Port : p = hart.port
  BY <1>1
<1>2. UNCHANGED <<typed, taken>> /\ uart[p].open
  BY DEF DrainByte, DrainClosed, CanReceive
<1>3. ASSUME NEW r \in Port, r # p PROVE PortInOrder(r)'
  <2>1. uart'[r] = uart[r] /\ chan'[r] = chan[r]
    BY <1>1, <1>3 DEF DrainByte, DrainClosed
  <2> QED BY Zenon, <1>2, <2>1, SamePort
<1>4. CASE DrainByte
  <2>1. /\ chan[p].q # << >>
        /\ uart' = [uart EXCEPT ![p].rx = Append(@, Head(chan[p].q))]
        /\ chan' = [chan EXCEPT ![p].q = Tail(@)]
    BY <1>4 DEF DrainByte
  <2>2. /\ uart'[p].rx = Append(uart[p].rx, Head(chan[p].q)) /\ uart'[p].open = uart[p].open
        /\ chan'[p].q = Tail(chan[p].q)
    BY <1>1, <2>1 DEF UARTPort
  <2>3. InOrder(Append(uart[p].rx, Head(chan[p].q)), Tail(chan[p].q), typed[p], taken[p])
    BY Zenon, <1>1, <2>1, PortTypes, OrderKept DEF BytesInv, PortInOrder
  <2>4. PortInOrder(p)'
    BY Zenon, <1>2, <2>2, <2>3 DEF PortInOrder
  <2> QED BY Zenon, <1>3, <2>4 DEF BytesInv
<1>5. CASE DrainClosed
  <2>1. /\ chan[p].q = << >> /\ chan[p].closed /\ chan' = chan
        /\ uart' = [uart EXCEPT ![p].open = FALSE]
    BY <1>5 DEF DrainClosed
  <2>2. uart'[p].rx = uart[p].rx
    BY <1>1, <2>1 DEF UARTPort
  <2>3. PortInOrder(p)'
    BY Zenon, <1>1, <1>2, <2>1, <2>2 DEF BytesInv, PortInOrder, Silent
  <2> QED BY Zenon, <1>3, <2>3 DEF BytesInv
<1> QED
  BY <1>4, <1>5

\* The guest takes the oldest byte, or none.
LEMMA ReadInOrder ==
    ASSUME Types, BytesInv, NEW p \in Port, UARTByte(p)
    PROVE  BytesInv'
<1> DEFINE pops == hart.next = "rbr" /\ ~uart[p].dlab /\ uart[p].rx # << >>
           u == uart'[p]
<1>1. uart \in [Port -> UARTPort] /\ taken \in [Port -> Nat] /\ uart[p] \in UARTPort
  BY DEF Types, DeviceType
<1>2. /\ UNCHANGED <<chan, typed>>
      /\ taken' = [taken EXCEPT ![p] = IF pops THEN taken[p] + 1 ELSE taken[p]]
      /\ \A r \in Port : r # p => uart'[r] = uart[r]
      /\ \/ pops /\ u = PopRX(uart[p])
         \/ ~pops /\ (u = uart[p] \/ u = [uart[p] EXCEPT !.tx = FALSE])
  BY <1>1 DEF UARTByte
<1>3. ASSUME NEW r \in Port, r # p PROVE PortInOrder(r)'
  <2>1. uart'[r] = uart[r] /\ chan' = chan /\ typed' = typed /\ taken'[r] = taken[r]
    BY <1>1, <1>2, <1>3
  <2> QED BY Zenon, <2>1, SamePort
<1>4. CASE pops
  <2>1. u.rx = Tail(uart[p].rx) /\ u.open = uart[p].open
    BY Zenon, <1>1, <1>2, <1>4 DEF PopRX, UARTPort
  <2>2. taken'[p] = taken[p] + 1
    BY <1>1, <1>2, <1>4
  <2>3. InOrder(Tail(uart[p].rx), chan[p].q, typed[p], taken[p] + 1)
    BY Zenon, <1>4, PortTypes, OrderKept DEF BytesInv, PortInOrder
  <2>4. PortInOrder(p)'
    BY Zenon, <1>2, <2>1, <2>2, <2>3 DEF BytesInv, PortInOrder, Silent
  <2> QED BY Zenon, <1>3, <2>4 DEF BytesInv
<1>5. CASE ~pops
  <2>1. u.rx = uart[p].rx /\ u.open = uart[p].open
    BY <1>1, <1>2, <1>5 DEF UARTPort
  <2>2. taken'[p] = taken[p]
    BY <1>1, <1>2, <1>5
  <2>3. PortInOrder(p)'
    BY Zenon, <1>2, <2>1, <2>2, SamePort
  <2> QED BY Zenon, <1>3, <2>3 DEF BytesInv
<1> QED
  BY <1>4, <1>5

\* Every step leaves the bytes of both ports in order.
LEMMA BytesStep == Types /\ BytesInv /\ [Next]_vars => BytesInv'
<1> SUFFICES ASSUME Types, BytesInv, [Next]_vars PROVE BytesInv'
  OBVIOUS
<1>1. /\ uart \in [Port -> UARTPort] /\ 0 \in Port /\ 1 \in Port
      /\ chan \in [Port -> [q : Seq(Nat), closed : BOOLEAN]]
  BY DEF Types, DeviceType, Port
<1>2. CASE StdinByte \/ ConsoleByte
  <2>1. CASE StdinByte
    BY <1>1, <2>1, DeliverInOrder DEF StdinByte
  <2>2. CASE ConsoleByte
    BY <1>1, <2>2, DeliverInOrder DEF ConsoleByte
  <2> QED BY <1>2, <2>1, <2>2
<1>3. CASE StdinEOF
  <2>1. chan' = [chan EXCEPT ![0].closed = TRUE] /\ UNCHANGED <<uart, typed, taken>>
    BY <1>3 DEF StdinEOF
  <2>2. \A p \in Port : chan'[p].q = chan[p].q /\ (chan[p].closed => chan'[p].closed)
    BY <1>1, <2>1
  <2> QED BY Zenon, <2>1, <2>2, SamePort DEF BytesInv
<1>4. CASE DrainByte \/ DrainClosed
  BY <1>4, DrainInOrder
<1>5. CASE \E p \in Port : UARTByte(p)
  BY <1>5, ReadInOrder
<1>6. ASSUME NEW p \in GuestPorts,
             \/ StoreTHR(p)
             \/ \E b \in IERValues : StoreIER(p, b)
             \/ \E b \in BOOLEAN : StoreLCR(p, b)
      PROVE  BytesInv'
  <2>1. UNCHANGED <<chan, typed, taken>>
    BY Zenon, <1>6 DEF StoreTHR, StoreIER, StoreLCR, Stored
  <2>2. \A r \in Port : uart'[r].rx = uart[r].rx /\ uart'[r].open = uart[r].open
    <3>1. CASE StoreTHR(p)
      BY <1>1, <3>1 DEF StoreTHR, UARTPort
    <3>2. CASE \E b \in IERValues : StoreIER(p, b)
      BY <1>1, <3>2 DEF StoreIER, UARTPort
    <3>3. CASE \E b \in BOOLEAN : StoreLCR(p, b)
      BY <1>1, <3>3 DEF StoreLCR, UARTPort
    <3> QED BY <1>6, <3>1, <3>2, <3>3
  <2> QED BY Zenon, <2>1, <2>2, SamePort DEF BytesInv
<1>7. ASSUME UNCHANGED <<uart, chan, typed, taken>> PROVE BytesInv'
  BY Zenon, <1>7, SamePort DEF BytesInv
<1>8. CASE \/ \E s \in GuestSources, v \in Priorities : StorePriority(s, v)
           \/ \E E \in SUBSET GuestSources : StoreEnable(E)
           \/ \E v \in Priorities : StoreThreshold(v)
           \/ \E s \in GuestSources : PlicComplete(s)
           \/ LoadClaim
           \/ Evaluate
  BY <1>7, <1>8 DEF StorePriority, StoreEnable, StoreThreshold, PlicComplete, LoadClaim, Evaluate,
         Stored, devices
<1>9. CASE \/ Refresh \/ Trap \/ LoadPending \/ StoreVirtio \/ WFI \/ ServiceWFI \/ Sleep
           \/ (\E p \in Port : EvaluateUART(p))
           \/ (\E p \in GuestPorts, reg \in {"rbr", "iir", "lsr"} : LoadUART(p, reg))
           \/ (\E b \in BOOLEAN : SetIE(b))
           \/ (\E g \in Injectors : InjectGuestFrame(g))
           \/ (\E g \in Producers : WakeWFI(g))
           \/ UNCHANGED vars
  <2>1. UNCHANGED <<uart, chan, typed, taken>>
    BY Zenon, <1>9 DEF Refresh, Trap, LoadPending, StoreVirtio, WFI, ServiceWFI, Sleep, EvaluateUART,
                LoadUART, SetIE, InjectGuestFrame, WakeWFI, Stored, devices, vars
  <2> QED BY <1>7, <2>1
<1> QED
  BY <1>2, <1>3, <1>4, <1>5, <1>6, <1>8, <1>9 DEF Next, Hart, Host, Instruction

\* The guest reads every byte of both consoles once and in the order typed, for
\* every uartRXLimit and whatever waits in rxCh when stdin is closed.
THEOREM BytesAlwaysInOrder == Spec => []BytesInOrder
<1>1. Init => BytesInv
  <2> SUFFICES ASSUME Init, NEW p \in Port PROVE PortInOrder(p)
    BY DEF BytesInv
  <2>1. /\ uart[p].rx = << >> /\ chan[p].q = << >> /\ typed[p] = 0 /\ taken[p] = 0
        /\ uart[p].open = (p = 0 \/ ConsoleSocket)
    BY DEF Init
  <2>2. InOrder(<< >>, << >>, 0, 0)
    BY DEF InOrder
  <2>3. p = 0 \/ p = 1
    BY DEF Port
  <2> QED BY Zenon, <2>1, <2>2, <2>3 DEF PortInOrder, Silent
<1>2. Types /\ BytesInv => BytesInOrder
  <2> SUFFICES ASSUME Types, BytesInv, NEW p \in Port
               PROVE  /\ uart[p].rx \o chan[p].q
                           = [i \in 1..(typed[p] - taken[p]) |-> taken[p] + i]
                      /\ ~uart[p].open => chan[p].q = << >>
    BY Zenon DEF BytesInOrder
  <2>1. InOrder(uart[p].rx, chan[p].q, typed[p], taken[p]) /\ (~uart[p].open => chan[p].q = << >>)
    BY Zenon DEF BytesInv, PortInOrder, Silent
  <2>2. /\ uart[p].rx \in Seq(Nat) /\ chan[p].q \in Seq(Nat)
        /\ typed[p] \in Nat /\ taken[p] \in Nat
    BY PortTypes
  <2>3. uart[p].rx \o chan[p].q = [i \in 1..(typed[p] - taken[p]) |-> taken[p] + i]
    <3> DEFINE rx == uart[p].rx
               q == chan[p].q
               n == typed[p]
               m == taken[p]
    <3>1. rx \in Seq(Nat) /\ q \in Seq(Nat) /\ n \in Nat /\ m \in Nat /\ InOrder(rx, q, n, m)
      BY <2>1, <2>2
    <3> HIDE DEF rx, q, n, m
    <3>2. rx \o q = [i \in 1..(n - m) |-> m + i]
      BY SMT, <3>1, OneSequence
    <3> QED BY <3>2 DEF rx, q, n, m
  <2> QED BY <2>1, <2>3
<1> QED
  BY InitType, TypesStep, BytesStep, <1>1, <1>2, PTL DEF Spec
================================================================================
