------------------------------- MODULE BoardIRQ -------------------------------
(***************************************************************************)
(* How an external interrupt reaches the hart of a BIOS guest (bios.go,    *)
(* machine_interrupt.go).  Host goroutines put console bytes and network   *)
(* frames into the devices while the hart runs; the hart asks the PLIC     *)
(* once per instruction whether an interrupt is pending, and answers from  *)
(* a cached value unless the atomic flag externalInterruptDirty says the   *)
(* cache is stale.                                                         *)
(*                                                                         *)
(* One step is one access to state that two goroutines share: the channel  *)
(* of a UART, externalInterruptDirty, the interrupt status of virtio-net   *)
(* and the channel wfiWake.  What the hart does between two such accesses  *)
(* belongs to the step.  Only the supervisor context of the PLIC is here:  *)
(* nothing but a claim reads the machine context.                          *)
(***************************************************************************)
EXTENDS Naturals, Sequences, FiniteSets

CONSTANTS
    Net,            \* cfg.Net: virtio-net and the wfiWake channel exist
    ConsoleSocket,  \* UART 1 has a console socket
    Injectors,      \* goroutines that call InjectGuestFrame
    RXLimit,        \* uartRXLimit: capacity of rxCh and limit of rx
    MaxBytes,       \* bound: bytes typed on each port
    Priorities,     \* priorities and thresholds the guest programs
    GuestPorts,     \* UARTs the guest programs
    IERValues,      \* interrupt enables the guest programs, of SUBSET UARTInterrupts
    GuestSources,   \* PLIC sources the guest programs
    GuestOps        \* instructions the guest executes, of AllGuestOps

Port == {0, 1}
UARTIRQ(p) == 10 + p            \* biosUARTIRQ, biosUART1IRQ
VirtioNetIRQ == 1
UARTInterrupts == {"RDI", "THRI"}
Source == {VirtioNetIRQ, 10, 11}
AllGuestOps == {"thr", "ier", "lcr", "rbr", "iir", "lsr",
                "priority", "enable", "threshold", "pending", "claim", "complete",
                "vnet", "ie", "wfi"}

ASSUME BoardAssumption ==
    /\ Net \in BOOLEAN /\ ConsoleSocket \in BOOLEAN
    /\ RXLimit \in Nat \ {0} /\ MaxBytes \in Nat
    /\ Priorities \subseteq Nat /\ 0 \in Priorities
    /\ IERValues \subseteq SUBSET UARTInterrupts
    /\ GuestPorts \subseteq Port /\ GuestSources \subseteq Source
    /\ GuestOps \subseteq AllGuestOps
    /\ {"stdin", "console"} \cap Injectors = {}

VARIABLES
    uart,    \* per port: IER bits, DLAB, txInterrupt, rx, and rxCh # nil
    chan,    \* rxCh per port: bytes in flight, and whether stdin closed it
    typed,   \* per port: how many bytes the host has sent; byte i carries i
    taken,   \* per port: how many bytes the guest has read
    vnet,    \* virtioNet.interruptStatus # 0
    plic,    \* priority, enable, threshold and the claimed source
    dirty,   \* externalInterruptDirty
    cached,  \* supervisorExternalPending
    seip,    \* mip.SEIP
    ie,      \* the hart takes a pending SEIP (mideleg, sie, mstatus.SIE)
    wake,    \* wfiWake holds a token
    hart,    \* where the hart's goroutine is
    prod     \* where each host goroutine is

devices == <<uart, chan, typed, taken, vnet, plic>>
vars == <<devices, dirty, cached, seip, ie, wake, hart, prod>>

Producers == {"stdin", "console"} \cup Injectors

\* Where the hart is.  next is where a refresh of SEIP returns to; job is what
\* an evaluation of the PLIC or a drain is for.
At(pc, job, next) ==
    [pc |-> pc, job |-> job, next |-> next, port |-> 0, changed |-> FALSE, irqs |-> {}]

Top == At("refresh", "none", "exec")    \* the head of runMachineBudget's loop

Init ==
    /\ uart = [p \in Port |-> [ier |-> {}, dlab |-> FALSE, tx |-> FALSE, rx |-> << >>,
                               open |-> p = 0 \/ ConsoleSocket]]
    /\ chan = [p \in Port |-> [q |-> << >>, closed |-> FALSE]]
    /\ typed = [p \in Port |-> 0] /\ taken = [p \in Port |-> 0]
    /\ vnet = FALSE
    /\ plic = [priority |-> [s \in Source |-> 0], enable |-> {}, threshold |-> 0,
               claimed |-> 0]
    /\ dirty = TRUE /\ cached = FALSE /\ seip = FALSE /\ ie = FALSE /\ wake = FALSE
    /\ hart = Top
    /\ prod = [g \in Producers |-> "idle"]

-----------------------------------------------------------------------------
(* Host goroutines.  wakeWFI marks the flag and then offers a token. *)

\* startUARTInput for port 0, emuConsoleSocket.readLoop for port 1.
Deliver(p) ==
    /\ typed[p] < MaxBytes /\ ~chan[p].closed
    /\ Len(chan[p].q) < RXLimit
    /\ chan' = [chan EXCEPT ![p].q = Append(@, typed[p] + 1)]
    /\ typed' = [typed EXCEPT ![p] = @ + 1]
    /\ UNCHANGED <<uart, taken, vnet, plic, dirty, cached, seip, ie, wake, hart>>

\* Deviation: input is delivered without wakeWFI.
Dev_StdinByteNoWake ==
    prod["stdin"] = "idle" /\ Deliver(0) /\ UNCHANGED prod

StdinByte ==
    /\ prod["stdin"] = "idle"
    /\ Deliver(0)
    /\ prod' = [prod EXCEPT !["stdin"] = "mark"]

StdinEOF ==
    /\ prod["stdin"] = "idle" /\ ~chan[0].closed
    /\ chan' = [chan EXCEPT ![0].closed = TRUE]
    /\ prod' = [prod EXCEPT !["stdin"] = "mark"]
    /\ UNCHANGED <<uart, typed, taken, vnet, plic, dirty, cached, seip, ie, wake, hart>>

\* readLoop has no wakeWFI to call.
ConsoleByte ==
    /\ ConsoleSocket
    /\ Deliver(1)
    /\ UNCHANGED prod

\* InjectGuestFrame under the device lock: the interrupt is raised if a receive
\* buffer was available.
InjectGuestFrame(g) ==
    /\ Net /\ prod[g] = "idle"
    /\ vnet' \in {vnet, TRUE}
    /\ prod' = [prod EXCEPT ![g] = "mark"]
    /\ UNCHANGED <<uart, chan, typed, taken, plic, dirty, cached, seip, ie, wake, hart>>

\* Deviation: wakeWFI offers no token.
Dev_MarkOnly(g) ==
    /\ prod[g] = "mark"
    /\ dirty' = TRUE
    /\ prod' = [prod EXCEPT ![g] = "idle"]
    /\ UNCHANGED <<devices, cached, seip, ie, wake, hart>>

WakeWFI(g) ==
    \/ /\ prod[g] = "mark"
       /\ dirty' = TRUE
       /\ prod' = [prod EXCEPT ![g] = IF Net THEN "token" ELSE "idle"]
       /\ UNCHANGED <<devices, cached, seip, ie, wake, hart>>
    \/ /\ prod[g] = "token"
       /\ wake' = TRUE
       /\ prod' = [prod EXCEPT ![g] = "idle"]
       /\ UNCHANGED <<devices, dirty, cached, seip, ie, hart>>

-----------------------------------------------------------------------------
(* The level of each interrupt line, and the PLIC's choice. *)

UARTRXInterruptPending(u) == "RDI" \in u.ier /\ u.rx # << >>

UARTTXInterruptPending(u) == "THRI" \in u.ier /\ u.tx

UARTLine(p, u) ==
    IF UARTRXInterruptPending(u) \/ UARTTXInterruptPending(u) THEN {UARTIRQ(p)} ELSE {}

VirtioLine == IF Net /\ vnet THEN {VirtioNetIRQ} ELSE {}

\* plicPendingForContext, with no source claimed: the highest priority above
\* the threshold, the lowest source among equals, 0 for none.
PlicBest(pl, irqs) ==
    LET open == {s \in irqs \cap pl.enable : pl.priority[s] > pl.threshold}
    IN  IF open = {} THEN 0
        ELSE CHOOSE s \in open : \A r \in open :
               \/ pl.priority[s] > pl.priority[r]
               \/ pl.priority[s] = pl.priority[r] /\ s <= r

-----------------------------------------------------------------------------
(* The hart refreshes mip.SEIP. *)

Returned(next) == IF next = "top" THEN Top ELSE At(next, "none", "none")

\* supervisorExternalPending, and with it mip.SEIP, gets a new value.
SetPending(b, next) ==
    /\ cached' = b /\ seip' = b
    /\ hart' = Returned(next)

\* SupervisorExternalInterruptPending from refreshSupervisorExternalPending.
\* The load and the swap are one step: only the hart ever clears the flag.
Refresh ==
    /\ hart.pc = "refresh"
    /\ \/ ~dirty /\ SetPending(cached, hart.next)
       \/ dirty /\ plic.claimed # 0 /\ SetPending(FALSE, hart.next)
       \/ /\ dirty /\ plic.claimed = 0
          /\ hart' = At("drain", "refresh", hart.next)
          /\ UNCHANGED <<cached, seip>>
    /\ dirty' = FALSE
    /\ UNCHANGED <<devices, ie, wake, prod>>

CanReceive(p) == uart[p].open /\ Len(uart[p].rx) < RXLimit

\* drainUARTInput takes one byte out of rxCh.
DrainByte ==
    LET p == hart.port
    IN  /\ hart.pc = "drain" /\ CanReceive(p) /\ chan[p].q # << >>
        /\ uart' = [uart EXCEPT ![p].rx = Append(@, Head(chan[p].q))]
        /\ chan' = [chan EXCEPT ![p].q = Tail(@)]
        /\ hart' = [hart EXCEPT !.changed = TRUE]
        /\ UNCHANGED <<typed, taken, vnet, plic, dirty, cached, seip, ie, wake, prod>>

\* drainUARTInput finds rxCh closed.
DrainClosed ==
    LET p == hart.port
    IN  /\ hart.pc = "drain" /\ CanReceive(p) /\ chan[p].q = << >> /\ chan[p].closed
        /\ uart' = [uart EXCEPT ![p].open = FALSE]
        /\ hart' = [hart EXCEPT !.changed = TRUE]
        /\ UNCHANGED <<chan, typed, taken, vnet, plic, dirty, cached, seip, ie, wake, prod>>

\* drainUARTInput has nothing left to take.
Drained(p) ==
    /\ hart.pc = "drain" /\ hart.port = p
    /\ CanReceive(p) => chan[p].q = << >> /\ ~chan[p].closed

\* plicPendingBits: port 0, then port 1, then virtio-net.  A drain that changed
\* anything marks the flag.
EvaluateUART(p) ==
    /\ hart.job # "read" /\ Drained(p)
    /\ dirty' = (dirty \/ hart.changed)
    /\ hart' = [hart EXCEPT !.pc = IF p = 0 THEN "drain" ELSE "virtio", !.port = 1,
                            !.changed = FALSE, !.irqs = @ \cup UARTLine(p, uart[p])]
    /\ UNCHANGED <<devices, cached, seip, ie, wake, prod>>

Evaluate ==
    /\ hart.pc = "virtio"
    /\ LET best == PlicBest(plic, hart.irqs \cup VirtioLine)
       IN  \/ /\ hart.job = "refresh"
              /\ SetPending(best # 0, hart.next)
              /\ UNCHANGED <<plic, dirty>>
           \/ /\ hart.job = "claim"       \* plicClaim
              /\ plic' = [plic EXCEPT !.claimed = best]
              /\ dirty' = TRUE
              /\ hart' = Top
              /\ UNCHANGED <<cached, seip>>
           \/ /\ hart.job = "bits"        \* a load of the pending register
              /\ hart' = Top
              /\ UNCHANGED <<plic, dirty, cached, seip>>
    /\ UNCHANGED <<uart, chan, typed, taken, vnet, ie, wake, prod>>

-----------------------------------------------------------------------------
(* Instructions.  takePendingBiosInterrupt has just refreshed SEIP. *)

Trap ==
    /\ hart.pc = "exec" /\ seip /\ ie
    /\ ie' = FALSE
    /\ hart' = Top
    /\ UNCHANGED <<devices, dirty, cached, seip, wake, prod>>

Executes(op) == hart.pc = "exec" /\ ~(seip /\ ie) /\ op \in GuestOps

\* Deviation: the flag is not marked.
Dev_StoredUnmarked ==
    /\ hart' = Top
    /\ UNCHANGED <<chan, typed, taken, dirty, cached, seip, ie, prod>>

\* An instruction that changes a device register and marks the flag.
Stored ==
    /\ dirty' = TRUE
    /\ hart' = Top
    /\ UNCHANGED <<chan, typed, taken, cached, seip, ie, prod>>

\* storeUARTPort: the transmit holding register.
StoreTHR(p) ==
    /\ Executes("thr")
    /\ uart' = [uart EXCEPT ![p].tx = @ \/ (~uart[p].dlab /\ "THRI" \in uart[p].ier)]
    /\ Stored /\ UNCHANGED <<vnet, plic, wake>>

\* storeUARTPort: interrupt enables, or the high divisor byte under DLAB, which
\* shares regs[1] with them.
StoreIER(p, b) ==
    /\ Executes("ier")
    /\ uart' = [uart EXCEPT ![p].ier = b,
                            ![p].tx = IF uart[p].dlab THEN @ ELSE "THRI" \in b]
    /\ Stored /\ UNCHANGED <<vnet, plic, wake>>

StoreLCR(p, dlab) ==
    /\ Executes("lcr")
    /\ uart' = [uart EXCEPT ![p].dlab = dlab]
    /\ Stored /\ UNCHANGED <<vnet, plic, wake>>

\* loadUARTPort starts with a drain.
LoadUART(p, reg) ==
    /\ Executes(reg)
    /\ hart' = [At("drain", "read", reg) EXCEPT !.port = p]
    /\ UNCHANGED <<devices, dirty, cached, seip, ie, wake, prod>>

\* Deviation: the newest byte is returned.
Dev_PopNewest(u) == [u EXCEPT !.rx = SubSeq(@, 1, Len(@) - 1)]

PopRX(u) == [u EXCEPT !.rx = Tail(@)]

\* uartByte after its drain: RBR takes a byte, IIR acknowledges a transmit
\* interrupt unless a receive interrupt is reported first.
UARTByte(p) ==
    LET u == uart[p]
        pops == hart.next = "rbr" /\ ~u.dlab /\ u.rx # << >>
        acks == /\ hart.next = "iir" /\ ~u.dlab
                /\ ~UARTRXInterruptPending(u) /\ UARTTXInterruptPending(u)
    IN  /\ hart.job = "read" /\ Drained(p)
        /\ dirty' = (dirty \/ hart.changed \/ pops \/ acks)
        /\ uart' = [uart EXCEPT ![p] = IF pops THEN PopRX(u)
                                       ELSE IF acks THEN [u EXCEPT !.tx = FALSE] ELSE u]
        /\ taken' = [taken EXCEPT ![p] = IF pops THEN @ + 1 ELSE @]
        /\ hart' = Top
        /\ UNCHANGED <<chan, typed, vnet, plic, cached, seip, ie, wake, prod>>

\* storePLIC
StorePriority(s, v) ==
    /\ Executes("priority")
    /\ plic' = [plic EXCEPT !.priority[s] = v]
    /\ Stored /\ UNCHANGED <<uart, vnet, wake>>

StoreEnable(E) ==
    /\ Executes("enable")
    /\ plic' = [plic EXCEPT !.enable = E]
    /\ Stored /\ UNCHANGED <<uart, vnet, wake>>

StoreThreshold(v) ==
    /\ Executes("threshold")
    /\ plic' = [plic EXCEPT !.threshold = v]
    /\ Stored /\ UNCHANGED <<uart, vnet, wake>>

PlicComplete(s) ==
    /\ Executes("complete")
    /\ plic' = [plic EXCEPT !.claimed = IF @ = s THEN 0 ELSE @]
    /\ Stored /\ UNCHANGED <<uart, vnet, wake>>

\* plicClaim; while a source is in service its result, and plicClaimed, is 0.
LoadClaim ==
    /\ Executes("claim")
    /\ \/ /\ plic.claimed # 0
          /\ plic' = [plic EXCEPT !.claimed = 0]
          /\ Stored /\ UNCHANGED <<uart, vnet, wake>>
       \/ /\ plic.claimed = 0
          /\ hart' = At("drain", "claim", "none")
          /\ UNCHANGED <<devices, dirty, cached, seip, ie, wake, prod>>

LoadPending ==
    /\ Executes("pending")
    /\ hart' = At("drain", "bits", "none")
    /\ UNCHANGED <<devices, dirty, cached, seip, ie, wake, prod>>

\* virtioNet.Store, then the mark of biosMMIO.Store.  An acknowledgement or a
\* reset lowers the line; a notified queue raises it; a transmitted frame that
\* the packet stack answers at once calls wakeWFI.
StoreVirtio ==
    /\ Net /\ Executes("vnet")
    /\ vnet' \in BOOLEAN
    /\ wake' \in {wake, TRUE}
    /\ Stored /\ UNCHANGED <<uart, plic>>

SetIE(b) ==
    /\ Executes("ie")
    /\ ie' = b
    /\ hart' = Top
    /\ UNCHANGED <<devices, dirty, cached, seip, wake, prod>>

WFI ==
    /\ Executes("wfi")
    /\ hart' = At("refresh", "none", "wfi")
    /\ UNCHANGED <<devices, dirty, cached, seip, ie, wake, prod>>

\* serviceBiosWFI, with SEIP refreshed: sleep unless an interrupt will be taken.
ServiceWFI ==
    /\ hart.pc = "wfi"
    /\ hart' = IF seip /\ ie THEN Top ELSE At("sleep", "none", "none")
    /\ UNCHANGED <<devices, dirty, cached, seip, ie, wake, prod>>

\* biosWFISelectSleep ends on a token or on its timer; SEIP is refreshed again.
Sleep ==
    /\ hart.pc = "sleep"
    /\ \/ Net /\ wake /\ wake' = FALSE
       \/ UNCHANGED wake
    /\ hart' = At("refresh", "none", "top")
    /\ UNCHANGED <<devices, dirty, cached, seip, ie, prod>>

-----------------------------------------------------------------------------
Instruction ==
    \/ \E p \in GuestPorts :
         \/ StoreTHR(p)
         \/ \E b \in IERValues : StoreIER(p, b)
         \/ \E b \in BOOLEAN : StoreLCR(p, b)
         \/ \E reg \in {"rbr", "iir", "lsr"} : LoadUART(p, reg)
    \/ \E s \in GuestSources, v \in Priorities : StorePriority(s, v)
    \/ \E E \in SUBSET GuestSources : StoreEnable(E)
    \/ \E v \in Priorities : StoreThreshold(v)
    \/ \E s \in GuestSources : PlicComplete(s)
    \/ LoadClaim \/ LoadPending \/ StoreVirtio
    \/ \E b \in BOOLEAN : SetIE(b)
    \/ WFI

Hart ==
    \/ Refresh \/ DrainByte \/ DrainClosed \/ Evaluate
    \/ \E p \in Port : EvaluateUART(p) \/ UARTByte(p)
    \/ Trap \/ Instruction \/ ServiceWFI \/ Sleep

Host ==
    \/ StdinByte \/ StdinEOF \/ ConsoleByte
    \/ \E g \in Injectors : InjectGuestFrame(g)
    \/ \E g \in Producers : WakeWFI(g)

Next == Hart \/ Host

Spec == Init /\ [][Next]_vars

-----------------------------------------------------------------------------
(* Properties. *)

UARTPort ==
    [ier : SUBSET UARTInterrupts, dlab : BOOLEAN, tx : BOOLEAN, rx : Seq(Nat),
     open : BOOLEAN]

PLICState ==
    [priority : [Source -> Nat], enable : SUBSET Source, threshold : Nat,
     claimed : Source \cup {0}]

HartState ==
    [pc : {"refresh", "drain", "virtio", "exec", "wfi", "sleep"},
     job : {"none", "refresh", "claim", "bits", "read"},
     next : {"none", "exec", "wfi", "top", "rbr", "iir", "lsr"},
     port : Port, changed : BOOLEAN, irqs : SUBSET Source]

\* Types, and the capacity of the two receive buffers: drainUARTInput leaves in
\* rxCh what does not fit into rx.
TypeOK ==
    /\ uart \in [Port -> UARTPort]
    /\ chan \in [Port -> [q : Seq(Nat), closed : BOOLEAN]]
    /\ \A p \in Port : Len(uart[p].rx) <= RXLimit /\ Len(chan[p].q) <= RXLimit
    /\ typed \in [Port -> Nat] /\ taken \in [Port -> Nat]
    /\ plic \in PLICState
    /\ vnet \in BOOLEAN /\ dirty \in BOOLEAN /\ cached \in BOOLEAN
    /\ seip \in BOOLEAN /\ ie \in BOOLEAN /\ wake \in BOOLEAN
    /\ hart \in HartState
    /\ prod \in [Producers -> {"idle", "mark", "token"}]

\* Is an interrupt due?  Bytes still in rxCh count: a drain would find them.
DueLine(p, u, c) ==
    IF \/ "RDI" \in u.ier /\ (u.rx # << >> \/ (u.open /\ c.q # << >>))
       \/ UARTTXInterruptPending(u)
    THEN {UARTIRQ(p)} ELSE {}

DueLines == DueLine(0, uart[0], chan[0]) \cup DueLine(1, uart[1], chan[1]) \cup VirtioLine

InterruptDue == plic.claimed = 0 /\ PlicBest(plic, DueLines) # 0

\* The fast path of SupervisorExternalInterruptPending is exact: whenever
\* externalInterruptDirty is clear and no goroutine is about to set it, the
\* cached answer is what evaluating every device and the PLIC would give.  No
\* order of marks, drains, swaps and register writes loses an interrupt.
CacheIsExact ==
    ~dirty /\ hart.job # "refresh" /\ (\A g \in Producers : prod[g] # "mark")
      => cached = InterruptDue

\* The hart is never asleep in WFI with an interrupt due that it has not seen
\* unless a token is in wfiWake or a goroutine is about to put one there.
SleeperIsWoken ==
    Net /\ hart.pc = "sleep" /\ InterruptDue /\ ~seip
      => wake \/ \E g \in Producers : prod[g] # "idle"

\* The guest reads every byte once and in the order typed, whatever the limits
\* of rx and rxCh made wait where.
BytesInOrder ==
    \A p \in Port :
      /\ uart[p].rx \o chan[p].q = [i \in 1..(typed[p] - taken[p]) |-> taken[p] + i]
      /\ ~uart[p].open => chan[p].q = << >>
=============================================================================
