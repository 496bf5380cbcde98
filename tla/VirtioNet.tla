------------------------------- MODULE VirtioNet -------------------------------
(***************************************************************************)
(* The virtio-net device (virtio_net.go) with its two split virtqueues in  *)
(* guest memory, the guest's driver, and a host goroutine that injects     *)
(* frames.                                                                 *)
(*                                                                         *)
(* A register access by the guest holds the device's mutex for all it      *)
(* does and is one step.  InjectGuestFrame holds the mutex too, but the    *)
(* guest goes on writing its rings meanwhile, so it is a step per frame.   *)
(* The driver is outside the repository: it is modelled as far as the      *)
(* device's tests exercise it, one descriptor per buffer.                  *)
(***************************************************************************)
EXTENDS Naturals, Sequences, FiniteSets

CONSTANTS
    QNum,      \* entries of a ring, QueueNum
    IdxMod,    \* ring indices are uint16; a small multiple of QNum here
    Workloads  \* what the driver and the host may do in a behaviour

AllTxKinds == {"frame",  \* a header and a frame
               "hdr",    \* a header and nothing else
               "fault"}  \* a buffer outside guest memory

AllRxKinds == {"big",    \* a receive buffer that holds any frame
               "short"}  \* one that is too small

Queue == {"rx", "tx"}

\* A workload bounds the frames injected and sent, gives the kinds of buffers
\* the driver posts, and says whether it resets the device and its queues.
Workload == [frames : [Queue -> Nat], rx : SUBSET AllRxKinds, tx : SUBSET AllTxKinds,
             resets : BOOLEAN]

\* The device takes any QueueNum.  Drivers choose a power of two, as virtio asks
\* of a split ring, and so one that divides the range of the indices.
ASSUME VirtioAssumption ==
    /\ QNum \in Nat \ {0} /\ IdxMod \in Nat \ {0} /\ IdxMod % QNum = 0 /\ IdxMod > QNum
    /\ \A w \in Workloads : w \in Workload

VARIABLES
    queues,   \* per queue: ready (and num # 0) and lastAvail
    rings,    \* per queue, in guest memory: available and used rings
    bufs,     \* per queue, in guest memory: what each descriptor's buffer holds
    pending,  \* pendingRX
    intr,     \* the vring bit of interruptStatus
    inj,      \* the injecting goroutine: "idle", or in the mutex with its delivered flag
    drv,      \* the driver
    sent,     \* frames handed to the packet stack
    got,      \* frames the driver has received
    work      \* the workload, its frames counted down: frame i carries i

vars == <<queues, rings, bufs, pending, intr, inj, drv, sent, got, work>>

Desc == 0..(QNum - 1)
Idx == 0..(IdxMod - 1)

Plus(i, n) == (i + n) % IdxMod

\* How far index i is ahead of j.
Ahead(i, j) == (i + IdxMod - j) % IdxMod

EmptyRing == [avail |-> [d \in Desc |-> 0], availIdx |-> 0,
              used |-> [d \in Desc |-> 0], usedIdx |-> 0]

ClosedQueue == [ready |-> FALSE, lastAvail |-> 0]

Buffer(kind, f) == [kind |-> kind, frame |-> f]

Init ==
    /\ queues = [k \in Queue |-> ClosedQueue]
    /\ rings = [k \in Queue |-> EmptyRing]
    /\ bufs = [k \in Queue |-> [d \in Desc |-> Buffer("none", 0)]]
    /\ pending = << >>
    /\ intr = FALSE
    /\ inj = "idle"
    /\ drv = [pc |-> "run", free |-> [k \in Queue |-> Desc],
              lastUsed |-> [k \in Queue |-> 0], owes |-> {}]
    /\ sent = << >> /\ got = << >>
    /\ work \in Workloads

-----------------------------------------------------------------------------
(* The device's view of a queue. *)

Avail(k) == Ahead(rings[k].availIdx, queues[k].lastAvail)

\* The head of the i-th chain the device has not consumed.
HeadAt(k, i) == rings[k].avail[Plus(queues[k].lastAvail, i - 1) % QNum]

Chain(k, i) == bufs[k][HeadAt(k, i)]

\* r with the next n chains of queue k written to the used ring, the first at
\* slot first.
WriteUsed(k, r, n, first) ==
    [r EXCEPT !.used = [d \in Desc |->
                          LET i == ((d + QNum - first) % QNum) + 1
                          IN  IF i <= n THEN HeadAt(k, i) ELSE @[d]],
              !.usedIdx = Plus(@, n)]

\* Deviation: entries are written one slot too far.
Dev_UsedOffByOne(k, n) ==
    WriteUsed(k, rings[k], n, (rings[k].usedIdx + 1) % QNum)

\* addUsedLocked for the next n chains.
AddUsed(k, n) == WriteUsed(k, rings[k], n, rings[k].usedIdx % QNum)

Consume(k, n) ==
    /\ rings' = [rings EXCEPT ![k] = AddUsed(k, n)]
    /\ queues' = [queues EXCEPT ![k].lastAvail = Plus(@, n)]

-----------------------------------------------------------------------------
(* Registers the guest writes, each under the mutex. *)

Accesses == drv.pc = "run" /\ inj = "idle"

\* A chain is added to the frames only if it holds more than a header.
AddFrame(frames, b) == IF b.kind = "frame" THEN Append(frames, b.frame) ELSE frames

\* The frames among the chains c, after each turn of drainTXLocked's loop.
FramesOf(c) ==
    LET f[i \in 0..IdxMod] == IF i = 0 THEN << >> ELSE AddFrame(f[i - 1], c[i])
    IN  f

TxChains == [i \in 1..Avail("tx") |-> Chain("tx", i)]

\* Deviation: what was gathered before a chain that cannot be read is not sent.
Dev_FaultLosesFrames ==
    LET total == Avail("tx")
        good  == {n \in 0..total : \A i \in 1..n : Chain("tx", i).kind # "fault"}
        n     == CHOOSE m \in good : \A o \in good : o <= m
        out   == FramesOf(TxChains)[n]
    IN  /\ Consume("tx", n)
        /\ sent' = IF n = total THEN sent \o out ELSE sent
        /\ intr' = (intr \/ (n = total /\ out # << >>))

\* drainTXLocked stops at the first chain it cannot read, and raises the
\* interrupt only when it reaches the end with a frame to show.  Store hands the
\* stack what was gathered, fault or not.
DrainTX ==
    LET total == Avail("tx")
        good  == {n \in 0..total : \A i \in 1..n : Chain("tx", i).kind # "fault"}
        n     == CHOOSE m \in good : \A o \in good : o <= m
        out   == FramesOf(TxChains)[n]
    IN  /\ Consume("tx", n)
        /\ sent' = sent \o out
        /\ intr' = (intr \/ (n = total /\ out # << >>))

NotifyTX ==
    /\ Accesses /\ "tx" \in drv.owes
    /\ drv' = [drv EXCEPT !.owes = @ \ {"tx"}]
    /\ \/ queues["tx"].ready /\ DrainTX
       \/ ~queues["tx"].ready /\ UNCHANGED <<queues, rings, sent, intr>>
    /\ UNCHANGED <<bufs, pending, inj, got, work>>

\* Frames and buffers that meet: pumpRXLocked stops at the first buffer that is
\* too short.
Pumped ==
    LET fits == {n \in 0..Avail("rx") :
                   n <= Len(pending) /\ \A i \in 1..n : Chain("rx", i).kind = "big"}
    IN  CHOOSE m \in fits : \A o \in fits : o <= m

FillBuffers(n) ==
    bufs' = [bufs EXCEPT !["rx"] = [d \in Desc |->
               LET hit == {i \in 1..n : HeadAt("rx", i) = d}
               IN  IF hit = {} THEN @[d]
                   ELSE Buffer("full", pending[CHOOSE i \in hit : TRUE])]]

PumpRX(n) ==
    /\ Consume("rx", n)
    /\ FillBuffers(n)
    /\ pending' = SubSeq(pending, n + 1, Len(pending))

\* Deviation: a notification of the receive queue does nothing.
Dev_NotifyRXIgnored ==
    /\ Accesses /\ "rx" \in drv.owes
    /\ drv' = [drv EXCEPT !.owes = @ \ {"rx"}]
    /\ UNCHANGED <<queues, rings, bufs, pending, intr, inj, sent, got, work>>

NotifyRX ==
    /\ Accesses /\ "rx" \in drv.owes
    /\ drv' = [drv EXCEPT !.owes = @ \ {"rx"}]
    /\ \/ queues["rx"].ready /\ PumpRX(Pumped) /\ intr' = (intr \/ Pumped > 0)
       \/ ~queues["rx"].ready /\ UNCHANGED <<queues, rings, bufs, pending, intr>>
    /\ UNCHANGED <<inj, sent, got, work>>

\* InterruptACK, then the driver looks at its used rings.
InterruptACK ==
    /\ Accesses /\ intr
    /\ intr' = FALSE
    /\ drv' = [drv EXCEPT !.pc = "reap"]
    /\ UNCHANGED <<queues, rings, bufs, pending, inj, sent, got, work>>

\* QueueReady = 0
Close(k) == [queues EXCEPT ![k] = ClosedQueue]

QueueNotReady(k) ==
    /\ work.resets /\ Accesses
    /\ queues' = Close(k)
    /\ UNCHANGED <<rings, bufs, pending, intr, inj, drv, sent, got, work>>

\* Status = 0: resetLocked
Reset ==
    /\ work.resets /\ Accesses
    /\ queues' = [k \in Queue |-> ClosedQueue]
    /\ pending' = << >>
    /\ intr' = FALSE
    /\ UNCHANGED <<rings, bufs, inj, drv, sent, got, work>>

\* The driver clears the rings of a queue it owns again and sets QueueReady.
QueueReady(k) ==
    /\ Accesses /\ ~queues[k].ready
    /\ rings' = [rings EXCEPT ![k] = EmptyRing]
    /\ queues' = [queues EXCEPT ![k].ready = TRUE]
    /\ drv' = [drv EXCEPT !.free[k] = Desc, !.lastUsed[k] = 0, !.owes = @ \ {k}]
    /\ UNCHANGED <<bufs, pending, intr, inj, sent, got, work>>

-----------------------------------------------------------------------------
(* The driver's accesses to its rings (external). *)

\* The entry of the available ring is written before the index that publishes it.
PostBuffer(k, b) ==
    /\ drv.pc = "run" /\ queues[k].ready /\ drv.free[k] # {}
    /\ LET d == CHOOSE e \in drv.free[k] : \A o \in drv.free[k] : e <= o
       IN  /\ bufs' = [bufs EXCEPT ![k][d] = b]
           /\ rings' = [rings EXCEPT ![k].avail[rings[k].availIdx % QNum] = d]
           /\ drv' = [drv EXCEPT !.free[k] = @ \ {d}, !.pc = k]
    /\ UNCHANGED <<queues, pending, intr, inj, sent, got>>

PostTX(kind) ==
    /\ kind \in work.tx /\ work.frames["tx"] > 0
    /\ PostBuffer("tx", Buffer(kind, work.frames["tx"]))
    /\ work' = [work EXCEPT !.frames["tx"] = @ - 1]

PostRX(kind) ==
    /\ kind \in work.rx
    /\ PostBuffer("rx", Buffer(kind, 0))
    /\ UNCHANGED work

Publish(k) ==
    /\ drv.pc = k
    /\ rings' = [rings EXCEPT ![k].availIdx = Plus(@, 1)]
    /\ drv' = [drv EXCEPT !.pc = "run", !.owes = @ \cup {k}]
    /\ UNCHANGED <<queues, bufs, pending, intr, inj, sent, got, work>>

Reap(k) ==
    LET d == rings[k].used[drv.lastUsed[k] % QNum]
    IN  /\ drv.pc = "reap" /\ queues[k].ready /\ drv.lastUsed[k] # rings[k].usedIdx
        /\ drv' = [drv EXCEPT !.lastUsed[k] = Plus(@, 1), !.free[k] = @ \cup {d}]
        /\ got' = IF k = "rx" THEN Append(got, bufs[k][d].frame) ELSE got
        /\ UNCHANGED <<queues, rings, bufs, pending, intr, inj, sent, work>>

ReapDone ==
    /\ drv.pc = "reap"
    /\ \A k \in Queue : queues[k].ready => drv.lastUsed[k] = rings[k].usedIdx
    /\ drv' = [drv EXCEPT !.pc = "run"]
    /\ UNCHANGED <<queues, rings, bufs, pending, intr, inj, sent, got, work>>

-----------------------------------------------------------------------------
(* InjectGuestFrame *)

InjectGuestFrame ==
    /\ inj = "idle" /\ work.frames["rx"] > 0
    /\ pending' = Append(pending, work.frames["rx"])
    /\ inj' = "none"
    /\ work' = [work EXCEPT !.frames["rx"] = @ - 1]
    /\ UNCHANGED <<queues, rings, bufs, intr, drv, sent, got>>

\* One turn of the loop of pumpRXLocked.
PumpOne ==
    /\ inj # "idle" /\ queues["rx"].ready /\ Pumped > 0
    /\ PumpRX(1)
    /\ inj' = "delivered"
    /\ UNCHANGED <<intr, drv, sent, got, work>>

\* Deviation: the interrupt is not raised.
Dev_PumpEndSilent ==
    /\ inj # "idle" /\ inj' = "idle"
    /\ queues["rx"].ready => Pumped = 0
    /\ UNCHANGED <<queues, rings, bufs, pending, intr, drv, sent, got, work>>

PumpEnd ==
    /\ inj # "idle" /\ inj' = "idle"
    /\ queues["rx"].ready => Pumped = 0
    /\ intr' = (intr \/ inj = "delivered")
    /\ UNCHANGED <<queues, rings, bufs, pending, drv, sent, got, work>>

-----------------------------------------------------------------------------
Driver ==
    \/ NotifyTX \/ NotifyRX \/ InterruptACK \/ Reset \/ ReapDone
    \/ \E k \in Queue : QueueNotReady(k) \/ QueueReady(k) \/ Publish(k) \/ Reap(k)
    \/ \E kind \in AllTxKinds : PostTX(kind)
    \/ \E kind \in AllRxKinds : PostRX(kind)

Next == Driver \/ InjectGuestFrame \/ PumpOne \/ PumpEnd

Spec == Init /\ [][Next]_vars

\* The guest goes on executing its driver, and a goroutine that is in
\* InjectGuestFrame leaves it.
FairSpec == Spec /\ WF_vars(Driver) /\ WF_vars(PumpOne \/ PumpEnd)

-----------------------------------------------------------------------------
(* Properties. *)

\* Types and ring sizes; the device never runs ahead of what was published.
TypeOK ==
    /\ queues \in [Queue -> [ready : BOOLEAN, lastAvail : Idx]]
    /\ rings \in [Queue -> [avail : [Desc -> Desc], availIdx : Idx,
                            used : [Desc -> Desc], usedIdx : Idx]]
    /\ \A k \in Queue, d \in Desc :
         bufs[k][d] \in [kind : AllTxKinds \cup {"big", "short", "full", "none"}, frame : Nat]
    /\ pending \in Seq(Nat) /\ sent \in Seq(Nat) /\ got \in Seq(Nat)
    /\ intr \in BOOLEAN /\ inj \in {"idle", "none", "delivered"}
    /\ drv \in [pc : {"run", "reap"} \cup Queue, free : [Queue -> SUBSET Desc],
                lastUsed : [Queue -> Idx], owes : SUBSET Queue]
    /\ work \in Workload

\* What the device holds of a queue, and what it has handed back unseen.
Published(k) == {HeadAt(k, i) : i \in 1..Avail(k)}

UnseenAt(k, i) == rings[k].used[Plus(drv.lastUsed[k], i - 1) % QNum]

Unseen(k) == Ahead(rings[k].usedIdx, drv.lastUsed[k])

Returned(k) == {UnseenAt(k, i) : i \in 1..Unseen(k)}

Posting(k) == IF drv.pc = k THEN {rings[k].avail[rings[k].availIdx % QNum]} ELSE {}

\* The state has its types, and every descriptor of a queue in use has one owner:
\* free, being posted, with the device, or handed back.  A wrapped index, a consumed entry that is not
\* returned or one returned twice would break the partition.
OneOwner ==
    /\ TypeOK
    /\ \A k \in Queue : queues[k].ready =>
         /\ Cardinality(drv.free[k]) + Cardinality(Posting(k)) + Avail(k) + Unseen(k) = QNum
         /\ drv.free[k] \cup Posting(k) \cup Published(k) \cup Returned(k) = Desc

\* A driver that serves its interrupts sees every received frame: when neither
\* it nor an injection is under way, a filled buffer it has not seen has the
\* interrupt raised.  (A transmit queue has no such promise: drainTXLocked
\* consumes a header without a frame, and the chains before a fault, silently.)
ReceiveSignalled ==
    drv.pc # "reap" /\ inj = "idle" /\ queues["rx"].ready /\ Unseen("rx") > 0 => intr

\* Received frames: handed back and unseen, then pending.
RX == INSTANCE FrameFIFO WITH
        open <- queues["rx"].ready,
        queue <- (IF queues["rx"].ready
                  THEN [i \in 1..Unseen("rx") |-> bufs["rx"][UnseenAt("rx", i)].frame]
                  ELSE << >>) \o pending,
        delivered <- got

\* Transmitted frames: published and not consumed.
TX == INSTANCE FrameFIFO WITH
        open <- queues["tx"].ready,
        queue <- IF queues["tx"].ready THEN FramesOf(TxChains)[Avail("tx")] ELSE << >>,
        delivered <- sent

\* Both directions implement a FIFO, pumpRXLocked with the driver one of the
\* frames injected and drainTXLocked one of the frames the driver publishes:
\* they arrive in order, none twice, and while a queue stays ready none is lost,
\* through wrapping indices, chains that cannot be read, buffers that are too
\* short and injections that race with posting.  QueueReady = 0 loses the oldest,
\* those handed back and not seen or published and not consumed; a reset all.
KeepsOrder == RX!Spec /\ TX!Spec

\* Frames that wait for a receive buffer all reach the driver, if it posts
\* buffers that are large enough and resets nothing.
FramesArrive ==
    pending # << >> /\ ~work.resets /\ "short" \notin work.rx
      ~> pending = << >> /\ Unseen("rx") = 0
================================================================================
