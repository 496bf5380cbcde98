------------------------------- MODULE Emunet -------------------------------
(***************************************************************************)
(* The emulator network of virtio_net_stack_tsnet.go: emulator processes   *)
(* on one host elect a leader, the process that owns the rendezvous        *)
(* listener, and the others send the frames of their guests to it over     *)
(* circuits. A follower's watchdog keeps trying to take the listener over, *)
(* and looks up the leader when it cannot.                                 *)
(*                                                                         *)
(* Threads of a process that interleave here: its constructor and then its *)
(* watchdog (pc), the reader of circuit events, and the guest's sends. A   *)
(* process that restarts has a new peer URL, so it is another node.        *)
(* The circuits are the library's (rpc25519): either end of a circuit that *)
(* fails sees an error event or nothing at all, because readCircuit drops  *)
(* its event when the circuit's context is done.  Its other error, for a   *)
(* message it cannot decode, does not occur while all peers run this       *)
(* program.                                                                *)
(***************************************************************************)
EXTENDS EmunetRouter, Sequences

CONSTANTS
    Nodes,          \* processes, named by their peer URLs
    Local,          \* the port id of the leader's own guest
    None,
    MaxCircuits,    \* bound: circuits that a node opens
    MaxReads,       \* bound: messages in flight on a circuit
    Workloads       \* what happens in a behaviour, chosen at the start

ASSUME EmunetAssumption ==
    /\ Ports = Nodes \cup {Local}
    /\ None \notin Nodes /\ Local \notin Nodes /\ None # Local
    /\ MaxCircuits \in Nat /\ MaxReads \in Nat
    /\ \A w \in Workloads : w.nodes \subseteq Nodes

VARIABLES
    work,       \* the workload: faults that are left, frames that guests send
    pc,         \* where the constructor or the watchdog of each node is
    booting,    \* newEmunetVirtioStack has not returned yet
    closed,     \* Close of the stack: "no", "closing" while it runs, "yes"
    role,       \* the stack's role
    holder,     \* the node whose socket is bound to the rendezvous address
    serving,    \* the DNS server answers on that socket
    found,      \* the leader URL that a lookup returned
    opened,     \* the circuit that Connect returned
    leaderCkt, leaderURL,
    known,      \* followerURLs
    byCircuit,  \* followerByCircuit
    core,       \* leaderCore
    live,       \* circuits that work at both ends
    reads,      \* circuit -> messages on the way to the node it was opened to
    errors,     \* error events that wait for their node, <<node, circuit>>
    circuits,   \* how many circuits each node has opened
    sending,    \* the circuit that a guest's send has read
    lastUse,    \* of the watched flow: its external port, and how long ago
    issued      \* how many leases the core of each node has given out

vars == <<work, pc, booting, closed, role, holder, serving, found, opened,
          leaderCkt, leaderURL, known, byCircuit, core, live, reads, errors,
          circuits, sending, lastUse, issued>>

thread == <<pc, booting, closed, role, found, opened>>
rendezvous == <<holder, serving>>
leader == <<leaderCkt, leaderURL>>
router == <<core, lastUse, issued>>
network == <<live, reads, errors, circuits>>

Circuits == [from : Nodes, to : Nodes, nr : 1..MaxCircuits]

\* A process that runs and whose node has not been closed.
Up(n) == pc[n] \notin {"off", "dead"} /\ closed[n] = "no"

\* Its peer answers until the last step of Close.
Reachable(n) == Up(n) \/ closed[n] = "closing"

NoCore == [hung |-> {}]

Hello == [kind |-> "hello", content |-> None]

Frame(content) == [kind |-> "frame", content |-> content]

IsLeader(n) == role[n] = "leader" /\ Up(n)

-----------------------------------------------------------------------------
(* Circuits                                                                *)

\* The circuits cs fail. Each end that is left is told, or is not; what was
\* not read yet still arrives, or does not.
Sever(cs, survivors) ==
    LET ends == {<<n, c>> : n \in survivors, c \in cs \cap live}
    IN  /\ live' = live \ cs
        /\ \E told \in SUBSET {e \in ends : e[1] \in {e[2].from, e[2].to}} :
              errors' = {e \in errors : e[1] \in survivors} \cup told
        /\ \E kept \in SUBSET (cs \cap DOMAIN reads) :
              reads' = [c \in DOMAIN reads |->
                          IF c.to \notin survivors \/ c \in cs \ kept
                          THEN <<>> ELSE reads[c]]

CircuitOf(n) == IF leaderCkt[n] = None THEN {} ELSE {leaderCkt[n]}

\* Deviation: whichever circuit the error belongs to.
Dev_AnyCircuitLost(n, c) ==
    /\ leaderCkt' = [leaderCkt EXCEPT ![n] = IF role[n] = "follower" THEN None ELSE @]
    /\ leaderURL' = [leaderURL EXCEPT ![n] = IF role[n] = "follower" THEN None ELSE @]

\* noteLeaderCircuitLost
NoteLeaderCircuitLost(n, c) ==
    IF role[n] = "follower" /\ leaderCkt[n] = c
    THEN /\ leaderCkt' = [leaderCkt EXCEPT ![n] = None]
         /\ leaderURL' = [leaderURL EXCEPT ![n] = None]
    ELSE UNCHANGED <<leaderCkt, leaderURL>>

-----------------------------------------------------------------------------
(* The constructor and the watchdog                                        *)

\* newEmunetVirtioStack: the node has its peer and reads events.
Start(n) ==
    /\ pc[n] = "off" /\ work.starts > 0
    /\ work' = [work EXCEPT !.starts = @ - 1]
    /\ pc' = [pc EXCEPT ![n] = "listen"]
    /\ booting' = [booting EXCEPT ![n] = TRUE]
    /\ UNCHANGED <<closed, role, found, opened, rendezvous, leader, known,
                   byCircuit, router, network, sending>>

\* An attempt failed: the constructor gives up and closes the stack, the
\* watchdog waits for its next tick.
Failed(n) ==
    pc' = [pc EXCEPT ![n] = IF booting[n] \/ closed[n] # "no" THEN "dead" ELSE "listen"]

\* Deviation: the address can be bound although another process has it.
Dev_SharedListen(n) ==
    /\ pc[n] = "listen"
    /\ holder' = n /\ pc' = [pc EXCEPT ![n] = "promote"]
    /\ UNCHANGED <<work, booting, closed, role, found, opened, serving, leader,
                   known, byCircuit, router, network, sending>>

\* ListenRendezvous
Listen(n) ==
    /\ pc[n] = "listen"
    /\ IF holder = None
       THEN holder' = n /\ pc' = [pc EXCEPT ![n] = "promote"]
       ELSE holder' = holder /\ pc' = [pc EXCEPT ![n] = "lookup"]
    /\ UNCHANGED <<work, booting, closed, role, found, opened, serving, leader,
                   known, byCircuit, router, network, sending>>

\* Deviation: a follower that was not told of its circuit's end stays with it.
Dev_LookupKeepsCircuit(n) ==
    /\ pc[n] = "lookup" /\ (serving \/ holder = None)
    /\ found' = [found EXCEPT ![n] = holder]
    /\ IF holder = None THEN Failed(n)
       ELSE pc' = [pc EXCEPT ![n] = IF booting[n] \/ leaderCkt[n] = None
                                    THEN "connect" ELSE "listen"]
    /\ UNCHANGED <<work, booting, closed, role, opened, rendezvous, leader,
                   known, byCircuit, router, network, sending>>

\* LookupDNS waits on a leader that does not serve yet, and fails when
\* nobody listens. shouldConnectToDNSLeader decides for the watchdog.
LookupDNS(n) ==
    /\ pc[n] = "lookup" /\ (serving \/ holder = None)
    /\ found' = [found EXCEPT ![n] = holder]
    /\ IF holder = None THEN Failed(n)
       ELSE pc' = [pc EXCEPT ![n] =
                     IF booting[n] \/ leaderCkt[n] = None \/ leaderURL[n] # holder
                     THEN "connect" ELSE "listen"]
    /\ UNCHANGED <<work, booting, closed, role, opened, rendezvous, leader,
                   known, byCircuit, router, network, sending>>

\* Node.Connect: a circuit to the leader that was found, with the hello.
Connect(n) ==
    /\ pc[n] = "connect"
    /\ IF Reachable(found[n])
       THEN LET c == [from |-> n, to |-> found[n], nr |-> circuits[n] + 1]
            IN  /\ circuits[n] < MaxCircuits
                /\ circuits' = [circuits EXCEPT ![n] = @ + 1]
                /\ live' = live \cup {c}
                /\ reads' = With(reads, c, <<Hello>>)
                /\ opened' = [opened EXCEPT ![n] = c]
                /\ pc' = [pc EXCEPT ![n] = "adopt"]
       ELSE Failed(n) /\ UNCHANGED <<circuits, live, reads, opened>>
    /\ UNCHANGED <<work, booting, closed, role, found, rendezvous, leader,
                   known, byCircuit, router, errors, sending>>

\* Deviation: the URL of the leader before is kept.
Dev_AdoptKeepsURL(n) ==
    /\ pc[n] = "adopt"
    /\ leaderCkt' = [leaderCkt EXCEPT ![n] = opened[n]]
    /\ leaderURL' = [leaderURL EXCEPT ![n] = IF @ = None THEN found[n] ELSE @]
    /\ role' = [role EXCEPT ![n] = "follower"]
    /\ booting' = [booting EXCEPT ![n] = FALSE]
    /\ pc' = [pc EXCEPT ![n] = "listen"]
    /\ Sever(CircuitOf(n), {m \in Nodes : Up(m)})
    /\ UNCHANGED <<work, closed, found, opened, rendezvous, known, byCircuit,
                   router, circuits, sending>>

\* connectToLeader records the circuit, and closes the one it replaces.
Adopt(n) ==
    /\ pc[n] = "adopt"
    /\ leaderCkt' = [leaderCkt EXCEPT ![n] = opened[n]]
    /\ leaderURL' = [leaderURL EXCEPT ![n] = found[n]]
    /\ role' = [role EXCEPT ![n] = "follower"]
    /\ booting' = [booting EXCEPT ![n] = FALSE]
    /\ pc' = [pc EXCEPT ![n] = "listen"]
    /\ Sever(CircuitOf(n), {m \in Nodes : Up(m)})
    /\ UNCHANGED <<work, closed, found, opened, rendezvous, known, byCircuit,
                   router, circuits, sending>>

\* promoteToLeader starts the core, and the DNS server on the listener.
StartCore(n) ==
    /\ pc[n] = "promote"
    /\ serving' = TRUE
    /\ pc' = [pc EXCEPT ![n] = "publish"]
    /\ UNCHANGED <<work, booting, closed, role, found, opened, holder, leader,
                   known, byCircuit, router, network, sending>>

\* ... or the core does not start, and the listener is given back.
CoreFails(n) ==
    /\ pc[n] = "promote" /\ work.coreErrors > 0
    /\ work' = [work EXCEPT !.coreErrors = @ - 1]
    /\ holder' = None
    /\ Failed(n)
    /\ UNCHANGED <<booting, closed, role, found, opened, serving, leader,
                   known, byCircuit, router, network, sending>>

\* ... and then makes the node the leader for its other threads. The
\* watchdog returns.
Publish(n) ==
    /\ pc[n] = "publish"
    /\ role' = [role EXCEPT ![n] = "leader"]
    /\ leaderCkt' = [leaderCkt EXCEPT ![n] = None]
    /\ leaderURL' = [leaderURL EXCEPT ![n] = n]
    /\ core' = [core EXCEPT ![n] = NewCore]
    /\ booting' = [booting EXCEPT ![n] = FALSE]
    /\ pc' = [pc EXCEPT ![n] = "idle"]
    /\ Sever(CircuitOf(n), {m \in Nodes : Up(m)})
    /\ UNCHANGED <<work, closed, found, opened, rendezvous, known, byCircuit,
                   lastUse, issued, circuits, sending>>

Watchdog(n) ==
    \/ Listen(n) \/ LookupDNS(n) \/ Connect(n) \/ Adopt(n)
    \/ StartCore(n) \/ CoreFails(n) \/ Publish(n)

-----------------------------------------------------------------------------
(* Faults                                                                  *)

\* What a node that ends leaves behind.
Ends(n) ==
    /\ core' = [core EXCEPT ![n] = NoCore]
    /\ Sever({c \in live : n \in {c.from, c.to}}, {m \in Nodes \ {n} : Up(m)})
    /\ UNCHANGED <<booting, role, found, opened, leader, known, byCircuit,
                   issued, circuits, sending>>

\* The process ends, and the system closes its sockets.
Crash(n) ==
    /\ Up(n) /\ work.crashes > 0
    /\ work' = [work EXCEPT !.crashes = @ - 1]
    /\ pc' = [pc EXCEPT ![n] = "dead"]
    /\ holder' = IF holder = n THEN None ELSE holder
    /\ serving' = (serving /\ holder # n)
    /\ lastUse' = IF role[n] = "leader" THEN None ELSE lastUse
    /\ Ends(n)
    /\ UNCHANGED closed

\* Close looks at what the stack holds one field after the other, without its
\* lock. First the context of its threads is done, which ends the watchdog, and
\* the circuit to the leader and the DNS server are closed. A promotion that is
\* under way does not look at the context; it holds the listener and the new
\* core, and the stack does not know of them yet. (A promotion that is published
\* before the server is looked at leaves what one before the call does.)
Close(n) ==
    /\ Up(n) /\ ~booting[n] /\ work.closes > 0
    /\ work' = [work EXCEPT !.closes = @ - 1]
    /\ closed' = [closed EXCEPT ![n] = "closing"]
    /\ pc' = [pc EXCEPT ![n] = IF @ \in {"promote", "publish"} THEN @ ELSE "dead"]
    /\ holder' = IF holder = n /\ role[n] = "leader" THEN None ELSE holder
    /\ serving' = (serving /\ holder' = holder)
    /\ lastUse' = IF role[n] = "leader" THEN None ELSE lastUse
    /\ Sever(CircuitOf(n), {m \in Nodes \ {n} : Up(m)})
    /\ UNCHANGED <<booting, role, found, opened, leader, known, byCircuit, core,
                   issued, circuits, sending>>

\* Then the core is closed, if there is one by now, and the node.
CloseCore(n) ==
    /\ closed[n] = "closing"
    /\ closed' = [closed EXCEPT ![n] = "yes"]
    /\ Ends(n)
    /\ UNCHANGED <<work, pc, rendezvous, lastUse>>

\* A circuit fails between two processes that both run on.
Break(c) ==
    /\ c \in live /\ work.breaks > 0
    /\ work' = [work EXCEPT !.breaks = @ - 1]
    /\ Sever({c}, {m \in Nodes : Up(m)})
    /\ UNCHANGED <<thread, rendezvous, leader, known, byCircuit, router,
                   circuits, sending>>

-----------------------------------------------------------------------------
(* Frames and events. A frame's content is None when it is for the network *)
(* of the guests itself (DHCP, ARP, another guest) and names its sender's  *)
(* hardware address; else it is what a flow is, but for the port.          *)

FlowOf(content, port) ==
    [proto |-> content.proto, port |-> port, guest |-> content.guest, remote |-> content.remote]

\* handleGuestFrameForPort
HandleGuestFrame(n, port, emit, content) ==
    /\ core[n].hung = {}
    /\ IF content = None
       THEN LET next == EmunetPort(core[n], port, emit)
            IN  /\ core' = [core EXCEPT ![n] = next]
                /\ issued' = [issued EXCEPT ![n] =
                                IF port \in DOMAIN core[n].ports \/ @ > Cardinality(Leases)
                                THEN @ ELSE @ + 1]
                /\ lastUse' = lastUse
       ELSE LET flow == FlowOf(content, port)
                next == NATExternal(core[n], flow)
            IN  /\ core' = [core EXCEPT ![n] = next]
                /\ lastUse' = IF flow = work.watch /\ next.hung = {}
                              THEN [external |-> next.natByOut[flow].external, age |-> 0]
                              ELSE lastUse
                /\ issued' = issued

\* InjectInboundPacket: the leader handles the frame itself, a follower reads
\* which circuit it has and sends on it once the lock is released.
GuestSends(n, content) ==
    /\ Up(n) /\ content \in work.frames[n]
    /\ \/ /\ core[n] # NoCore
          /\ HandleGuestFrame(n, Local, Local, content)
          /\ UNCHANGED sending
       \/ /\ core[n] = NoCore /\ leaderCkt[n] # None /\ sending[n] = None
          /\ sending' = [sending EXCEPT ![n] = [ckt |-> leaderCkt[n], content |-> content]]
          /\ UNCHANGED router
    /\ UNCHANGED <<work, thread, rendezvous, leader, known, byCircuit, network>>

GuestSent(n) ==
    /\ Up(n) /\ sending[n] # None
    /\ LET c == sending[n].ckt
       IN  IF c \in live
           THEN /\ Len(reads[c]) < MaxReads
                /\ reads' = [reads EXCEPT ![c] = Append(@, Frame(sending[n].content))]
                /\ UNCHANGED leader
           ELSE NoteLeaderCircuitLost(n, c) /\ UNCHANGED reads
    /\ sending' = [sending EXCEPT ![n] = None]
    /\ UNCHANGED <<work, thread, rendezvous, known, byCircuit, router, live,
                   errors, circuits>>

\* handleEmunetMessage. A node that has no core yet takes a frame for one of
\* its own guest.
HandleMessage(c) ==
    /\ c \in DOMAIN reads /\ Up(c.to) /\ reads[c] # <<>>
    /\ core[c.to].hung \subseteq {Local}
    /\ reads' = [reads EXCEPT ![c] = Tail(@)]
    /\ IF Head(reads[c]).kind = "hello"
       THEN /\ known' = [known EXCEPT ![c.to] = @ \cup {c.from}]
            /\ byCircuit' = [byCircuit EXCEPT ![c.to] = @ \cup {c}]
            /\ UNCHANGED router
       ELSE /\ IF core[c.to] = NoCore THEN UNCHANGED router
               ELSE HandleGuestFrame(c.to, c.from, c, Head(reads[c]).content)
            /\ UNCHANGED <<known, byCircuit>>
    /\ UNCHANGED <<work, thread, rendezvous, leader, live, errors, circuits, sending>>

\* forgetFollowerCircuit
ForgetFollowerCircuit(n, c) ==
    /\ byCircuit' = [byCircuit EXCEPT ![n] = @ \ {c}]
    /\ IF c \in byCircuit[n]
       THEN /\ core[n].hung = {}
            /\ known' = [known EXCEPT ![n] = @ \ {c.from}]
            /\ core' = [core EXCEPT ![n] = RemoveEmunetPort(@, c.from)]
            /\ lastUse' = IF work.watch # None /\ work.watch.port = c.from THEN None ELSE lastUse
       ELSE UNCHANGED <<known, core, lastUse>>

\* handleEmunetCircuitError
HandleCircuitError(n, c) ==
    /\ Up(n) /\ <<n, c>> \in errors
    /\ core[n].hung \subseteq {Local}
    /\ errors' = errors \ {<<n, c>>}
    /\ IF role[n] = "leader"
       THEN ForgetFollowerCircuit(n, c) /\ UNCHANGED leader
       ELSE NoteLeaderCircuitLost(n, c) /\ UNCHANGED <<known, byCircuit, core, lastUse>>
    /\ UNCHANGED <<work, thread, rendezvous, issued, live, reads, circuits, sending>>

\* handleTsnetPacket: a packet from the tailnet is translated and sent to the
\* port that the mapping names.
HandleTsnetPacket(n, key) ==
    /\ work.time /\ IsLeader(n) /\ core[n].hung = {}
    /\ core' = [core EXCEPT ![n] = NATInbound(@, key)]
    /\ lastUse' = IF /\ lastUse # None
                     /\ key = InKey(work.watch, lastUse.external)
                     /\ key \in DOMAIN core'[n].natByIn
                     /\ core'[n].natByIn[key] = work.watch
                  THEN [lastUse EXCEPT !.age = 0] ELSE lastUse
    /\ UNCHANGED <<work, thread, rendezvous, leader, known, byCircuit, issued,
                   network, sending>>

\* Time passes. The table of a core whose lock is never released again is
\* left as it is.
Tick ==
    /\ work.time
    /\ core' = [n \in Nodes |-> IF core[n] = NoCore \/ core[n].hung # {} THEN core[n]
                                ELSE Age(core[n])]
    /\ lastUse' = IF lastUse = None THEN None
                  ELSE [lastUse EXCEPT !.age = Older(@, IdleTimeout[work.watch.proto])]
    /\ UNCHANGED <<work, thread, rendezvous, leader, known, byCircuit, issued,
                   network, sending>>

-----------------------------------------------------------------------------
\* Before any process runs, or with a leader and its followers in place.
Init ==
    /\ work \in Workloads
    /\ LET followers == work.nodes \ {work.leader}
           line(n) == [from |-> n, to |-> work.leader, nr |-> 1]
       IN  /\ pc = [n \in Nodes |-> IF n \in followers THEN "listen"
                                    ELSE IF n = work.leader THEN "idle" ELSE "off"]
           /\ role = [n \in Nodes |-> IF n \in followers THEN "follower"
                                      ELSE IF n = work.leader THEN "leader" ELSE "none"]
           /\ holder = work.leader
           /\ serving = (work.leader # None)
           /\ leaderCkt = [n \in Nodes |-> IF n \in followers THEN line(n) ELSE None]
           /\ leaderURL = [n \in Nodes |-> IF n \in work.nodes THEN work.leader ELSE None]
           /\ known = [n \in Nodes |-> IF n = work.leader THEN followers ELSE {}]
           /\ byCircuit = [n \in Nodes |->
                             IF n = work.leader THEN {line(f) : f \in followers} ELSE {}]
           /\ core = [n \in Nodes |-> IF n = work.leader THEN NewCore ELSE NoCore]
           /\ live = {line(f) : f \in followers}
           /\ reads = [c \in live |-> <<>>]
           /\ circuits = [n \in Nodes |-> IF n \in followers THEN 1 ELSE 0]
    /\ booting = [n \in Nodes |-> FALSE]
    /\ closed = [n \in Nodes |-> "no"]
    /\ found = [n \in Nodes |-> None]
    /\ opened = [n \in Nodes |-> None]
    /\ errors = {}
    /\ sending = [n \in Nodes |-> None]
    /\ lastUse = None
    /\ issued = [n \in Nodes |-> 0]

\* readEmunetEvents
EventReader(n) ==
    \/ \E c \in DOMAIN reads : c.to = n /\ HandleMessage(c)
    \/ \E e \in errors : e[1] = n /\ HandleCircuitError(n, e[2])

Next ==
    \/ \E n \in Nodes :
          \/ Start(n) \/ Watchdog(n) \/ EventReader(n) \/ Crash(n) \/ Close(n) \/ CloseCore(n)
          \/ \E content \in work.frames[n] : GuestSends(n, content)
          \/ GuestSent(n)
          \/ \E key \in InKeys : HandleTsnetPacket(n, key)
    \/ \E c \in live : Break(c)
    \/ Tick

Spec == Init /\ [][Next]_vars

\* The watchdog and the event reader of a process that runs get on with
\* their work. Nothing is assumed of the guests.
Fairness ==
    \A n \in Nodes : WF_vars(Watchdog(n)) /\ WF_vars(EventReader(n))

FairSpec == Spec /\ Fairness

-----------------------------------------------------------------------------
(* Properties                                                              *)

\* The state has the shape the code gives it: a follower's circuit is one it
\* opened, and to the leader it names; only a leader has a core.
TypeOK ==
    /\ pc \in [Nodes -> {"off", "listen", "lookup", "connect", "adopt",
                         "promote", "publish", "idle", "dead"}]
    /\ booting \in [Nodes -> BOOLEAN] /\ closed \in [Nodes -> {"no", "closing", "yes"}]
    /\ role \in [Nodes -> {"none", "follower", "leader"}]
    /\ holder \in Nodes \cup {None} /\ serving \in BOOLEAN
    /\ found \in [Nodes -> Nodes \cup {None}]
    /\ live \subseteq DOMAIN reads /\ DOMAIN reads \subseteq Circuits
    /\ \A c \in DOMAIN reads : reads[c] \in Seq({Hello} \cup {Frame(x) : x \in work.frames[c.from]})
    /\ errors \subseteq Nodes \X DOMAIN reads
    /\ \A n \in Nodes :
          /\ opened[n] \in {None} \cup {c \in Circuits : c.from = n}
          /\ leaderCkt[n] # None => /\ leaderCkt[n] \in Circuits
                                    /\ leaderCkt[n].from = n
                                    /\ leaderCkt[n].to = leaderURL[n]
          /\ known[n] \subseteq Nodes /\ byCircuit[n] \subseteq {c \in Circuits : c.to = n}
          /\ core[n] # NoCore => role[n] = "leader"
          /\ sending[n] # None => sending[n].ckt \in Circuits
    /\ issued \in [Nodes -> 0..(Cardinality(Leases) + 1)]

\* "One source of truth for leadership: ownership of the emunet listen socket"
\* (plans/PLAN120_one_proxy_leader.md). A process that acts as the leader owns
\* the rendezvous socket, from the start of its core until it ends, however
\* promotions, failed promotions and crashes interleave: there are never two.
LeaderOwnsRendezvous ==
    \A n \in Nodes :
        /\ IsLeader(n) => holder = n /\ serving
        /\ pc[n] \in {"promote", "publish"} => holder = n

\* n keeps its circuit to the leader, or that circuit has failed, or n turns to
\* another leader or leads.
LetsGoForAReason(n) ==
    leaderCkt[n] # None /\ leaderCkt'[n] # leaderCkt[n]
      => \/ leaderCkt[n] \notin live
         \/ role'[n] = "leader"
         \/ leaderURL'[n] \notin {None, leaderURL[n]}

\* A follower lets go of its circuit to the leader only when that circuit has
\* failed, or to follow another leader, or to lead. An error that belongs to
\* an older circuit, or a send that had read the older circuit before it was
\* replaced, must not cost it the new one.
GoodCircuitKept == [][\A n \in Nodes : LetsGoForAReason(n)]_vars

\* Both maps of the NAT table describe the same flows, and no two flows share
\* an external port: a packet from the tailnet is handed to the one guest that
\* has the port, after any sequence of translations, expiries, removals of
\* ports and wraps of the allocator.
NATConsistent(c) ==
    /\ \A f \in DOMAIN c.natByOut :
          LET key == InKey(f, c.natByOut[f].external)
          IN  key \in DOMAIN c.natByIn /\ c.natByIn[key] = f
    /\ \A key \in DOMAIN c.natByIn :
          /\ c.natByIn[key] \in DOMAIN c.natByOut
          /\ c.natByOut[c.natByIn[key]].external = key.external
    /\ \A f, g \in DOMAIN c.natByOut :
          c.natByOut[f].external = c.natByOut[g].external => f = g

NATTablesAgree == \A n \in Nodes : core[n] # NoCore => NATConsistent(core[n])

\* As long as a flow was used, in either direction, within the idle time of
\* its protocol, and its port was not removed, a reply from the tailnet
\* reaches the guest that sent it, and no other.
FlowKept ==
    \A n \in Nodes :
        /\ IsLeader(n) /\ lastUse # None
        /\ lastUse.age <= IdleTimeout[work.watch.proto]
        /\ work.watch.port \in DOMAIN core[n].ports
        => ReplyFlows(core[n], InKey(work.watch, lastUse.external)) = {work.watch}

\* The search for an external port ends unless all of them belong to flows
\* that were used within their idle times: idle mappings never starve a new
\* flow.
SpinsOnlyWhenFull == \A n \in Nodes : core[n].hung # {} => FullOfUsedFlows(core[n])

\* Two guests have the same address only after the allocator has gone through
\* all of its addresses.
LeasesDistinct ==
    \A n \in Nodes :
        core[n] # NoCore /\ issued[n] <= Cardinality(Leases) =>
            \A p, q \in DOMAIN core[n].ports :
                core[n].ports[p].lease = core[n].ports[q].lease => p = q

\* A stack whose Close has returned does not come back as the leader: "leader tsnet
\* starts after closed follower = %d, want 0" (TestEmunetFollowerCloseStops-
\* WatchDogPromotion).
CloseStopsPromotion ==
    \A n \in Nodes : closed[n] = "yes" => core[n] = NoCore

\* One of the processes that run is the leader, all the others have a circuit
\* to it that works, and it knows them.
Settled ==
    LET running == {n \in Nodes : Up(n)}
    IN  running # {} =>
          \E m \in running :
              /\ role[m] = "leader"
              /\ \A n \in running \ {m} :
                    /\ role[n] = "follower"
                    /\ leaderCkt[n] \in live /\ leaderCkt[n].to = m
                    /\ n \in known[m]

\* When the processes stop failing, an election ends: one of those that run
\* becomes the leader and stays connected with all the others, whatever the
\* watchdogs (runFollowerWatchDog) and the readers of events met on the way.
FailoverCompletes ==
    (work.breaks = 0 /\ work.closes = 0 /\ \A n \in Nodes : work.frames[n] = {}) => <>[]Settled
=============================================================================
