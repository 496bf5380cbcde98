---------------------------- MODULE EmunetRouter ----------------------------
(***************************************************************************)
(* The leader's core of the emulator network, the tsnetVirtioStack of      *)
(* virtio_net_emunet.go: the ports of the guests with their DHCP leases,   *)
(* and the NAT table that maps the flows of the guests to external ports   *)
(* of the one shared tailnet address.                                      *)
(*                                                                         *)
(* The operators work on a record                                          *)
(*   ports      port id -> [lease, emit]; emit is the circuit (or the      *)
(*              local device) that frames for the port are sent to         *)
(*   nextLease  the allocator of leases, 0 before the first one            *)
(*   natByOut   flow -> [external, idle]; idle is now - lastUsed           *)
(*   natByIn    [proto, external, remote] -> flow, the shared entry        *)
(*   nextNATID  the allocator of external ports, 0 before the first one    *)
(*   hung       the port whose frame made the allocator spin for ever,     *)
(*              with the stack's lock held                                 *)
(* A flow is what the key emunetNATOutKey names: the protocol, the port id,*)
(* the guest's address and port as one endpoint, and the remote's.         *)
(* Packets are reduced to the flow they belong to; headers, checksums and  *)
(* the drop counters are left out.                                         *)
(***************************************************************************)
EXTENDS Naturals, FiniteSets

CONSTANTS
    Ports,          \* port ids: the peer URLs, and the leader's own guest
    Protos,         \* protocols that are translated
    Guests,         \* endpoints of guests
    Remotes,        \* endpoints on the tailnet
    FirstLease,     \* 2 in the code
    LastLease,      \* 254 in the code
    FirstNAT,       \* 40000 in the code
    LastNAT,        \* 60999 in the code
    IdleTimeout     \* for each protocol, how long an idle mapping is kept

ASSUME RouterAssumption ==
    /\ FirstLease \in Nat \ {0} /\ LastLease \in Nat /\ FirstLease <= LastLease
    /\ FirstNAT \in Nat \ {0} /\ LastNAT \in Nat /\ FirstNAT <= LastNAT
    /\ IdleTimeout \in [Protos -> Nat]

Leases == FirstLease..LastLease

Externals == FirstNAT..LastNAT

Flows == [proto : Protos, port : Ports, guest : Guests, remote : Remotes]

InKeys == [proto : Protos, external : Externals, remote : Remotes]

InKey(flow, ext) == [proto |-> flow.proto, external |-> ext, remote |-> flow.remote]

Without(f, S) == [x \in (DOMAIN f) \ S |-> f[x]]

With(f, x, y) == [z \in (DOMAIN f) \cup {x} |-> IF z = x THEN y ELSE f[z]]

Empty == [x \in {} |-> 0]

\* The core as the leader creates it.
NewCore ==
    [ports |-> Empty, nextLease |-> 0,
     natByOut |-> Empty, natByIn |-> Empty, nextNATID |-> 0, hung |-> {}]

-----------------------------------------------------------------------------
(* Ports and leases                                                        *)

\* Deviation: the address after those that are in use.
Dev_LeaseByCount(core) == FirstLease + Cardinality(DOMAIN core.ports)

\* nextLeaseLocked: the next address in turn, whoever may hold it.
NextLease(core) ==
    IF core.nextLease \in Leases THEN core.nextLease ELSE FirstLease

\* emunetPortLocked: the port, created with a lease when it is not there.
\* Every frame that names its sender's hardware address ends up here.
EmunetPort(core, id, emit) ==
    LET fresh == id \notin DOMAIN core.ports
        lease == IF fresh THEN NextLease(core) ELSE core.ports[id].lease
    IN  [core EXCEPT
           !.ports = With(core.ports, id, [lease |-> lease, emit |-> emit]),
           !.nextLease = IF ~fresh THEN @
                         ELSE IF lease = LastLease THEN FirstLease ELSE lease + 1]

\* Deviation: mappings stay in the map of the inbound packets.
Dev_DropOutOnly(core, gone) == [core EXCEPT !.natByOut = Without(@, gone)]

\* Mappings leave both maps together.
DropFlows(core, gone) ==
    [core EXCEPT
       !.natByOut = Without(@, gone),
       !.natByIn = Without(@, {InKey(f, core.natByOut[f].external) :
                                 f \in gone \cap DOMAIN core.natByOut})]

RemoveEmunetPort(core, id) ==
    [DropFlows(core, {f \in DOMAIN core.natByOut : f.port = id})
       EXCEPT !.ports = Without(@, {id})]

-----------------------------------------------------------------------------
(* Address translation                                                     *)

\* Deviation: a mapping goes when its idle time is reached, not passed.
Dev_CleanupEarly(core) ==
    DropFlows(core, {f \in DOMAIN core.natByOut :
                       core.natByOut[f].idle >= IdleTimeout[f.proto]})

\* Deviation: nothing expires.
Dev_NoCleanup(core) == core

\* cleanupExpiredNATLocked, which every translation runs first.
CleanupExpiredNAT(core) ==
    DropFlows(core, {f \in DOMAIN core.natByOut :
                       core.natByOut[f].idle > IdleTimeout[f.proto]})

Touch(core, flow) == [core EXCEPT !.natByOut[flow].idle = 0]

FreeExternals(core) ==
    Externals \ {k.external : k \in DOMAIN core.natByIn}

\* nextNATLocked: the first free external port in turn.
Turn(core, ext) ==
    LET first == IF core.nextNATID \in Externals THEN core.nextNATID ELSE FirstNAT
        size == LastNAT - FirstNAT + 1
    IN  (ext + size - first) % size

NextNAT(core) ==
    CHOOSE ext \in FreeExternals(core) :
        \A other \in FreeExternals(core) : Turn(core, ext) <= Turn(core, other)

\* natExternalLocked. With no external port free its loop never ends.
NATExternal(core, flow) ==
    LET clean == CleanupExpiredNAT(core)
        ext == NextNAT(clean)
    IN  IF flow \in DOMAIN clean.natByOut
        THEN Touch(clean, flow)
        ELSE IF FreeExternals(clean) = {}
        THEN [clean EXCEPT !.hung = {flow.port}]
        ELSE [clean EXCEPT
                !.natByOut = With(@, flow, [external |-> ext, idle |-> 0]),
                !.natByIn = With(@, InKey(flow, ext), flow),
                !.nextNATID = IF ext = LastNAT THEN FirstNAT ELSE ext + 1]

\* natInbound: the mapping a packet from the tailnet finds, and its use.
NATInbound(core, key) ==
    LET clean == CleanupExpiredNAT(core)
    IN  IF key \in DOMAIN clean.natByIn THEN Touch(clean, clean.natByIn[key]) ELSE clean

\* The flow whose guest the packet is handed to; none when there is no
\* mapping, or when the port is gone.
ReplyFlows(core, key) ==
    LET clean == CleanupExpiredNAT(core)
    IN  {f \in Flows : /\ key \in DOMAIN clean.natByIn
                       /\ f = clean.natByIn[key]
                       /\ f.port \in DOMAIN clean.ports}

\* Every external port belongs to a flow, and none of the flows has been idle
\* for longer than its protocol allows.
FullOfUsedFlows(c) ==
    /\ FreeExternals(c) = {}
    /\ ~\E f \in DOMAIN c.natByOut : c.natByOut[f].idle > IdleTimeout[f.proto]

\* Time passes for the idle mappings. An age past the longest timeout is as
\* good as any other.
Older(age, limit) == IF age > limit THEN age ELSE age + 1

Age(core) ==
    LET aged(f) == [core.natByOut[f] EXCEPT !.idle = Older(@, IdleTimeout[f.proto])]
    IN  [core EXCEPT !.natByOut = [f \in DOMAIN core.natByOut |-> aged(f)]]
=============================================================================
