------------------------------ MODULE MCEmunet ------------------------------
(***************************************************************************)
(* Small instances of the emulator network.                                *)
(***************************************************************************)
EXTENDS Emunet, TLC

CONSTANTS n1, n2, n3, udp, icmp, g1, g2, r1

MCTimeout == (udp :> 2) @@ (icmp :> 1)

Quiet == [nodes |-> {}, leader |-> None, starts |-> 0, crashes |-> 0,
          coreErrors |-> 0, closes |-> 0, breaks |-> 0, frames |-> [n \in Nodes |-> {}],
          time |-> FALSE, watch |-> None]

Pair == [Quiet EXCEPT !.nodes = {n1, n2}, !.leader = n1]

Content(proto, guest) == [proto |-> proto, guest |-> guest, remote |-> r1]

\* Processes start in any order, and fail.
Failover == [Quiet EXCEPT !.starts = 3, !.crashes = 2]

\* A process fails to start its core.
NoCoreYet == [Quiet EXCEPT !.starts = 2, !.crashes = 1, !.coreErrors = 1]

\* The circuit between a follower and the leader fails, and is replaced,
\* while both guests send.
Reconnect ==
    [Pair EXCEPT !.breaks = 1, !.frames[n2] = {None, Content(udp, g1)},
                 !.frames[n1] = {None},
                 !.watch = FlowOf(Content(udp, g1), n2)]

\* The follower is cut off twice: with the port of the leader's own guest that
\* makes more ports than there are leases.
Rejoin == [Pair EXCEPT !.breaks = 2, !.frames[n1] = {None}, !.frames[n2] = {None}]

\* One guest has more flows than there are external ports.
Translate ==
    [Quiet EXCEPT !.nodes = {n1}, !.leader = n1, !.time = TRUE,
                  !.frames[n1] = {None} \cup {Content(p, g) : p \in Protos, g \in Guests},
                  !.watch = FlowOf(Content(udp, g1), Local)]

\* A stack is closed, at any moment.
Closing == [Pair EXCEPT !.crashes = 1, !.closes = 1]

EmunetWorkloads == {Failover, NoCoreYet, Reconnect, Rejoin, Translate, Closing}

ClosingOnly == {Closing}
=============================================================================
