------------------------------- MODULE MCSockets -------------------------------
(* Instance of Jea9Sockets for TLC. *)
EXTENDS Jea9Sockets

CONSTANTS t1, t2, c1, c2

Guest(threads, conns, bytes, calls) ==
    [et : BOOLEAN, threads : {threads}, sockets : {1}, conns : {conns},
     bytes : {bytes}, fins : {bytes > 0}, calls : {calls}]

\* A server with one client that sends and closes, and waits with a deadline.
OneClient == Guest({t1}, {c1}, 2, {"listen", "close", "timed"})

\* One thread waits while another makes the calls.
TwoThreads == Guest({t1, t2}, {c1}, 2, {"listen", "write", "timed"})

\* Two clients of a listener that may be closed under them.
TwoClients == Guest({t1}, {c1, c2}, 0, {"listen", "close"})

\* Two clients that send and close.
TwoStreams == {w \in Guest({t1}, {c1, c2}, 1, {"listen"}) : w.et}

\* A client of a peer that sends more than it reads at once.
Client == Guest({t1}, {c1}, 2, {"connect", "write", "shutdown", "close", "mod", "poll"})

MCWorkloads == OneClient \cup TwoThreads \cup TwoClients \cup TwoStreams \cup Client
================================================================================
