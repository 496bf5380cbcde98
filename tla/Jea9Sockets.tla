------------------------------ MODULE Jea9Sockets ------------------------------
(***************************************************************************)
(* Guest TCP sockets in real time (jea9linux_socket.go): goroutines accept *)
(* connections and read from them on the host and send what they find over *)
(* the channel externalEvents; the emulator's goroutine, which runs the    *)
(* guest, drains the channel between slices and when the guest blocks.     *)
(*                                                                         *)
(* The guest is one process with an epoll instance in which it registers   *)
(* its sockets; any runnable thread may run, as quanta may expire anywhere *)
(* (Jea9Sched says which does).  Its buffers are mapped, except accept4's. *)
(* Descriptor numbers are not reused without dup3, which is left out, so   *)
(* the socket generation an event carries says no more than its number.    *)
(***************************************************************************)
EXTENDS Integers, FiniteSets, SequencesExt

CONSTANTS
    NFDs,        \* sockets a run may create; descriptors are 1..NFDs
    Conns,       \* TCP connections a run may see
    NoConn,
    Threads,     \* guest threads; they are interchangeable
    MaxBytes,    \* bytes a peer sends over one connection
    ChanCap,     \* capacity of externalEvents
    Workloads    \* what the guests of a run do: see Workload

FDs == 1..NFDs

\* et: the guest registers its sockets edge triggered; calls: what it calls apart
\* from socket, read and epoll; sockets: the numbers it makes sockets for, the
\* others being accepted; conns, bytes of each and fins: what its peers do.
Workload ==
    [et : BOOLEAN, threads : SUBSET Threads, sockets : FDs,
     conns : SUBSET Conns, bytes : 0..MaxBytes, fins : BOOLEAN,
     calls : SUBSET {"listen", "connect", "write", "shutdown", "close", "mod",
                     "poll", "timed"}]

ASSUME SocketsAssumption ==
    /\ NFDs \in Nat \ {0} /\ MaxBytes \in Nat /\ ChanCap \in Nat \ {0}
    /\ NoConn \notin Conns /\ Workloads \subseteq Workload

VARIABLES
    work,      \* the workload
    s,         \* what the emulator's goroutine owns: see State
    pc,        \* where it is: see Phase
    unread,    \* bytes of a connection in the host's receive queue
    sent,      \* how many bytes its peer has sent
    fin,       \* connections that will bring no more bytes
    backlog,   \* connections in the host's queue of a listener
    taken,     \* the connection an accept watcher holds, NoConn for none
    held,      \* events of read watchers that are not yet in the channel
    chan,      \* externalEvents
    arrived, accepted,  \* connections of a listener in the order they came and left
    got        \* what the guest has read from a connection

vars ==
    <<work, s, pc, unread, sent, fin, backlog, taken, held, chan, arrived, accepted, got>>

\* An entry of jos.fds.  watching is acceptWatching or readWatching; reg says it
\* is registered with epoll and last is lastReady of the registration.  told is
\* history: a thread has been told of input since the guest last found none.
Socket ==
    [kind : {"none", "fresh", "listen", "conn", "closed"}, conn : Conns \cup {NoConn},
     pending : Seq(Conns), watching : BOOLEAN, buf : Seq(1..MaxBytes),
     eof : BOOLEAN, err : BOOLEAN, reg : BOOLEAN, last : SUBSET {"in", "out"},
     told : BOOLEAN]

\* accepting and reading are the goroutines in AcceptTCP and conn.Read; closed
\* are the connections closed on this side.
State ==
    [fd : [FDs -> Socket], thr : [work.threads -> {"run", "wait", "timed"}],
     accepting : SUBSET FDs, reading : [FDs -> Nat], closed : SUBSET Conns]

\* run: guest code or a system call; sched: scheduleAfterCurrentBlocked; loop:
\* Run after NoteExit; wait: waitRealTimeBlocked; ended: ErrJea9LinuxBlocked.
Phase == {"run", "sched", "loop", "wait", "ended"}

NoSocket ==
    [kind |-> "none", conn |-> NoConn, pending |-> << >>, watching |-> FALSE,
     buf |-> << >>, eof |-> FALSE, err |-> FALSE, reg |-> FALSE, last |-> {},
     told |-> FALSE]

Init ==
    /\ work \in Workloads
    /\ s = [fd |-> [f \in FDs |-> NoSocket], thr |-> [t \in work.threads |-> "run"],
            accepting |-> {}, reading |-> [f \in FDs |-> 0], closed |-> {}]
    /\ pc = "run"
    /\ unread = [c \in Conns |-> << >>]
    /\ sent = [c \in Conns |-> 0]
    /\ fin = {}
    /\ backlog = [f \in FDs |-> << >>]
    /\ taken = [f \in FDs |-> NoConn]
    /\ held = {}
    /\ chan = << >>
    /\ arrived = [f \in FDs |-> << >>]
    /\ accepted = [f \in FDs |-> << >>]
    /\ got = [c \in Conns |-> << >>]

Event(kind, f, c, data) == [kind |-> kind, fd |-> f, conn |-> c, data |-> data]

-----------------------------------------------------------------------------
(* Watchers and readiness. *)

HasInput(k) == k.buf # << >> \/ k.eof \/ k.err

\* Deviation: a watcher is started whether or not one is running.
Dev_StartAnotherReader(st, f) ==
    LET k == st.fd[f]
    IN  IF k.kind # "conn" \/ HasInput(k) THEN st
        ELSE [st EXCEPT !.fd[f].watching = TRUE, !.reading[f] = @ + 1]

StartReadWatcher(st, f) ==
    LET k == st.fd[f]
    IN  IF k.kind # "conn" \/ k.watching \/ HasInput(k) THEN st
        ELSE [st EXCEPT !.fd[f].watching = TRUE, !.reading[f] = @ + 1]

StartAcceptWatcher(st, f) ==
    IF st.fd[f].kind # "listen" \/ st.fd[f].watching THEN st
    ELSE [st EXCEPT !.fd[f].watching = TRUE, !.accepting = @ \cup {f}]

SocketEnsurePending(st, f) ==
    IF st.fd[f].pending = << >> THEN StartAcceptWatcher(st, f) ELSE st

\* fdReadyEvents, for what has been drained.
FDReadyEvents(k) ==
    (IF k.kind = "conn" THEN {"out"} ELSE {}) \cup
    (IF \/ k.kind = "listen" /\ k.pending # << >>
        \/ k.kind = "conn" /\ HasInput(k)
     THEN {"in"} ELSE {})

\* epollReadyForRegistration.
Reports(k) ==
    IF ~k.reg THEN {}
    ELSE FDReadyEvents(k) \ (IF work.et THEN k.last ELSE {})

Registered(st) == {f \in FDs : st.fd[f].reg}

\* epollCollectReady with room for all events; looking at a socket without
\* input starts the watcher it lacks.
CollectReady(st) ==
    LET idle == {f \in Registered(st) :
                   ~st.fd[f].watching /\ "in" \notin FDReadyEvents(st.fd[f])}
        listeners == {f \in idle : st.fd[f].kind = "listen"}
        readers == {f \in idle : st.fd[f].kind = "conn"}
        Looked(f, k) ==
            [k EXCEPT !.watching = @ \/ f \in listeners \cup readers,
                      !.last = IF work.et THEN FDReadyEvents(k) ELSE @,
                      !.told = @ \/ "in" \in Reports(k)]
        fd(f) == st.fd[f]
    IN  [st EXCEPT !.fd = [f \in FDs |-> IF fd(f).reg THEN Looked(f, fd(f)) ELSE fd(f)],
                   !.reading = [f \in FDs |-> IF f \in readers THEN @[f] + 1 ELSE @[f]],
                   !.accepting = @ \cup listeners]

AnyReports(st) == \E f \in FDs : Reports(st.fd[f]) # {}

\* A thread waits in epoll_pwait without or with a deadline.
Waiters(st) == {t \in work.threads : st.thr[t] # "run"}
Timed(st) == {t \in work.threads : st.thr[t] = "timed"}

\* refreshEpollReadiness: each waiter in turn looks.  The first takes the edges,
\* and which it is does not matter.
RefreshEpollReadiness(st) ==
    LET first == CHOOSE t \in Waiters(st) : TRUE
        woken == IF ~AnyReports(st) THEN {}
                 ELSE IF work.et THEN {first} ELSE Waiters(st)
    IN  IF Waiters(st) = {} THEN st
        ELSE [CollectReady(st) EXCEPT
               !.thr = [t \in work.threads |-> IF t \in woken THEN "run" ELSE @[t]]]

\* wakeEpollWaitersForFD: the waiters have one instance.
WakeEpollWaitersForFD(st, f) == IF st.fd[f].reg THEN RefreshEpollReadiness(st) ELSE st

\* clearEpollReadyBitsForFD, called where input is used up or has come anew.
ClearEpollReadyBits(st, f) ==
    [st EXCEPT !.fd[f].last = @ \ {"in"}, !.fd[f].told = FALSE]

-----------------------------------------------------------------------------
(* Events of the watchers. *)

CloseConns(st, C) == [st EXCEPT !.closed = @ \cup C]

\* Deviation: an event is applied to a descriptor that is gone.
Dev_KeepsConnection(st, e) ==
    LET f == e.fd
        accept == e.kind = "accept"
    IN  WakeEpollWaitersForFD(
          [st EXCEPT !.fd[f].pending = IF accept THEN Append(@, e.conn) ELSE @,
                     !.fd[f].watching = accept,
                     !.fd[f].buf = @ \o e.data,
                     !.fd[f].eof = @ \/ e.kind = "eof",
                     !.fd[f].err = @ \/ e.kind = "error"], f)

ApplyExternalEvent(st, e) ==
    LET f == e.fd
    IN  CASE st.fd[f].kind = "closed" -> CloseConns(st, {e.conn} \ {NoConn})
          [] e.kind = "accept" ->
               WakeEpollWaitersForFD(
                 ClearEpollReadyBits([st EXCEPT !.fd[f].pending = Append(@, e.conn)], f),
                 f)
          [] OTHER ->
               WakeEpollWaitersForFD(
                 [st EXCEPT !.fd[f].watching = FALSE,
                            !.fd[f].buf = @ \o e.data,
                            !.fd[f].eof = @ \/ e.kind = "eof",
                            !.fd[f].err = @ \/ e.kind = "error"], f)

DrainExternalEvents ==
    IF chan = << >> THEN s ELSE FoldLeft(ApplyExternalEvent, s, chan)

HasExternalWaitSource(st) ==
    \E f \in FDs : st.fd[f].kind \in {"listen", "conn"} /\ st.fd[f].watching

\* refreshBlocked: the waits X are over.
RefreshBlocked(st, X) ==
    [st EXCEPT !.thr = [t \in work.threads |-> IF t \in X THEN "run" ELSE @[t]]]

-----------------------------------------------------------------------------
(* System calls.  Each begins by draining the channel (handleEcall). *)

world == <<work, unread, sent, fin, backlog, taken, held, arrived, accepted, got>>

Ecall(st) ==
    /\ pc = "run"
    /\ s' = st
    /\ chan' = << >>
    /\ pc' = "run"

\* allocFD counts upwards.
NextFD(f, st) == st.fd[f].kind = "none" /\ \A g \in 1..f-1 : st.fd[g].kind # "none"

SysSocket ==
    \E f \in 1..work.sockets :
      /\ NextFD(f, s)
      /\ Ecall([DrainExternalEvents EXCEPT !.fd[f].kind = "fresh"])
      /\ UNCHANGED world

SysListen(f) ==
    /\ s.fd[f].kind = "fresh"
    /\ Ecall(StartAcceptWatcher([DrainExternalEvents EXCEPT !.fd[f].kind = "listen"], f))
    /\ UNCHANGED world

WakeAllSocketEpollWaiters(st) ==
    IF \E f \in Registered(st) : st.fd[f].kind # "closed"
    THEN RefreshEpollReadiness(st) ELSE st

\* Connections nobody has made yet.
Unmade ==
    work.conns \ UNION {ToSet(arrived[f]) \cup {s.fd[f].conn} : f \in FDs}

SysConnect(f) ==
    \E c \in Unmade :
      /\ s.fd[f].kind = "fresh"
      /\ Ecall(WakeAllSocketEpollWaiters(StartReadWatcher(
                 [DrainExternalEvents EXCEPT !.fd[f].kind = "conn", !.fd[f].conn = c],
                 f)))
      /\ UNCHANGED world

\* The last alternative is EFAULT: the address of the peer cannot be stored.
SysAccept4(f) ==
    LET st == ClearEpollReadyBits(DrainExternalEvents, f)
        c == Head(st.fd[f].pending)
        popped == SocketEnsurePending([st EXCEPT !.fd[f].pending = Tail(@)], f)
    IN  /\ s.fd[f].kind = "listen"
        /\ \/ /\ st.fd[f].pending = << >>
              /\ Ecall(SocketEnsurePending(st, f))
              /\ UNCHANGED world
           \/ \E g \in FDs :
                /\ st.fd[f].pending # << >>
                /\ NextFD(g, s)
                /\ Ecall(StartReadWatcher(
                           [popped EXCEPT !.fd[g].kind = "conn", !.fd[g].conn = c],
                           g))
                /\ accepted' = [accepted EXCEPT ![f] = Append(@, c)]
                /\ UNCHANGED <<work, unread, sent, fin, backlog, taken, held, arrived, got>>
           \/ /\ st.fd[f].pending # << >>
              /\ Ecall(CloseConns(popped, {c}))
              /\ accepted' = [accepted EXCEPT ![f] = Append(@, c)]
              /\ UNCHANGED <<work, unread, sent, fin, backlog, taken, held, arrived, got>>

\* Deviation: the edge is not forgotten when the buffer is empty.
Dev_ReadKeepsEdge(f, n) ==
    LET st == DrainExternalEvents
        k == st.fd[f]
        m == IF n < Len(k.buf) THEN n ELSE Len(k.buf)
    IN  /\ s.fd[f].kind = "conn"
        /\ Ecall(StartReadWatcher([st EXCEPT !.fd[f].buf = SubSeq(@, m + 1, Len(@)),
                                              !.fd[f].told = @ /\ m < Len(k.buf)], f))
        /\ got' = [got EXCEPT ![k.conn] = @ \o SubSeq(k.buf, 1, m)]
        /\ UNCHANGED <<work, unread, sent, fin, backlog, taken, held, arrived, accepted>>

\* Reads up to n bytes of what a watcher has brought; a read that empties the
\* buffer, or finds it empty, arms the watcher and the edge.
SysSocketRead(f, n) ==
    LET st == DrainExternalEvents
        k == st.fd[f]
        m == IF n < Len(k.buf) THEN n ELSE Len(k.buf)
        left == [st EXCEPT !.fd[f].buf = SubSeq(@, m + 1, Len(@))]
    IN  /\ s.fd[f].kind = "conn"
        /\ Ecall(IF \/ left.fd[f].buf # << >>
                    \/ k.buf = << >> /\ HasInput(k)
                 THEN left
                 ELSE StartReadWatcher(ClearEpollReadyBits(left, f), f))
        /\ got' = [got EXCEPT ![k.conn] = @ \o SubSeq(k.buf, 1, m)]
        /\ UNCHANGED <<work, unread, sent, fin, backlog, taken, held, arrived, accepted>>

\* Something is written, which is looked into by all waiters.
SysSocketWrite(f) ==
    /\ s.fd[f].kind = "conn" /\ s.fd[f].conn \notin s.closed
    /\ Ecall(WakeAllSocketEpollWaiters(DrainExternalEvents))
    /\ UNCHANGED world

\* shutdown 0 ends the stream at what has arrived, shutdown 2 closes it.
SysShutdown(f) ==
    LET c == s.fd[f].conn
    IN  /\ s.fd[f].kind = "conn" /\ c \notin s.closed
        /\ \/ /\ Ecall(DrainExternalEvents)
              /\ fin' = fin \cup {c}
           \/ /\ Ecall(CloseConns(DrainExternalEvents, {c}))
              /\ UNCHANGED fin
        /\ UNCHANGED <<work, unread, sent, backlog, taken, held, arrived, accepted, got>>

\* The registrations of a closed descriptor stay, and report nothing.  The
\* connections in the queue of a listener that is closed are lost with it.
SysClose(f) ==
    /\ s.fd[f].kind \notin {"none", "closed"}
    /\ LET st == DrainExternalEvents
           k == st.fd[f]
       IN  Ecall(CloseConns([st EXCEPT !.fd[f].kind = "closed", !.fd[f].watching = FALSE],
                            ToSet(k.pending \o backlog[f]) \cup ({k.conn} \ {NoConn})))
    /\ backlog' = [backlog EXCEPT ![f] = << >>]
    /\ UNCHANGED <<work, unread, sent, fin, taken, held, arrived, accepted, got>>

\* EPOLL_CTL_ADD and MOD (on) and DEL (off), for input and output.
SysEpollCtl(f, on) ==
    /\ s.fd[f].kind \notin {"none", "closed"}
    /\ on \/ s.fd[f].reg
    /\ Ecall([DrainExternalEvents EXCEPT !.fd[f].reg = on, !.fd[f].last = {},
                                        !.fd[f].told = FALSE])
    /\ UNCHANGED world

\* epoll_pwait returns what it collects, or nothing if its timeout is 0; else
\* the thread waits, with a deadline or without.
SysEpollPwait(t, how) ==
    LET st == DrainExternalEvents
        looked == CollectReady(st)
        waits == ~AnyReports(st) /\ how # "poll"
    IN  /\ pc = "run" /\ s.thr[t] = "run"
        /\ s' = IF waits THEN [looked EXCEPT !.thr[t] = how] ELSE looked
        /\ pc' = IF waits THEN "sched" ELSE "run"
        /\ chan' = << >>
        /\ UNCHANGED world

-----------------------------------------------------------------------------
(* The run loop. *)

Runnable(st) == \E t \in work.threads : st.thr[t] = "run"

Turn(st, X, from, otherwise) ==
    /\ pc = from
    /\ X \subseteq Timed(st)
    /\ s' = RefreshBlocked(st, X)
    /\ chan' = << >>
    /\ pc' = IF Runnable(s') THEN "run" ELSE otherwise
    /\ UNCHANGED world

\* A quantum or a budget expires: Run looks at the channel and at the waiters.
EndSlice(X) == Turn(RefreshEpollReadiness(DrainExternalEvents), X, "run", "run")

\* scheduleAfterCurrentBlocked: if nothing is runnable, NoteExit.
ScheduleAfterCurrentBlocked(X) == Turn(DrainExternalEvents, X, "sched", "loop")

\* Run, with blocked set: ErrJea9LinuxBlocked if nothing is runnable.
RunBlocked(X) == Turn(RefreshEpollReadiness(DrainExternalEvents), X, "loop", "wait")

\* Deviation: the guest is given up whenever nothing has arrived.
Dev_GivesUp(X) ==
    LET st == DrainExternalEvents
    IN  Turn(st, X, "wait", IF Timed(st) = {} THEN "ended" ELSE "wait")

\* waitRealTimeBlocked: without a deadline or a watcher the guest is given up,
\* else an event or the timer is waited for.
WaitRealTimeBlocked(X) ==
    LET st == DrainExternalEvents
    IN  Turn(st, X, "wait",
             IF Timed(st) = {} /\ ~HasExternalWaitSource(st) THEN "ended" ELSE "wait")

-----------------------------------------------------------------------------
(* The host: peers, and the goroutines that watch for them. *)

emu == <<work, s, pc>>

PeerConnects(f, c) ==
    /\ s.fd[f].kind = "listen" /\ c \in Unmade
    /\ backlog' = [backlog EXCEPT ![f] = Append(@, c)]
    /\ arrived' = [arrived EXCEPT ![f] = Append(@, c)]
    /\ UNCHANGED <<emu, unread, sent, fin, taken, held, chan, accepted, got>>

PeerSends(c) ==
    /\ c \in work.conns \ (Unmade \cup fin \cup s.closed) /\ sent[c] < work.bytes
    /\ sent' = [sent EXCEPT ![c] = @ + 1]
    /\ unread' = [unread EXCEPT ![c] = Append(@, sent[c] + 1)]
    /\ UNCHANGED <<emu, fin, backlog, taken, held, chan, arrived, accepted, got>>

PeerCloses(c) ==
    /\ work.fins /\ c \in work.conns \ (Unmade \cup fin)
    /\ fin' = fin \cup {c}
    /\ UNCHANGED <<emu, unread, sent, backlog, taken, held, chan, arrived, accepted, got>>

\* AcceptTCP returns a connection, or the error that ends the goroutine.
AcceptTCP(f) ==
    /\ f \in s.accepting /\ taken[f] = NoConn
    /\ \/ /\ backlog[f] # << >>
          /\ taken' = [taken EXCEPT ![f] = Head(backlog[f])]
          /\ backlog' = [backlog EXCEPT ![f] = Tail(@)]
          /\ UNCHANGED s
       \/ /\ s.fd[f].kind = "closed"
          /\ s' = [s EXCEPT !.accepting = @ \ {f}]
          /\ UNCHANGED <<taken, backlog>>
    /\ UNCHANGED <<work, pc, unread, sent, fin, held, chan, arrived, accepted, got>>

SendAccepted(f) ==
    /\ taken[f] # NoConn /\ Len(chan) < ChanCap
    /\ chan' = Append(chan, Event("accept", f, taken[f], << >>))
    /\ taken' = [taken EXCEPT ![f] = NoConn]
    /\ UNCHANGED <<emu, unread, sent, fin, backlog, held, arrived, accepted, got>>

\* conn.Read returns n bytes, the end of the stream or an error.
ConnRead(f) ==
    LET c == s.fd[f].conn
        Returns(e) == held' = held \cup {e}
    IN  /\ s.reading[f] > 0
        /\ \/ \E n \in 1..Len(unread[c]) :
                /\ c \notin s.closed
                /\ Returns(Event("read", f, NoConn, SubSeq(unread[c], 1, n)))
                /\ unread' = [unread EXCEPT ![c] = SubSeq(@, n + 1, Len(@))]
           \/ /\ c \notin s.closed /\ unread[c] = << >> /\ c \in fin
              /\ Returns(Event("eof", f, NoConn, << >>))
              /\ UNCHANGED unread
           \/ /\ c \in s.closed
              /\ Returns(Event("error", f, NoConn, << >>))
              /\ UNCHANGED unread
        /\ s' = [s EXCEPT !.reading[f] = @ - 1]
        /\ UNCHANGED <<work, pc, sent, fin, backlog, taken, chan, arrived, accepted, got>>

SendExternalEvent(e) ==
    /\ e \in held /\ Len(chan) < ChanCap
    /\ chan' = Append(chan, e)
    /\ held' = held \ {e}
    /\ UNCHANGED <<emu, unread, sent, fin, backlog, taken, arrived, accepted, got>>

-----------------------------------------------------------------------------
Sys ==
    \/ SysSocket
    \/ \E f \in FDs :
         \/ "listen" \in work.calls /\ (SysListen(f) \/ SysAccept4(f))
         \/ "connect" \in work.calls /\ SysConnect(f)
         \/ \E n \in 1..work.bytes : SysSocketRead(f, n)
         \/ "write" \in work.calls /\ SysSocketWrite(f)
         \/ "shutdown" \in work.calls /\ SysShutdown(f)
         \/ "close" \in work.calls /\ SysClose(f)
         \/ "mod" \notin work.calls /\ ~s.fd[f].reg /\ SysEpollCtl(f, TRUE)
         \/ "mod" \in work.calls /\ \E on \in BOOLEAN : SysEpollCtl(f, on)
    \/ \E t \in work.threads, how \in {"wait"} \cup (work.calls \cap {"poll", "timed"}) :
         SysEpollPwait(t, how)

RunLoop ==
    \E X \in SUBSET work.threads :
      \/ EndSlice(X)
      \/ ScheduleAfterCurrentBlocked(X)
      \/ RunBlocked(X)
      \/ WaitRealTimeBlocked(X)

Peers ==
    \E c \in Conns :
      PeerSends(c) \/ PeerCloses(c) \/ (\E f \in FDs : PeerConnects(f, c))

Watchers ==
    \/ \E f \in FDs : AcceptTCP(f) \/ SendAccepted(f) \/ ConnRead(f)
    \/ \E e \in held : SendExternalEvent(e)

Next == Sys \/ RunLoop \/ Peers \/ Watchers

Spec == Init /\ [][Next]_vars

\* A turn of the emulator's loop, or a step of a watcher, changes something.
LoopHasWork ==
    \/ pc \in {"sched", "loop"}
    \/ pc = "run" /\ (chan # << >> \/ Timed(s) # {} \/ RefreshEpollReadiness(s) # s)
    \/ pc = "wait" /\ (chan # << >> \/ Timed(s) # {} \/ ~HasExternalWaitSource(s))

WatchersHaveWork ==
    \/ \E f \in s.accepting :
         taken[f] = NoConn /\ (backlog[f] # << >> \/ s.fd[f].kind = "closed")
    \/ \E f \in FDs :
         LET c == s.fd[f].conn
         IN  s.reading[f] > 0 /\ (unread[c] # << >> \/ c \in fin \cup s.closed)
    \/ Len(chan) < ChanCap /\ (held # {} \/ \E f \in FDs : taken[f] # NoConn)

\* Weak fairness of the emulator's loop, which goes on as a budget is set in
\* every mode, and of the goroutines, which the host runs.  The enabling
\* conditions are written out.
FairSpec ==
    /\ Spec
    /\ []<>~LoopHasWork \/ []<><<RunLoop>>_vars
    /\ []<>~WatchersHaveWork \/ []<><<Watchers>>_vars

-----------------------------------------------------------------------------
TypeOK ==
    /\ work \in Workloads /\ s \in State /\ pc \in Phase
    /\ unread \in [Conns -> Seq(1..MaxBytes)] /\ sent \in [Conns -> 0..MaxBytes]
    /\ fin \subseteq Conns /\ got \in [Conns -> Seq(1..MaxBytes)]
    /\ backlog \in [FDs -> Seq(Conns)] /\ taken \in [FDs -> Conns \cup {NoConn}]
    /\ Len(chan) \in 0..ChanCap
    /\ arrived \in [FDs -> Seq(Conns)] /\ accepted \in [FDs -> Seq(Conns)]

\* The data, and the connections, that events es bring to f.
Brings(f, es) ==
    LET mine == SelectSeq(es, LAMBDA e : e.fd = f)
    IN  [data |-> FlattenSeq([i \in 1..Len(mine) |-> mine[i].data]),
         conns |-> SelectSeq([i \in 1..Len(mine) |-> mine[i].conn],
                             LAMBDA c : c # NoConn)]

\* The state has its types, and what the guest reads from a connection it has
\* not closed is what the peer sent, in order: bytes read, buffered and in the
\* channel are its beginning, and together with what a watcher holds and the
\* host has queued they are all of it (startReadWatcher never has two
\* goroutines read one connection).
StreamIntact ==
    /\ TypeOK
    /\ \A f \in FDs :
         LET c == s.fd[f].conn
             up == got[c] \o s.fd[f].buf \o Brings(f, chan).data
             mine == {e \in held : e.fd = f}
         IN  s.fd[f].kind = "conn" /\ c \notin s.closed =>
               /\ up = [i \in 1..Len(up) |-> i]
               /\ Len(up) + FoldSet(LAMBDA e, n : Len(e.data) + n, 0, mine)
                    + Len(unread[c]) = sent[c]

\* accept4 hands out the connections of a listener in the order they came, each
\* once: those accepted, pending, in the channel, with the watcher and in the
\* host's queue are those that arrived.  A connection that reaches a listener
\* after its close is closed, not kept (applyExternalEvent).
ConnectionsInOrder ==
    \A f \in FDs :
      LET k == s.fd[f]
          coming == Brings(f, chan).conns
                      \o (IF taken[f] = NoConn THEN << >> ELSE <<taken[f]>>) \o backlog[f]
      IN  /\ k.kind = "listen" => accepted[f] \o k.pending \o coming = arrived[f]
          /\ k.kind = "closed" => ToSet(k.pending) \subseteq s.closed

\* The guest is given up as blocked only if no socket of its own could still
\* wake it: nothing listens, and every connection has input the guest leaves
\* unread (hasExternalWaitSource says so from the flags of the watchers).
GivenUpMeansSilent ==
    pc = "ended" =>
      \A f \in FDs :
        s.fd[f].kind # "listen" /\ (s.fd[f].kind = "conn" => HasInput(s.fd[f]))

\* There is input, here or on its way from the host, that no thread was told of.
Untold(f) ==
    LET k == s.fd[f]
    IN  \/ k.kind = "listen" /\ (backlog[f] # << >> \/ (k.pending # << >> /\ ~k.told))
        \/ /\ k.kind = "conn" /\ ~k.told
           /\ HasInput(k) \/ unread[k.conn] # << >> \/ k.conn \in fin \cup s.closed

\* If every thread waits in epoll_pwait and a registered listener has a
\* connection, or a registered connection has bytes, the end or an error, that
\* no thread was told of since the guest last found nothing there, a thread
\* wakes up: no order of watchers, channel, reads and waits loses the wake-up,
\* level or edge triggered.
InputWakes ==
    \A f \in FDs :
      ~Runnable(s) /\ s.fd[f].reg /\ Untold(f) ~> Runnable(s)
====
