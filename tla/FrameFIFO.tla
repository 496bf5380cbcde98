------------------------------- MODULE FrameFIFO -------------------------------
(***************************************************************************)
(* What one direction of the network device promises: frames come out in   *)
(* the order they went in, each once, and none is lost while the queue     *)
(* stays open.  A queue that is closed may lose its oldest frames, and one *)
(* that is reset loses all.                                                *)
(***************************************************************************)
EXTENDS Naturals, Sequences

VARIABLES open, queue, delivered

Init == ~open /\ queue = << >> /\ delivered = << >>

Open == ~open /\ open' /\ UNCHANGED <<queue, delivered>>

Send ==
    /\ Len(queue') = Len(queue) + 1 /\ SubSeq(queue', 1, Len(queue)) = queue
    /\ UNCHANGED <<open, delivered>>

Deliver ==
    /\ open /\ open'
    /\ \E n \in 1..Len(queue) :
         /\ delivered' = delivered \o SubSeq(queue, 1, n)
         /\ queue' = SubSeq(queue, n + 1, Len(queue))

Close ==
    /\ open /\ ~open'
    /\ \E n \in 0..Len(queue) : queue' = SubSeq(queue, n + 1, Len(queue))
    /\ UNCHANGED delivered

Reset == ~open' /\ queue' = << >> /\ UNCHANGED delivered

Next == Open \/ Send \/ Deliver \/ Close \/ Reset

Spec == Init /\ [][Next]_<<open, queue, delivered>>
================================================================================
