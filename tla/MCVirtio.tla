-------------------------------- MODULE MCVirtio --------------------------------
(* Instances of VirtioNet for TLC. *)
EXTENDS VirtioNet

Frames(t, r) == [k \in Queue |-> IF k = "tx" THEN t ELSE r]

\* Resets and every kind of buffer: enough frames in one direction to wrap its
\* available index, then both directions at once.
ResetWorkloads ==
    { [frames |-> Frames(4, 0), tx |-> AllTxKinds, rx |-> {}, resets |-> TRUE],
      [frames |-> Frames(0, 3), tx |-> {}, rx |-> AllRxKinds, resets |-> TRUE],
      [frames |-> Frames(1, 1), tx |-> AllTxKinds, rx |-> AllRxKinds, resets |-> TRUE] }

\* No resets and no short buffers: both indices of the receive queue wrap.
SteadyWorkloads ==
    { [frames |-> Frames(0, 5), tx |-> {}, rx |-> {"big"}, resets |-> FALSE],
      [frames |-> Frames(1, 2), tx |-> {"frame"}, rx |-> {"big"}, resets |-> FALSE] }

AllWorkloads == ResetWorkloads \cup SteadyWorkloads
================================================================================
