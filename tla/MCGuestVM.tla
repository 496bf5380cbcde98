-------------------------------- MODULE MCGuestVM --------------------------------
(* Instances of GuestVM for TLC. *)
EXTENDS GuestVM

Rng(lo, hi) == {g \in (lo..hi) \X (lo..hi) : g[1] < g[2]}

\* The heap and the mappings above it, and a range that reaches into the text.
VMRanges == Rng(2, 4) \cup {<<1, 3>>}
\* Wide enough to split a region.
WideRanges == Rng(2, 6)
VMText == {1}
VMProts == {{}, {"r", "w"}, {"r", "x"}}
================================================================================
