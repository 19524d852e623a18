--------------------------- MODULE MCWriteCoalescer ---------------------------
(* Instances of WriteCoalescer for TLC. *)
EXTENDS WriteCoalescer, TLC

CONSTANTS c1, c2

TwoCoalescers == {c1, c2}
StuckCoalescers == {c1}

\* Frames that fit, that fill the buffer exactly, and that cross its limit.
FourSizes == <<1, 2, 4, 1>>

Symmetry == Permutations(TwoCoalescers)
=============================================================================
