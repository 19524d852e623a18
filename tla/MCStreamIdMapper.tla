-------------------------- MODULE MCStreamIdMapper --------------------------
(***************************************************************************)
(* Instances of StreamIdMapper for TLC.                                    *)
(***************************************************************************)
EXTENDS StreamIdMapper, TLC

CONSTANTS p1, p2, p3

MCProcs == {p1, p2, p3}

Symmetry == Permutations(MCProcs)

\* With protocol version 2 a stream id is a signed byte; -1 and 200 are
\* rejected, 0 and 5 are accepted.
StreamIdsV2 == {-1, 0, 5, 200}
=============================================================================
