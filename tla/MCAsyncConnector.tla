-------------------------- MODULE MCAsyncConnector --------------------------
(***************************************************************************)
(* Instances of AsyncConnector for TLC.                                    *)
(***************************************************************************)
EXTENDS AsyncConnector, TLC

CONSTANTS r1, r2

TwoRequests == {r1, r2}
Symmetry == Permutations(TwoRequests)
=============================================================================
