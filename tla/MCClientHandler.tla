--------------------------- MODULE MCClientHandler ---------------------------
(***************************************************************************)
(* Instances of ClientHandler for TLC.                                     *)
(***************************************************************************)
EXTENDS ClientHandler, TLC

CONSTANTS r1, r2

TwoRequests == {r1, r2}
OneStream == {1}
TwoStreams == {1, 2}
Symmetry2 == Permutations(TwoRequests)

\* One request goes to both clusters, the other is answered by the proxy.
LiveInit == Init /\ decision = (r1 :> "both" @@ r2 :> "none")
LiveSpec == LiveInit /\ [][Next]_vars /\ WF_vars(ProxyStep)
=============================================================================
