----------------------------- MODULE FrameStream -----------------------------
(***************************************************************************)
(* What the write coalescers promise to the rest of a client handler: the  *)
(* frames that one accepts reach its connection in the order in which they *)
(* were accepted, each once and without gaps, until writing fails.         *)
(***************************************************************************)
EXTENDS Naturals, Sequences

CONSTANTS Streams, Frames

VARIABLES
    accepted,   \* frames accepted by Enqueue and EnqueueAsync
    written,    \* frames the peer has received
    failed      \* encoding or writing failed: nothing more is written

vars == <<accepted, written, failed>>

Init ==
    /\ accepted = [c \in Streams |-> <<>>] /\ written = [c \in Streams |-> <<>>]
    /\ failed = [c \in Streams |-> FALSE]

Accept(c) ==
    /\ \E f \in Frames : accepted' = [accepted EXCEPT ![c] = Append(@, f)]
    /\ UNCHANGED <<written, failed>>

\* Some of the accepted frames are written, perhaps only a part of what was to
\* be written when the connection fails.
Write(c) ==
    /\ ~failed[c]
    /\ \E n \in Len(written[c])..Len(accepted[c]) :
          written' = [written EXCEPT ![c] = SubSeq(accepted[c], 1, n)]
    /\ \E b \in BOOLEAN : failed' = [failed EXCEPT ![c] = b]
    /\ UNCHANGED accepted

Next == \E c \in Streams : Accept(c) \/ Write(c)

Spec == Init /\ [][Next]_vars
=============================================================================
