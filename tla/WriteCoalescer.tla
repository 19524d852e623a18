---------------------------- MODULE WriteCoalescer ----------------------------
(***************************************************************************)
(* The write coalescers of the connections and the pool of workers that    *)
(* they share (coalescer.go, scheduler.go).                                *)
(*                                                                         *)
(* A coalescer has a bounded queue of frames and a loop.  The loop takes a *)
(* frame and schedules a task in the pool that encodes this frame and      *)
(* those that follow it into a buffer until the queue is empty or the      *)
(* buffer is full; the loop writes the buffer to the connection when the   *)
(* task is done.                                                           *)
(***************************************************************************)
EXTENDS Naturals, Sequences, FiniteSets

CONSTANTS
    Coalescers,
    QueueSize,      \* frames in a write queue
    BufferSize,     \* write buffer size, in bytes
    FrameSize,      \* the encoded size of each frame, in bytes
    NumWorkers,     \* workers of the write scheduler, and the size of its queue
    MaxFrames,      \* bound: frames offered to each coalescer
    Failures,       \* bound: whether encoding and writing may fail
    Stuck           \* coalescers whose connection may block a write forever

\* The frames that callers have for a coalescer, in order.
Frames == 1..MaxFrames

ASSUME ConstantsAssumption ==
    /\ QueueSize \in Nat \ {0} /\ BufferSize \in Nat \ {0} /\ NumWorkers \in Nat \ {0}
    /\ MaxFrames \in Nat /\ FrameSize \in [Frames -> Nat \ {0}]
    /\ Failures \in BOOLEAN /\ Stuck \subseteq Coalescers

VARIABLES
    co,         \* the state of each coalescer
    tasks       \* Scheduler.queue: the coalescers whose task waits for a worker

vars == <<co, tasks>>

\* offered counts the frames that callers had for the coalescer; a frame is
\* named by this count.  first holds the first frame of an iteration until it
\* is encoded; size is the length of buffer in bytes.
Init ==
    /\ co = [c \in Coalescers |->
                [offered |-> 0, accepted |-> <<>>, queue |-> <<>>, closed |-> FALSE,
                 loop |-> "read", first |-> <<>>, buffer |-> <<>>, size |-> 0,
                 draining |-> FALSE, written |-> <<>>]]
    /\ tasks = <<>>

\* Mutant: the task, not the loop, writes the buffer.
WorkingUntilWritten == {c \in Coalescers : co[c].loop \in {"first", "coalesce", "write"}}

\* Coalescers whose task is running on a worker.
Working == {c \in Coalescers : co[c].loop \in {"first", "coalesce"}}

\* A frame that the caller may not send after Close: see ClientHandler.
Offer(c) == ~co[c].closed /\ co[c].offered < MaxFrames

Accept(c) ==
    co' = [co EXCEPT ![c].offered = @ + 1,
                     ![c].accepted = Append(@, co[c].offered + 1),
                     ![c].queue = Append(@, co[c].offered + 1)]

\* Blocks while the queue is full.
Enqueue(c) ==
    /\ Offer(c) /\ Len(co[c].queue) < QueueSize
    /\ Accept(c)
    /\ UNCHANGED tasks

\* Gives up when the queue is full.
EnqueueAsync(c) ==
    /\ Offer(c)
    /\ IF Len(co[c].queue) < QueueSize
       THEN Accept(c)
       ELSE co' = [co EXCEPT ![c].offered = @ + 1]
    /\ UNCHANGED tasks

\* close(writeQueue); the caller then waits for the loop.
Close(c) ==
    /\ ~co[c].closed
    /\ co' = [co EXCEPT ![c].closed = TRUE]
    /\ UNCHANGED tasks

\* Mutant: the loop ends as soon as the queue is closed.
ReadFirstFrameUntilClosed(c) ==
    /\ co[c].loop = "read"
    /\ \/ /\ co[c].queue # <<>> /\ ~co[c].closed
          /\ co' = [co EXCEPT ![c].first = <<Head(co[c].queue)>>,
                              ![c].queue = Tail(@), ![c].loop = "schedule"]
       \/ co[c].closed /\ co' = [co EXCEPT ![c].loop = "done"]
    /\ UNCHANGED tasks

\* firstFrame, firstFrameOk := <-writeQueue.
ReadFirstFrame(c) ==
    /\ co[c].loop = "read"
    /\ \/ /\ co[c].queue # <<>>
          /\ co' = [co EXCEPT ![c].first = <<Head(co[c].queue)>>,
                              ![c].queue = Tail(@), ![c].loop = "schedule"]
       \/ /\ co[c].queue = <<>> /\ co[c].closed
          /\ co' = [co EXCEPT ![c].loop = "done"]
    /\ UNCHANGED tasks

\* Blocks while the scheduler's queue is full.
Schedule(c) ==
    /\ co[c].loop = "schedule" /\ Len(tasks) < NumWorkers
    /\ tasks' = Append(tasks, c)
    /\ co' = [co EXCEPT ![c].loop = "scheduled"]

\* An idle worker takes the oldest task.
StartTask ==
    /\ tasks # <<>> /\ Cardinality(Working) < NumWorkers
    /\ co' = [co EXCEPT ![Head(tasks)].loop = "first"]
    /\ tasks' = Tail(tasks)

\* Mutant: the buffer is written only when it is longer than its size.
EncodeFrameLate(r, f, ok) ==
    IF ~ok THEN [r EXCEPT !.draining = TRUE, !.loop = "coalesce"]
    ELSE [r EXCEPT !.buffer = Append(@, f), !.size = @ + FrameSize[f],
                   !.loop = IF r.size + FrameSize[f] > BufferSize THEN "write" ELSE "coalesce"]

\* writeRawFrame and the test of the buffer's length after it.  The bytes that a
\* failing encoder leaves in the buffer are not modelled: it is never written.
EncodeFrame(r, f, ok) ==
    IF ~ok THEN [r EXCEPT !.draining = TRUE, !.loop = "coalesce"]
    ELSE [r EXCEPT !.buffer = Append(@, f), !.size = @ + FrameSize[f],
                   !.loop = IF r.size + FrameSize[f] >= BufferSize THEN "write" ELSE "coalesce"]

\* The first frame is encoded also when the queue is being drained.
EncodeFirstFrame(c, ok) ==
    /\ co[c].loop = "first"
    /\ co' = [co EXCEPT ![c] = [EncodeFrame(co[c], co[c].first[1], ok) EXCEPT !.first = <<>>]]
    /\ UNCHANGED tasks

\* The task ends when it finds the queue empty; a frame that it takes while
\* draining is discarded.
EncodeNextFrame(c, ok) ==
    /\ co[c].loop = "coalesce"
    /\ IF co[c].queue = <<>>
       THEN ok /\ co' = [co EXCEPT ![c].loop = "write"]
       ELSE LET r == [co[c] EXCEPT !.queue = Tail(@)]
            IN  IF r.draining
                THEN ok /\ co' = [co EXCEPT ![c] = r]
                ELSE co' = [co EXCEPT ![c] = EncodeFrame(r, Head(co[c].queue), ok)]
    /\ UNCHANGED tasks

\* Mutant: the buffer is not reset after it was written.
WriteKeepsBuffer(c) ==
    /\ co[c].loop = "write"
    /\ co' = [co EXCEPT ![c].written = IF co[c].draining THEN @ ELSE @ \o co[c].buffer,
                        ![c].loop = "read"]
    /\ UNCHANGED tasks

\* The loop writes the buffer.  A write that fails may have written a part of it.
Write(c) ==
    /\ co[c].loop = "write"
    /\ IF co[c].buffer = <<>> \/ co[c].draining
       THEN co' = [co EXCEPT ![c].loop = "read"]
       ELSE \/ co' = [co EXCEPT ![c].written = @ \o co[c].buffer, ![c].buffer = <<>>,
                                ![c].size = 0, ![c].loop = "read"]
            \/ /\ Failures
               /\ \E n \in 0..Len(co[c].buffer) - 1 :
                     co' = [co EXCEPT ![c].written = @ \o SubSeq(co[c].buffer, 1, n),
                                      ![c].buffer = <<>>, ![c].size = 0,
                                      ![c].draining = TRUE, ![c].loop = "read"]
    /\ UNCHANGED tasks

Terminated == (\A c \in Coalescers : co[c].loop = "done") /\ UNCHANGED vars

EncodeResults == IF Failures THEN BOOLEAN ELSE {TRUE}

LoopStep(c) ==
    \/ ReadFirstFrame(c) \/ Schedule(c)
    \/ \E ok \in EncodeResults : EncodeFirstFrame(c, ok) \/ EncodeNextFrame(c, ok)

Next ==
    \/ \E c \in Coalescers : Enqueue(c) \/ EnqueueAsync(c) \/ Close(c)
    \/ \E c \in Coalescers : LoopStep(c) \/ Write(c)
    \/ StartTask
    \/ Terminated

Spec == Init /\ [][Next]_vars

\* The loops and the workers run; a write ends unless its connection is stuck.
Fairness ==
    /\ WF_vars(StartTask)
    /\ \A c \in Coalescers : WF_vars(LoopStep(c))
    /\ \A c \in Coalescers \ Stuck : WF_vars(Write(c))

FairSpec == Spec /\ Fairness

-----------------------------------------------------------------------------
States ==
    [offered : 0..MaxFrames, accepted : Seq(Frames), queue : Seq(Frames), closed : BOOLEAN,
     loop : {"read", "schedule", "scheduled", "first", "coalesce", "write", "done"},
     first : Seq(Frames), buffer : Seq(Frames), size : Nat, draining : BOOLEAN,
     written : Seq(Frames)]

\* The range of every variable of the coalescers.
TypeOK == co \in [Coalescers -> States] /\ tasks \in Seq(Coalescers)

\* No frame is encoded into a buffer that has reached its configured size: the
\* buffer that a loop hands from one task to the next, which is tested after each
\* frame, exceeds this size by less than its last frame, unless the connection
\* has failed.
BufferBounded ==
    \A c \in Coalescers :
        LET b == co[c].buffer
        IN  ~co[c].draining /\ b # <<>> => co[c].size < BufferSize + FrameSize[b[Len(b)]]

\* Close waits for the loop, and when the loop has ended every frame that was
\* accepted before Close is written, unless the connection has failed.
NothingLost ==
    \A c \in Coalescers :
        co[c].loop = "done" /\ ~co[c].draining => co[c].written = co[c].accepted

\* The refinement mapping to FrameStream.
Stream == INSTANCE FrameStream
             WITH Streams <- Coalescers, Frames <- Frames,
                  accepted <- [c \in Coalescers |-> co[c].accepted],
                  written <- [c \in Coalescers |-> co[c].written],
                  failed <- [c \in Coalescers |-> co[c].draining]

\* The coalescers implement FrameStream: what a connection receives is always a
\* prefix of what was accepted for it, and nothing follows a failed write.
InOrder == Stream!Spec

\* A connection that blocks a write does not keep the workers of the pool: the
\* other coalescers still write, or discard, every frame that they accepted.
OthersProgress ==
    \A c \in Coalescers \ Stuck :
        \A n \in Frames :
            Len(co[c].accepted) >= n ~> Len(co[c].written) >= n \/ co[c].draining
=============================================================================
