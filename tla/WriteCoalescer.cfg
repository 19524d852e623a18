\* Two coalescers share one worker; encoding and writing may fail, and the
\* connection of c1 may block a write forever.
SPECIFICATION FairSpec
CONSTANTS
    c1 = c1
    c2 = c2
    Coalescers <- TwoCoalescers
    QueueSize = 2
    BufferSize = 3
    FrameSize <- FourSizes
    NumWorkers = 1
    MaxFrames = 4
    Failures = TRUE
    Stuck <- StuckCoalescers
INVARIANTS BufferBounded NothingLost
PROPERTIES InOrder OthersProgress
