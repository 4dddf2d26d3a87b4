SPECIFICATION FairSpec
CONSTANTS
    Threads = {t1, t2, t3}
    Nobody = Nobody
    MaxPosts = 3
    WaitMs <- SomeWaits
    ClockUsec <- SomeClocks
INVARIANTS
    PostsServeOnce
    NoStrandedPost
PROPERTY
    TimedWaitReturns
