\* Started three times, blocking or not, with and without profiling.
SPECIFICATION FairSpec
CONSTANTS
    MaxStarts = 3
    Polls = 3
INVARIANT NoPanic
INVARIANT RunningServes
INVARIANT StopReleases
PROPERTY StopReturns
PROPERTY StopEnds
