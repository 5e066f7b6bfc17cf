SPECIFICATION FairSpec
CONSTANTS
  N = 3
  MaxStarts = 2
INVARIANTS TypeOK LiveThreads StoppedMeansGone AllServe CrashOnlyFirst
PROPERTY StopEnds
\* after MaxStarts starts and a stop, or a use after free, nothing is left to do
CHECK_DEADLOCK FALSE
