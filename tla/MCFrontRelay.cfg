SPECIFICATION FairSpec
CONSTANT Chunks = {1, 2, 3}
INVARIANT OnlyHeadMissing
PROPERTIES RelaysClient EndsMeet
CHECK_DEADLOCK FALSE
