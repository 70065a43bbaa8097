SPECIFICATION FairSpec
CONSTANT Chunks = {1, 2, 3}
INVARIANT OnlyEndsLose
PROPERTIES HealthyDelivers ImplementsStreams
CHECK_DEADLOCK FALSE
