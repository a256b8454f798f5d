SPECIFICATION FairSpec
CONSTANT Stoppers = {"receive", "timer", "external"}
INVARIANT StopIsOrderly
PROPERTY StopCompletes
PROPERTY ProcessEnds
CHECK_DEADLOCK FALSE
