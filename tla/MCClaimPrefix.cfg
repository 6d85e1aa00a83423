SPECIFICATION Spec
CONSTANT NUMCORES = 3
INVARIANT ThreadsShareAPrefix
CHECK_DEADLOCK FALSE
