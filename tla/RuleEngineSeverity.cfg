SPECIFICATION Spec
CONSTANT Extensions <- OneEngine
INVARIANT VerdictIsMostSevere
\* A decision that was handed to its caller takes no further step.
CHECK_DEADLOCK FALSE
