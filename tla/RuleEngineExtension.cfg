SPECIFICATION Spec
CONSTANT Extensions <- OneEngine
INVARIANT EngineIsAttributed
\* A decision that was handed to its caller takes no further step.
CHECK_DEADLOCK FALSE
