SPECIFICATION Spec
CONSTANT Extensions <- TwoEngines
INVARIANT TypeOK
INVARIANT NoControlOverruled
INVARIANT DispositiveAttribution
INVARIANT NarrowingIsAttributed
\* A decision that was handed to its caller takes no further step.
CHECK_DEADLOCK FALSE
