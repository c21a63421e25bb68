SPECIFICATION Spec
CONSTANT Decisions <- MCDecisions
INVARIANT CancelledIsFinal
CHECK_DEADLOCK FALSE
