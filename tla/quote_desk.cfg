SPECIFICATION Spec
CONSTANT Decisions <- MCDecisions
PROPERTY DeskDecisionHeard
CHECK_DEADLOCK FALSE
