SPECIFICATION Spec
CONSTANT Decisions <- MCDecisions
INVARIANT SeniorApproval
CHECK_DEADLOCK FALSE
