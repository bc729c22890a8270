SPECIFICATION Spec
CONSTANT Setups <- IdleSetups
INVARIANT UnsentConfigsKept
CHECK_DEADLOCK FALSE
