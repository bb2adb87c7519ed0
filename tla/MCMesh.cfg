SPECIFICATION FairSpec
CONSTANT Schemas <- MCSchemas
INVARIANT RightExit
PROPERTY Returns
CHECK_DEADLOCK FALSE
