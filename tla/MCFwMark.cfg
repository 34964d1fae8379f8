SPECIFICATION Spec
CONSTANT Bit = {0, 1, 2}
INVARIANT ReadsGoalOrNone
