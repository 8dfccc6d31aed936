SPECIFICATION Spec
CONSTANTS
    Character = {"a", ".", "_"}
    MaxLength = 3
INVARIANT NeverHidden
CHECK_DEADLOCK FALSE
