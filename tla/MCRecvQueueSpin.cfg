\* This end closes while its reader is in Pop.
CONSTANTS
    MaxPush = 1
SPECIFICATION Spec
INVARIANTS
    SpinMeansPushing
CHECK_DEADLOCK FALSE
