SPECIFICATION Spec
PROPERTY RunEndsWhenCancelled
CHECK_DEADLOCK FALSE
