SPECIFICATION Spec
CONSTANT MaxMessages = 3
INVARIANT AtMessage
CHECK_DEADLOCK FALSE
