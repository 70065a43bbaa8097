SPECIFICATION Spec
CONSTANT Chunks = {1, 2}
PROPERTY RelaysGame
CHECK_DEADLOCK FALSE
