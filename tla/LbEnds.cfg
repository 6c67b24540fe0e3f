CONSTANTS
    Pipes = {"p", "q", "r"}
    MaxRoom = 1
    MaxParts = 3
SPECIFICATION Spec
INVARIANT WholeMessages
