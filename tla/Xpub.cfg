CONSTANTS
    Pipes = {"p", "q", "r"}
    Topics = {"t", "u"}
    Scopes <- ArrayThenTopics
    MaxRoom = 1
    MaxParts = 2
SPECIFICATION Spec
INVARIANTS TypeOK NotForgotten Delivery UserView
