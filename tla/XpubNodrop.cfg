CONSTANTS
    Pipes = {"p", "q", "r"}
    Topics = {"t", "u"}
    Scopes <- Nodrop
    MaxRoom = 1
    MaxParts = 2
SPECIFICATION Spec
INVARIANT AllRecipients
