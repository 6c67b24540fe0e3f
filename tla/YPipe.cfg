CONSTANTS
    Items = {a, b}
    NoItem = none
    MaxPos = 5
SPECIFICATION Spec
INVARIANTS TypeOK Disjoint NoLostWakeup
PROPERTY ImplementsChannel
