\* Every string of up to six characters, against limits of three and two.
SPECIFICATION Spec
CONSTANTS
    MaxText = 3
    MaxTitle = 2
    MaxTyped = 6
    Invalid = Invalid
    None = None
INVARIANTS
    Restorable
    OneIntent
    LimitOnVisible
