\* One request whose application may start its response without headers.
SPECIFICATION Spec
CONSTANTS
    Statuses <- MCStatuses
    MaxSends = 4
INVARIANTS
    ReturnedAnswered
