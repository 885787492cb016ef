\* One request: every order of sends, errors, cancellation and disconnection.
SPECIFICATION Spec
CONSTANTS
    Statuses <- MCStatuses
    MaxSends = 4
INVARIANTS
    AnsweredOnce
    LogFramed
    FinishedAsStarted
PROPERTIES
    GoneStaysQuiet
