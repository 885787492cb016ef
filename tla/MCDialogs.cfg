\* Calls that race to create a direct or a saved dialog, are repeated when they
\* fail, and settle once the failures end.
SPECIFICATION RecoverySpec
CONSTANTS
    c1 = c1  c2 = c2  None = None
    Users <- MCUsers
    Calls <- MCCalls
    Requests <- MCRequests
    Clock <- MCClock
INVARIANTS
    ProjectionsCanonical
PROPERTIES
    ImplementsDirectory
    StoredGetsProjected
    CommandsSettle
