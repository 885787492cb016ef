\* Starts, failed starts, restarts and changes of the environment of one process.
SPECIFICATION Spec
CONSTANTS
    a1 = a1  a2 = a2  m1 = m1  m2 = m2  n1 = n1  n2 = n2
    None = None
    Unsupported = Unsupported
    Warning = 30
    Apps <- MCApps
    Modules <- MCModules
    Loggers <- MCLoggers
    Versions <- MCVersions
    Levels <- MCLevels
    Above <- MCAbove
    Spelled <- MCSpelled
INVARIANTS
    OneService
    HeardOnce
    ReadyWhileServing
