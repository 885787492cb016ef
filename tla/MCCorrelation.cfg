\* Requests of one server, some created out of the task of another.
SPECIFICATION Spec
CONSTANTS
    r1 = r1  r2 = r2  r3 = r3  wanted = wanted  unsafe = unsafe  g1 = g1  g2 = g2
    None = None
    Requests = {r1, r2, r3}
    Server = Server
    Ids = {wanted, unsafe, g1, g2}
    SafeIds = {wanted, g1, g2}
    Received <- MCReceived
    Generator <- MCGenerator
    MaxSteps = 1
INVARIANTS
    LinesOwn
    StatesApart
    AnswerNamed
