\* An adapter that may fail to confirm a revision that holds uses up the attempts.
SPECIFICATION Spec
CONSTANTS
    alice = alice  bob = bob  carol = carol  dave = dave  erin = erin
    c1 = c1  c2 = c2  c3 = c3  s1 = s1  s2 = s2  k1 = k1  k2 = k2
    x = x  y = y  g = g  other = other  hi = hi  yo = yo
    chat = chat  team = team  face = face  noFiles = noFiles  file = file  lostFile = lostFile  None = None
    Users <- MCUsers
    MaxGroupMembers = 3
    CreatedAt = 1
    Clock <- MCOneInstant
    Titles = {chat, team}
    Avatars = {face}
    MessageIds = {c1, c2, c3, s1, s2}
    ReceiptIds = {c1, c2, c3}
    ClientIds = {x, y}
    Texts = {hi, yo}
    Attachments <- MCAttachments
    NoAttachments = noFiles
    Calls = {c1, c2, c3}
    CommandIds = {k1, k2}
    Dialogs = {g, other}
    Group = g
    InitialMembers <- MCMembers
    Owner = alice
    InitialTitle = chat
    SeedIds <- NoSeedIds
    Seed <- NoSeed
    SeedLast = 0
    Workloads <- SendWorkloads
    Registered <- MCRegistered
    ReadyAttachments <- MCReady
    MaxAttempts = 2
    MaxEdits = 0
    SpuriousConflicts = TRUE
    StaleReads = FALSE
SYMMETRY Symmetry
INVARIANTS
    ExhaustedByConflicts
