\* A pair, a saved dialog and a group under posts, edits, ACKs and changes in any order.
SPECIFICATION Spec
CONSTANTS
    alice = alice  bob = bob  carol = carol
    hi = hi  padded = padded  spaces = spaces  endless = endless
    chat = chat  team = team  face = face
    None = None  Blank = Blank  Invalid = Invalid
    Users = {alice, bob, carol}
    MaxGroupMembers = 3
    CreatedAt = 1
    Clock = {1, 2}
    Titles = {chat, team}
    Avatars = {face}
    MessageIds <- MCPositions
    ReceiptIds = {alice, bob, carol}
    ClientIds = {}
    Texts = {hi}
    Attachments <- MCFileLists
    NoAttachments <- MCNoFiles
    StartDialogs <- MCDialogs
    RawTexts <- MCRawTexts
    Normal <- MCNormal
    RawTitles <- MCRawTitles
    NormalTitle <- MCNormalTitle
    FileLists <- MCFileLists
    MaxAttachments = 1
    MaxChanges = 4
INVARIANTS
    AcksNeverStuck
    StatusGrounded
PROPERTIES
    MessagesKeepIdentity
    StatusNeverGoesBack
    VersionsCountChanges
