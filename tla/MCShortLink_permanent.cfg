\* Creates of permanent links.
CONSTANTS
    Readers = {}
    Creators = {c1}
    Batchers = {}
    BatchSizes <- MCBatchSizes
    Admins = {}
    ShortUris = {u1, u2}
    Urls = {o1}
    Gids = {g1}
    FalsePositives = {u2}
    ValidTypes <- MCPermanentOnly
    AdminOps <- MCSoftOps
    MaxAttempts = 2
    MaxGroupCreates = 3
    MaxLinksPerGroup = 2
    LockMayExpire = FALSE
    None = None
    Free = Free
SPECIFICATION Spec
INVARIANT FilterCoversStore
