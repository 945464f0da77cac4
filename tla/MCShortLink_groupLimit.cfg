\* Two creates into one group that has room for one more link.
CONSTANTS
    Readers = {}
    Creators = {c1, c2}
    Batchers = {}
    BatchSizes <- MCBatchSizes
    Admins = {}
    ShortUris = {u1, u2}
    Urls = {o1}
    Gids = {g1}
    FalsePositives = {}
    ValidTypes <- MCTemporaryOnly
    AdminOps <- MCSoftOps
    MaxAttempts = 2
    MaxGroupCreates = 3
    MaxLinksPerGroup = 1
    LockMayExpire = FALSE
    None = None
    Free = Free
SPECIFICATION Spec
INVARIANT GroupLimit
