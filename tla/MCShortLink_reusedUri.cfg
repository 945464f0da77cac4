\* A removed short URI is allocated again by a later create.
CONSTANTS
    Readers = {r1}
    Creators = {c1}
    Batchers = {}
    BatchSizes <- MCBatchSizes
    Admins = {a1}
    ShortUris = {u1, u2}
    Urls = {o1}
    Gids = {g1}
    FalsePositives = {u2}
    ValidTypes <- MCTemporaryOnly
    AdminOps <- MCAllOps
    MaxAttempts = 2
    MaxGroupCreates = 3
    MaxLinksPerGroup = 2
    LockMayExpire = FALSE
    None = None
    Free = Free
SPECIFICATION Spec
INVARIANT MarkerOnlyForGoneLinks
