\* A CreateLink and a CreateLinkBatch into one group, then the console lists
\* the group-link counts.
CONSTANTS
    Readers = {}
    Creators = {c1}
    Batchers = {b1}
    BatchSizes <- MCBatchSizes
    Admins = {}
    ShortUris = {u1, u2, u3}
    Urls = {o1}
    Gids = {g1}
    FalsePositives = {}
    ValidTypes <- MCTemporaryOnly
    AdminOps <- MCSoftOps
    MaxAttempts = 2
    MaxGroupCreates = 3
    MaxLinksPerGroup = 3
    LockMayExpire = FALSE
    None = None
    Free = Free
SPECIFICATION Spec
INVARIANT GroupCountListed
