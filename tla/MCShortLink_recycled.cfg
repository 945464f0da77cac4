\* A link is created and saved to the recycle bin while a resolver runs.
CONSTANTS
    Readers = {r1}
    Creators = {c1}
    Batchers = {}
    BatchSizes <- MCBatchSizes
    Admins = {a1}
    ShortUris = {u1, u2}
    Urls = {o1}
    Gids = {g1}
    FalsePositives = {u2}
    ValidTypes <- MCTemporaryOnly
    AdminOps <- MCSaveOnly
    MaxAttempts = 2
    MaxGroupCreates = 3
    MaxLinksPerGroup = 2
    LockMayExpire = FALSE
    None = None
    Free = Free
SPECIFICATION Spec
PROPERTY RecycledNeverRedirects
