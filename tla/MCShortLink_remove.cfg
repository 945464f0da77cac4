\* Every admin command, including the hard delete, and lock TTLs that may
\* elapse while held; one request of each kind.
CONSTANTS
    Readers = {r1}
    Creators = {c1}
    Batchers = {}
    BatchSizes <- MCBatchSizes
    Admins = {a1}
    ShortUris = {u1, u2}
    Urls = {o1}
    Gids = {g1}
    FalsePositives = {u2}
    ValidTypes <- MCTemporaryOnly
    AdminOps <- MCAllOps
    MaxAttempts = 2
    MaxGroupCreates = 3
    MaxLinksPerGroup = 2
    LockMayExpire = TRUE
    None = None
    Free = Free
SPECIFICATION Spec
PROPERTY LocksEventuallyReleased
