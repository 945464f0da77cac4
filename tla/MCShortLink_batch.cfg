\* Resolvers racing a CreateLinkBatch of two links and an update that
\* asks to flip a link between permanent and temporary.
CONSTANTS
    Readers = {r1, r2}
    Creators = {}
    Batchers = {b1}
    BatchSizes <- MCBatchSizes
    Admins = {a1}
    ShortUris = {u1, u2}
    Urls = {o1}
    Gids = {g1}
    FalsePositives = {}
    ValidTypes <- MCAllValidTypes
    AdminOps <- MCUpdateOnly
    MaxAttempts = 2
    MaxGroupCreates = 3
    MaxLinksPerGroup = 2
    LockMayExpire = FALSE
    None = None
    Free = Free
SPECIFICATION Spec
INVARIANT LoaderExclusive
