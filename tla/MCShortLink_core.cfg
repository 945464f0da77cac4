\* Resolvers and a creator racing on two short URIs, with update, save and
\* recover; temporary links only (the factory's default validity type).
CONSTANTS
    Readers = {r1, r2}
    Creators = {c1}
    Batchers = {}
    BatchSizes <- MCBatchSizes
    Admins = {a1}
    ShortUris = {u1, u2}
    Urls = {o1}
    Gids = {g1}
    FalsePositives = {u2}
    ValidTypes <- MCTemporaryOnly
    AdminOps <- MCSoftOps
    MaxAttempts = 2
    MaxGroupCreates = 3
    MaxLinksPerGroup = 2
    LockMayExpire = FALSE
    None = None
    Free = Free
SPECIFICATION Spec
INVARIANT TypeOK
INVARIANT LoaderExclusive
INVARIANT FilterCoversStore
PROPERTY NoFalseNotFound
