\* Two creators (single and batch creates), one admin running UpdateLink
\* and RemoveFromRecycleBin, three short URIs, one of which the sharded
\* ShortUriExists reports taken through a false positive of its prefixed
\* key.  No false positive on bare keys: with one, a batch whose first
\* SafePut reports the BF.ADD 0 returns before putting its second link.
CONSTANTS
    Creators = {c1, c2}
    Admins = {a1}
    ShortUris = {u1, u2, u3}
    Urls = {o1}
    FalsePositives = {}
    PrefixedHits = {u3}
    ValidTypes <- MCTemporaryOnly
    BatchSizes <- MCBatchSizes
    MaxAttempts = 2
    None = None
SPECIFICATION Spec
INVARIANT TypeOK
