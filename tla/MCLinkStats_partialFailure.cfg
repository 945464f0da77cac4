\* One Redis or SQL call of SaveLinkStats returns an error.
CONSTANTS
    Visits = {"v1", "v2"}
    UvOf <- MCUvOf
    IpOf <- MCIpOf
    Workers = {w1}
    Free = Free
    SubscribeStores = TRUE
    LockerSet = TRUE
    GotoFirstRow = "sameGroup"
    MaxDeliveries = 2
    MaxFailures = 1
    MaxCrashes = 0
    MaxEarlyLapses = 0
SPECIFICATION Spec
INVARIANT UvCountedOnce
CHECK_DEADLOCK FALSE
