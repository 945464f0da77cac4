\* Errors, a crash and an early invisibility timeout against the repaired
\* wiring: one goroutine, and enough deliveries for every fault to cost one.
\* Deadlock is not checked: a run ends with every event acknowledged, or
\* with an event whose deliveries are used up.
CONSTANTS
    Visits = {"v1", "v2"}
    UvOf <- MCUvOf
    IpOf <- MCIpOf
    Workers = {w1}
    Free = Free
    SubscribeStores = TRUE
    LockerSet = TRUE
    GotoFirstRow = "sameGroup"
    MaxDeliveries = 4
    MaxFailures = 1
    MaxCrashes = 1
    MaxEarlyLapses = 1
SPECIFICATION Spec
INVARIANT CountsBetweenAckedAndDelivered
CHECK_DEADLOCK FALSE
