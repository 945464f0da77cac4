\* The write path as spec 4.8 wires it: the listener subscribed, a locker
\* given, and t_link_goto's first row in the visited link's group.  Two
\* goroutines, one invisibility timeout during processing, no errors.
CONSTANTS
    Visits = {"v1", "v2", "v3"}
    UvOf <- MCUvOf
    IpOf <- MCIpOf
    Workers = {w1, w2}
    SubscribeStores = TRUE
    LockerSet = TRUE
    GotoFirstRow = "sameGroup"
    MaxDeliveries = 2
    MaxFailures = 0
    MaxCrashes = 0
    MaxEarlyLapses = 1
    Free = Free
SPECIFICATION Spec
INVARIANT TypeOK
INVARIANT UvCountedOnce
INVARIANT CountsBetweenAckedAndDelivered
PROPERTY VisitStatsSpec
\* Once every event is acknowledged the receive loop polls an empty queue:
\* nothing changes any more, which is the end of a finite run, not a hang.
CHECK_DEADLOCK FALSE
