\* Three threads on one event, in either mode.
SPECIFICATION Spec
CONSTANTS
    Threads = {t1, t2, t3}
    None = None
INVARIANTS
    TypeOK
    NoLostSignal
    ManualReleasesAll
PROPERTIES
    ImplementsEventSpec
    SignalReachesWaiter
