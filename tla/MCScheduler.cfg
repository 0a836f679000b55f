\* The scheduler core: two workers, three tasks, one condition.
SPECIFICATION Spec
CONSTANTS
    NumWorkers = 2
    Tasks <- MCTasks
    Conds <- MCConds
    Program <- MCProgram
    T1 = T1
    T2 = T2
    T3 = T3
    c1 = c1
    Main = Main
    MainFiber = MainFiber
    None = None
    MaxFibers = 3
    RingSize = 2
    IndexModulus = 4
    TicksPerTimePoint = 1
    MaxTime = 1
INVARIANTS
    TypeOK
    QueueInvariant
    FiberPlacement
    TaskConservation
    NoLostWakeup
    DestroyedMeansDone
    NoSleepOnWork
PROPERTIES
    ImplementsSchedulerSpec
    Termination
