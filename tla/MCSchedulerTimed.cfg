\* A caller whose time points tick twice as fast as Scheduler::TimePoint
\* (microseconds against a system clock of two microseconds, say) waits until
\* its time 3.
SPECIFICATION Spec
CONSTANTS
    NumWorkers = 1
    Tasks <- MCTimedTasks
    Conds <- MCTimedConds
    Program <- MCTimedProgram
    T1 = T1
    T2 = T2
    T3 = T3
    c1 = c1
    Main = Main
    MainFiber = MainFiber
    None = None
    MaxFibers = 1
    RingSize = 2
    IndexModulus = 4
    TicksPerTimePoint = 2
    MaxTime = 4
PROPERTIES
    TimeoutNotEarly
