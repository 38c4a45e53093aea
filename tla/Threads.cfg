SPECIFICATION FairSpec
CONSTANTS
    r1 = r1
    r2 = r2
    r3 = r3
    t1 = t1
    t2 = t2
    Requests = {r1, r2, r3}
    Threads = {t1, t2}
    InjectionMode = "block"
INVARIANTS
    OneJobPerWait
PROPERTIES
    TimedWaitsEnd
    PatientWaitsEnd
