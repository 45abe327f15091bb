SPECIFICATION Spec
CONSTANTS
    b1 = b1  b2 = b2  r1 = r1  r2 = r2
    Bentos = {b1, b2}
    Runners = {r1, r2}
    RunnersOf <- Moved
    Api = Api  AnyBento = AnyBento  Absent = Absent
    Debuggable = {r2}
    RunnerLabel = FALSE
    MaxEdits = 1
    MaxFaults = 1
INVARIANTS TypeOK RoutesRight RunnerServicesStay VersionsAgree
CHECK_DEADLOCK FALSE
