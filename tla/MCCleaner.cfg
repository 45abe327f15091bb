SPECIFICATION FairSpec
CONSTANTS
    b1 = b1  b2 = b2  r1 = r1  r2 = r2
    Bentos = {b1, b2}
    Runners = {r1}
    RunnersOf <- OneRunner
    Api = Api  AnyBento = AnyBento  Absent = Absent
    Debuggable = {}
    RunnerLabel = TRUE
    MaxEdits = 1
    MaxFaults = 1
PROPERTIES ServedInTheEnd AbandonedServicesGo
CHECK_DEADLOCK FALSE
