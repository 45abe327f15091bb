SPECIFICATION Spec
CONSTANTS
    b1 = b1  b2 = b2  r1 = r1  r2 = r2
    Bentos = {b1}
    Runners = {r1}
    RunnersOf <- OneRunner
    Api = Api  AnyBento = AnyBento  Absent = Absent
    Debuggable = {r1, Api}
    RunnerLabel = FALSE
    MaxEdits = 0
    MaxFaults = 0
INVARIANTS RunnerMapIsUsable
CHECK_DEADLOCK FALSE
