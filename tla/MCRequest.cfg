SPECIFICATION Spec
CONSTANTS
    b1 = b1  plain = plain  debug = debug
    api = api  apiDebug = apiDebug  hpa = hpa  service = service
    Bentos = {b1}
    Configs = {plain}
    Children = {api}
    Services = {}
    HPAs = {}
    WantedBy <- Wants
    Steps <- ApiSteps
    NoBD = NoBD  Absent = Absent  Foreign = Foreign
    MaxActs = 0
    MaxFaults = 0
    MaxRestarts = 0
    PromptCaches = TRUE
    TamperServices = TRUE
INVARIANTS RequestFoundIsTrue
CHECK_DEADLOCK FALSE
