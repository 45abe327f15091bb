SPECIFICATION Spec
CONSTANTS
    b1 = b1  plain = plain  debug = debug
    api = api  apiDebug = apiDebug  hpa = hpa  service = service
    Bentos = {b1}
    Configs = {plain, debug}
    Children = {apiDebug, service}
    Services = {service}
    HPAs = {}
    WantedBy <- Wants
    Steps <- TwinSteps
    NoBD = NoBD  Absent = Absent  Foreign = Foreign
    MaxActs = 1
    MaxFaults = 1
    MaxRestarts = 1
    PromptCaches = FALSE
    TamperServices = TRUE
INVARIANTS TypeOK QuietStatusIsTrue
PROPERTIES KeepsPromise
CHECK_DEADLOCK FALSE
