SPECIFICATION Spec
CONSTANTS
    b1 = b1  plain = plain  debug = debug
    api = api  apiDebug = apiDebug  hpa = hpa  service = service
    Bentos = {b1}
    Configs = {plain}
    Children = {api, hpa, service}
    Services = {service}
    HPAs = {hpa}
    WantedBy <- Wants
    Steps <- AllSteps
    NoBD = NoBD  Absent = Absent  Foreign = Foreign
    MaxActs = 0
    MaxFaults = 0
    MaxRestarts = 0
    PromptCaches = FALSE
    TamperServices = FALSE
INVARIANTS RestsOnlyWhenDone
CHECK_DEADLOCK FALSE
