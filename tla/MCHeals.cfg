SPECIFICATION FairSpec
CONSTANTS
    b1 = b1  plain = plain  debug = debug
    api = api  apiDebug = apiDebug  hpa = hpa  service = service
    Bentos = {b1}
    Configs = {plain, debug}
    Children = {apiDebug, hpa, service}
    Services = {service}
    HPAs = {hpa}
    WantedBy <- Wants
    Steps <- DebugSteps
    NoBD = NoBD  Absent = Absent  Foreign = Foreign
    MaxActs = 2
    MaxFaults = 1
    MaxRestarts = 1
    PromptCaches = TRUE
    TamperServices = TRUE
PROPERTIES DesiredStateReached ComesToRest NothingLeftBehind
CHECK_DEADLOCK FALSE

