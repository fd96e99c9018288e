SPECIFICATION Spec
CONSTANTS
    Farms <- AllFarms
    Modes = {"ntlm", "integrated", "basic", "anonymous"}
    Priming = TRUE
    Lists = {"cases", "users"}
    Services <- AllServices
INVARIANTS Consistent  ProbeProves ComparisonsHold CompleteIsReadable
CHECK_DEADLOCK FALSE
