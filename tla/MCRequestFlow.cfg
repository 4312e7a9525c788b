CONSTANTS
    None = None
    r1 = r1
    Requests = {r1}
    Slash = 0
    Dot = 4
    WordBytes = {1, 2}
    Inbounds <- MCInbounds
    RuleSets <- MCRuleSets
    PluginOptions <- MCPluginOptions
    RequestOutputs <- MCRequestOutputs
    ResponseOutputs <- MCResponseOutputs
    Responses <- MCResponses
    Targets <- MCTargets
    Streams <- MCStreams
    Brackets <- MCBrackets
    OpaqueHeaders = {"opaque"}
SPECIFICATION Spec
INVARIANTS
    TunnelStaysOnTarget
    TunnelKeepsBytes
    ResponseSeesWhatWasSent
    BodiesNeedPermission
    NoStaleLength
    RejectIsFinal
PROPERTIES
    ImplementsForwarding
CHECK_DEADLOCK FALSE
