SPECIFICATION FairSpec
CONSTANTS
    runtime = runtime
    plugin = plugin
    PluginServiceConn = PluginServiceConn
    RuntimeServiceConn = RuntimeServiceConn
    End = {runtime, plugin}
    Conn = {PluginServiceConn, RuntimeServiceConn}
    BlockedEnds = {runtime}
    QueueLength = 1
    MaxFrames <- MCFrames
    None = None
CHECK_DEADLOCK FALSE
INVARIANTS
    NothingDropped
PROPERTIES
    ImplementsChannels
    LossIsNoticed
    NobodyHoldsUp
