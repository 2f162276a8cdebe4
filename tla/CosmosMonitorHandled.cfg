SPECIFICATION CosmosMonitorSpec
CONSTANTS
    Encodings = {"plain", "base64"}
    Methods = {"create_htlc"}
    StartBack = 2
    StartHeights = {0, 1}
    MaxHeightsPerBatch = 2
    ResetHeights = {2}
    InitialHeight = 2
    MaxHeight = 5
    MaxMonitorStarts = 2
INVARIANT FetchedIsHandled
CHECK_DEADLOCK FALSE
