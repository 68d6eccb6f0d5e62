SPECIFICATION EngineSpec
CONSTANTS
    Main = main
    Io = io
    Dog = dog
    Worker = worker
    Replay = TRUE
    PageSize = 2
    ColdMaxPages = 3
    WarmMaxPages = 2
    CacheCap = 4
    RollingCap = 2
    MaxRounds = 5
    MaxErrors = 2
    GateThreads = {t1, t2}
    Settlers = {t1}
    Probabilities = {775, 900}
    Confidences = {600}
    Crashes = {0, 130}
    Target = 130
    Fair = 769
    StartEdge = 20
    InitialEdge = 20
    MinEdge = 18
    MaxEdge = 27
    WinStep = 1
    LossStep = 3
    Decay = 1
    ReducedEdge = 5
    ConservativeExtra = 30
    MinConfidence = 550
    ReducedMinConfidence = 450
    WarmMinSamples = 1
    LossThreshold = 3
    MaxOpen = 1
    Samples <- SomeSamples
    Points <- SomePoints
    WindowCap = 2
    Bins = 2
    StoreKeys = {"a", "b"}
    Scale = 12
    MaxAdds = 4
    Groups = 2
    ShortLen = 6
    LenRadix = 4
    CodecIds = {0, 127, 128, 16384}
    CodecMults = {100, 250}
    CodecElapsed = {0, 300, 16383, 16384}
    Hashes <- SomeHashes
    Batch = 50
    ScenDupCap = 13
    ScenRouterCap = 1
    ScenQueueCap = 1
    ScenFrames = 500
INVARIANTS
    ClientOneThread
    StopFinal
    HandledOnce
    EdgeFollows
    FamiliesSound
    Understood
    
PROPERTIES
    StopReturns
    SilenceNoticed
    CatchesUp
