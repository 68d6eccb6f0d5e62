SPECIFICATION GateSpec
CONSTANTS
    GateThreads = {t1, t2}
    Settlers = {t1}
    Probabilities = {775, 790, 900}
    Confidences = {500, 600}
    Crashes = {0, 130}
    Target = 130
    Fair = 769
    StartEdge = 20
    InitialEdge = 20
    MinEdge = 18
    MaxEdge = 27
    WinStep = 1
    LossStep = 3
    Decay = 1
    ReducedEdge = 5
    ConservativeExtra = 30
    MinConfidence = 550
    ReducedMinConfidence = 450
    WarmMinSamples = 1
    LossThreshold = 3
    MaxOpen = 1
PROPERTY ReducedActs
