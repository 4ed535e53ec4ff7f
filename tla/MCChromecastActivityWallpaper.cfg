SPECIFICATION Spec
CONSTANTS
    FrameCount = 2
    Images = {i1, i2}
    Onward = TRUE
    Attempts = 2
    Sizes <- TwoSizes
    Peak = 10
    Refresh = 10
    MaximumInterval = 4
    LateLimit = 2
    PacingWindow = 4
    MeasureFrames = 2
    SettleFrames = 1
    FirstHold = 60
    LastHold = 240
    Unstable = 200
    CostMargin = 4
    LeadStep = 6
    LeadDecay = 1
    Disturbances = 8
    Calm = 80
    Costs = {5, 14, 28}
PROPERTY ReleasedWhenUnused
