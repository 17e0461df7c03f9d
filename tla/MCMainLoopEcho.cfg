\* A byte has four values; one ping.
CONSTANTS
    Base = 4
    Interval = 6
    EchoRequest = 2
    MinArp = 2
    MinIp = 1
    FrameLengths = {1, 3, 5}
    SegmentLen = 3
    ReportLen = 2
    MaxFrames = 1
    MaxTicks = 0
SPECIFICATION Spec
INVARIANT
    AdjustmentCorrect
