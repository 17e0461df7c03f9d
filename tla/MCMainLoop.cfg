\* A byte has four values, a word sixteen.  The interval needs both bytes of
\* time, as 300 does; a frame of five is longer than a byte can count.
CONSTANTS
    Base = 4
    Interval = 6
    EchoRequest = 2
    MinArp = 2
    MinIp = 1
    FrameLengths = {1, 3, 5}
    SegmentLen = 3
    ReportLen = 2
    MaxFrames = 2
    MaxTicks = 3
SPECIFICATION Spec
INVARIANTS
    BytesConserved
    EchoVerifies
PROPERTIES
    ReportsSpaced
