\* Three handles: a scan, its job and a frame.
CONSTANTS
    Slots = {s1, s2, s3}
    Deviations = 2
SPECIFICATION SessionSpec
SYMMETRY Symmetry
INVARIANTS SessionType NoMismatch KindsAgree NothingLost
PROPERTY RefusedWriteKeepsFile
