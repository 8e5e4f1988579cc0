SPECIFICATION Spec
CONSTANTS
    Deployers = {d1, d2}
    Images = {i1, i2}
    MaxTemplates = 2
    MaxDeploys = 1
    NoImage = NoImage
INVARIANTS
    RecordFits
CHECK_DEADLOCK FALSE
