SPECIFICATION Spec
CONSTANTS
    MaxEvents = 2
    MaxFailures = 2
PROPERTY
    EndsWithTheMirrorsResult
CHECK_DEADLOCK FALSE
