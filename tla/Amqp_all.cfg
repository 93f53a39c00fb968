SPECIFICATION Spec
CONSTANTS
    MaxMillis = 1000
    MaxCalls = 3
    Bodies <- SampleBodies
    Settings <- SampleSettings
    Annotations <- SampleAnnotations
    Applications <- SampleApplications
    Others <- SampleOthers
INVARIANTS
    RoundTrip
    SizeIsLength
    OthersUnderstood
CHECK_DEADLOCK FALSE
