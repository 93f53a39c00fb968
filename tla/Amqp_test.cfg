SPECIFICATION Spec
CONSTANTS
    MaxMillis = 1000
    MaxCalls = 1
    Bodies <- SampleBodies
    Settings <- SampleSettings
    Annotations <- SampleAnnotations
    Applications <- SampleApplications
    Others <- SampleOthers
INVARIANTS
    EncodeDecode
CHECK_DEADLOCK FALSE
