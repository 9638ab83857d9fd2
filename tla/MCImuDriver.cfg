SPECIFICATION FairSpec
INVARIANTS RightBank NeverHalfConfigured MagnetometerRuns
PROPERTY SamplesResume
CHECK_DEADLOCK FALSE
