SPECIFICATION FairSpec
CONSTANT Samples = 6
INVARIANTS TypeOK WholeSamples
PROPERTIES NeverTwice SamplesResume
