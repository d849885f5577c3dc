SPECIFICATION Spec
CONSTANTS
    DefaultRto = 200
    MinRto = 20
    MaxRto = 2000
    Samples = {0, 7, 450, 3000}
INVARIANTS
    RtoBounded
    EstimateInRange
    RtoAboveEstimate
