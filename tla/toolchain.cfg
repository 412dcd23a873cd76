CONSTANTS
    Jobs <- AllJobs
    Ddr2Bytes = 350000
    Vectors = 2
    Warmup = 1
    Iterations = 2
    Runs = 2
    PageSize = 4096
SPECIFICATION Spec
CHECK_DEADLOCK FALSE
INVARIANTS
    DpIsBest
    PlanAttainsTotal
    ManifestReproducible
    LayoutFits
    ReferenceIsModel
    BitExact
    NoFalsePass
    ColdIsCold
    BaselinesComputeModel
    ProfileFeedsAll
