SPECIFICATION Spec
CONSTANTS
    Requests <- SomeRequests
    MaxRequests = 4
    Controllers <- SomeControllers
    Items <- SomeItems
    MaxItems = 4
    Pipelines <- SomePipelines
    Policies <- SomePolicies
    Fleet <- SomeClusters
    MaxClusters = 4
    PlanningHours <- SomeHours
    HPAInputs <- SomeHPAInputs
    CapacityInputs <- SomeCapacityInputs
    Configs <- SomeConfigs
INVARIANTS
    TypeOK
    AdmissionByUrgency
    LossOnlyByPolicy
    PlanSound
    RecoveryIsEarliest
    AttemptsMatchFormula
CHECK_DEADLOCK FALSE
