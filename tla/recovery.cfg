SPECIFICATION Spec
CONSTANTS
    Candidate = {c1}
    Goal = {g1}
    Run = {r1, r2}
    Worker = {w1}
    PollingWorker = {w1}
    RoutingClass = {control}
    NoRun = NoRun
    NoWorker = NoWorker
    Shapes <- DeliveryShapes
    TransientKey = {}
    Task <- MCTask
    Group <- MCGroup
    CandidateOf <- MCCandidateOf
    GoalOf <- MCGoalOf
    RunOf <- MCRunOf
    KeyOf <- MCKeyOf
    ClassOf <- MCClassOf
    Requires <- MCRequires
    Before <- MCBefore
    ShardsOf <- MCShardsOf
    CoordinatorOf <- MCCoordinatorOf
    JoinOf <- MCJoinOf
    EffectTask <- MCEffectTask
    RecoverableTask <- MCRecoverableTask
    DriveTask <- MCDriveTask
    DeferrableTask <- MCNotificationTask
    NotificationTask <- MCNotificationTask
    PublicationTask <- MCPublicationTask
    MaxFailures <- MCMaxFailures
    AttemptLimit = 3
    RequestLimit = 4
    MaxPerRun = 2
    MaxActivePool = 2
    MaxClaims = 1
    MaxRequests = 2
CHECK_DEADLOCK FALSE
INVARIANTS ReusedNeverRuns SuccessHasEffect BudgetLedger
PROPERTIES SettledRunsStay
