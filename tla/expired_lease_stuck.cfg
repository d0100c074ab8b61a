SPECIFICATION FairSpec
CONSTANTS
    Candidate = {c1}
    Goal = {g1}
    Run = {r1}
    Worker = {w1}
    PollingWorker = {}
    RoutingClass = {control}
    NoRun = NoRun
    NoWorker = NoWorker
    Shapes <- DeliveryShapes
    TransientKey = {}
    Task <- MCTask
    Group <- MCGroup
    CandidateOf <- MCCandidateOf
    GoalOf <- MCGoalOf
    RunOf <- MCRunOf
    KeyOf <- MCKeyOf
    ClassOf <- MCClassOf
    Requires <- MCRequires
    Before <- MCBefore
    ShardsOf <- MCShardsOf
    CoordinatorOf <- MCCoordinatorOf
    JoinOf <- MCJoinOf
    EffectTask <- MCEffectTask
    RecoverableTask <- MCRecoverableTask
    DriveTask <- MCDriveTask
    DeferrableTask <- NoTasks
    NotificationTask <- MCNotificationTask
    PublicationTask <- MCPublicationTask
    MaxFailures <- MCMaxFailures
    AttemptLimit = 4
    RequestLimit = 4
    MaxPerRun = 2
    MaxActivePool = 2
    MaxClaims = 2
    MaxRequests = 1
CHECK_DEADLOCK FALSE
PROPERTY ExpiredLeaseIsFreed
