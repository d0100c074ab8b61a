SPECIFICATION FairSpec
CONSTANTS
    Candidate = {c1}
    Goal = {g1}
    Run = {r1, r2}
    Worker = {w1}
    PollingWorker = {}
    RoutingClass = {control}
    NoRun = NoRun
    NoWorker = NoWorker
    Shapes <- EitherShape
    TransientKey = {"media"}
    Task <- MCTask
    Group <- MCGroup
    CandidateOf <- MCCandidateOf
    GoalOf <- MCGoalOf
    RunOf <- MCRunOf
    KeyOf <- MCKeyOf
    ClassOf <- MCClassOf
    Requires <- MCRequires
    Before <- MCBefore
    ShardsOf <- MCShardsOf
    CoordinatorOf <- MCCoordinatorOf
    JoinOf <- MCJoinOf
    EffectTask <- MCEffectTask
    RecoverableTask <- MCRecoverableTask
    DriveTask <- MCDriveTask
    DeferrableTask <- NoTasks
    NotificationTask <- MCNotificationTask
    PublicationTask <- MCPublicationTask
    MaxFailures <- MCMaxFailures
    AttemptLimit = 5
    RequestLimit = 5
    MaxPerRun = 2
    MaxActivePool = 2
    MaxClaims = 5
    MaxRequests = 1
CHECK_DEADLOCK FALSE
INVARIANTS WaitingRunIsResumable StartedAfterDependencies JoinCoversGroup LeaseExclusive RunnableIsDispatched NoLostPromotion
PROPERTIES SettledTasks RunEndsOrRunsDry
