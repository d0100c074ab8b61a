--------------------------- MODULE MCTaskRuntime ---------------------------
(***************************************************************************)
(* Instances of TaskRuntime for TLC.  A task is a run and the key of a     *)
(* plan task or shard; each shape is a fragment of one of the plans in     *)
(* candidate-pipeline/goal.ts, cut down to the tasks that interact.        *)
(***************************************************************************)
EXTENDS TaskRuntime, TLC

CONSTANTS Shapes,      \* the shape of each run, one of those below
          TransientKey \* keys whose tool is retried twice, the others never

(* A coordinator, two shards of which the second needs the first, a join.  *)
(* The first takes its source from the Drive.                              *)
FanoutShape ==
    [keys |-> {"plan", "media", "collect", "join"},
     order |-> <<"plan", "join">>,
     requires |-> ("plan" :> {} @@ "media" :> {"plan"} @@ "collect" :> {"plan", "media"}
                   @@ "join" :> {"plan", "media", "collect"}),
     groups |-> {"transcripts"},
     shards |-> {"media", "collect"},
     recoverable |-> {"media", "collect", "join"},
     effects |-> {"collect"},
     drive |-> {"media"}, notification |-> {}, publication |-> {}]

(* The sequential workflow: documents and transcription need the snapshot  *)
(* and run side by side, so that one may fail while the other waits for    *)
(* the Drive.  The other one does not wait here.                           *)
BranchShape ==
    [keys |-> {"snapshot", "documents", "transcription"},
     order |-> <<"snapshot", "documents", "transcription">>,
     requires |-> ("snapshot" :> {} @@ "documents" :> {"snapshot"} @@ "transcription" :> {"snapshot"}),
     groups |-> {}, shards |-> {},
     recoverable |-> {"snapshot", "documents", "transcription"},
     effects |-> {"documents", "transcription"},
     drive |-> {"documents"}, notification |-> {}, publication |-> {}]

(* Two independent branches and the end of the pipeline.                   *)
DeliveryShape ==
    [keys |-> {"snapshot", "matrix", "publication", "notification"},
     order |-> <<"snapshot", "matrix", "publication", "notification">>,
     requires |-> ("matrix" :> {} @@ "snapshot" :> {} @@ "publication" :> {"matrix", "snapshot"}
                   @@ "notification" :> {"publication"}),
     groups |-> {}, shards |-> {},
     recoverable |-> {"matrix", "snapshot", "publication", "notification"},
     effects |-> {"matrix", "publication", "notification"},
     drive |-> {"publication"}, notification |-> {"notification"}, publication |-> {"publication"}]

DeliveryShapes == [r \in Run |-> DeliveryShape]
FanoutShapes == [r \in Run |-> FanoutShape]
BranchShapes == [r \in Run |-> BranchShape]

(* While there is one request there is one run, which has either shape.    *)
EitherShape ==
    LET first == CHOOSE r \in Run : TRUE IN
    [r \in Run |-> IF r = first THEN FanoutShape ELSE BranchShape]

ShapeOf(t) == Shapes[t[1]]
Position(t) == CHOOSE i \in DOMAIN ShapeOf(t).order : ShapeOf(t).order[i] = t[2]

(* TLC evaluates a definition that stands for a constant at every use, but *)
(* the definitions it refers to once.  Hence the two steps, and the @@ that *)
(* makes a function a table.                                               *)
Tasks == UNION {{<<r, k>> : k \in Shapes[r].keys} : r \in Run}
Groups == UNION {{<<r, g>> : g \in Shapes[r].groups} : r \in Run}
Tabulated(f) == f @@ <<>>
TasksIn(Keys(_)) == {t \in Tasks : t[2] \in Keys(ShapeOf(t))}

Plan ==
    [candidate |-> Tabulated([g \in Goal |-> CHOOSE c \in Candidate : TRUE]),
     goal |-> Tabulated([r \in Run |-> CHOOSE g \in Goal : TRUE]),
     run |-> Tabulated([t \in Tasks |-> t[1]]),
     key |-> Tabulated([t \in Tasks |-> t[2]]),
     class |-> Tabulated([t \in Tasks |-> CHOOSE c \in RoutingClass : TRUE]),
     requires |-> Tabulated([t \in Tasks |->
         {<<t[1], k>> : k \in ShapeOf(t).requires[t[2]]}]),
     before |-> Tabulated([t \in Tasks |->
         IF t[2] \in ShapeOf(t).shards THEN {}
         ELSE {<<t[1], ShapeOf(t).order[i]>> : i \in 1..(Position(t) - 1)}]),
     shards |-> Tabulated([g \in Groups |-> {<<g[1], k>> : k \in ShapeOf(g).shards}]),
     coordinator |-> Tabulated([g \in Groups |-> <<g[1], "plan">>]),
     join |-> Tabulated([g \in Groups |-> <<g[1], "join">>]),
     effect |-> TasksIn(LAMBDA s : s.effects),
     recoverable |-> TasksIn(LAMBDA s : s.recoverable),
     drive |-> TasksIn(LAMBDA s : s.drive),
     notification |-> TasksIn(LAMBDA s : s.notification),
     publication |-> TasksIn(LAMBDA s : s.publication),
     failures |-> Tabulated([t \in Tasks |-> IF t[2] \in TransientKey THEN 2 ELSE 1])]

MCTask == Tasks
MCGroup == Groups
MCCandidateOf == Plan.candidate
MCGoalOf == Plan.goal
MCRunOf == Plan.run
MCKeyOf == Plan.key
MCClassOf == Plan.class
MCRequires == Plan.requires
MCBefore == Plan.before
MCShardsOf == Plan.shards
MCCoordinatorOf == Plan.coordinator
MCJoinOf == Plan.join
MCEffectTask == Plan.effect
MCRecoverableTask == Plan.recoverable
MCDriveTask == Plan.drive
MCNotificationTask == Plan.notification
MCPublicationTask == Plan.publication
MCMaxFailures == Plan.failures
NoTasks == {}

=============================================================================
