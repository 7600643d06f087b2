SPECIFICATION Spec
INVARIANTS
    TypeOK
    FilesAreListedAndScheduled
    NoChangeIsLost
    ReadsAreServed
    ServiceServesItsCaller
    SyncConditionsAreCurrent
    TransfersAreCounted
    ConnectionsAreReleased
    RecordsSurviveTasks
    CopiesEndAsTold
    CallsAreUnderstood
    ClientsStayRegistered
    ResultsAreTheServices
CHECK_DEADLOCK FALSE
