SPECIFICATION Spec
INVARIANTS
    TypeOK
    PlaceholdersAreRight
    ReportsAreRight
    ChangeLogIsComplete
    FolderIsTracked
    OpenFilesAreKept
    FoldersAreWatched
    DentryFilesAreRight
PROPERTIES
    LateStepsAreHarmless
CHECK_DEADLOCK FALSE
