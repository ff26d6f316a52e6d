SPECIFICATION FairSpec
CONSTANTS
    Savers <- MCSavers
    Main = "main"
    Nobody = Nobody
    Absent = Absent
    Size = 2
    MaxVersion = 2
INVARIANTS
    SnapshotIntact
PROPERTIES
    NeverPublishesOlder
    SaveCoversTheCall
    RestartLosesNothing
    MutexIsReleased
