CONSTANTS
  Horizon = 3
  Episodes <- Episodes2
  MaxReviews = 2
  Takes <- TakesDef
  Configs <- ConfigsDef
  MaxVersion = 2
  MaxBuilds = 3
  Archives <- Archives2
  ArchiveKinds <- ArchiveKindsDef
  MaxLabels = 2
  Openings <- OpeningsDef
SPECIFICATION MCSpec
INVARIANTS
    ShardRootIsSound
    BuiltFromWhatItNames
    ViewFromOneMaster
    NothingLeaks
    RowsAreSound
    ArchiveOutputIsVetted
PROPERTY
    PublishedRootIsSound
CHECK_DEADLOCK FALSE
