CONSTANTS
  Horizon = 3
  Episodes <- Episodes2
  MaxReviews = 2
  Takes <- TakesDef
  Configs <- ConfigsDef
  MaxVersion = 2
  MaxBuilds = 2
  Archives <- Archives2
  ArchiveKinds <- ArchiveKindsDef
  MaxLabels = 2
  Openings <- OpeningsDef
SPECIFICATION PipelineSpec
INVARIANT SplitAtEpisodes
CHECK_DEADLOCK FALSE
