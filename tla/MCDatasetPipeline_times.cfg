CONSTANTS
  Horizon = 3
  Episodes <- Episodes2
  MaxReviews = 2
  Takes <- TakesDef
  Configs <- ViewConfigsDef
  MaxVersion = 2
  MaxBuilds = 3
  Archives <- Archives2
  ArchiveKinds <- ArchiveKindsDef
  MaxLabels = 2
  Openings <- ViewOpeningsDef
SPECIFICATION PipelineSpec
INVARIANT BuiltViewValidates
CHECK_DEADLOCK FALSE
