SPECIFICATION Spec
CONSTANTS
  NumericSides <- MCNumericSides
  NumericFactors = {0, 5}
  Ratios <- MCRatios
  MetricSides <- MCMetricSides
  AlteredTo = {1000, 1004, 1008, 100, 10040, 13}
  PageSides <- MCPageSides
  BlockSides <- MCBlockSides
  RowSides <- MCRowSides
  FactTexts <- MCTexts
  Mentions <- MCMentions
  ReviewPairs <- MCReviewPairs
  Answers <- MCAnswers
  EventSides <- MCEventSides
  Reports <- MCReports
  NewNumbers = {5200}
  SeenItems <- MCSeenItems
  LayerItems <- MCTextItems
  TableSides <- MCTableSides
  BranchDocs <- MCBranchDocs
  Pages <- MCPages
  NewTexts <- MCNewTexts
CHECK_DEADLOCK FALSE
INVARIANTS PairsAreFair SameReportIsClean AlterationIsTold LikeIsComparedWithLike BudgetsAreKept
