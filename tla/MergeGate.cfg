\* The reviews with three pushes and three ticks, the build with two pushes and one;
\* main moves up to twice.
CONSTANTS
  Edits <- MCEdits
  Lanes <- MCLanes
  MaxTime = 3
  MaxPushes = 3
  MaxMain = 3
SPECIFICATION Spec
CONSTRAINT ReviewsOrBuilds
INVARIANTS TypeOK RequiredHasReported PassedHeadWasReviewed AuditedMergeWasReviewed
PROPERTY RelevantChangesAreBuilt
CHECK_DEADLOCK FALSE
