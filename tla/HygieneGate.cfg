\* Two pull requests, two pushes each, of changes that are harmless apart.
CONSTANTS
  Offline = Offline
  p1 = p1
  p2 = p2
  PullRequests <- MCPullRequests
  FirstTree <- MCFirstTree
  Changes <- MCChanges
  MaxPushes = 2
  Issues = {"7"}
SYMMETRY PullRequestSymmetry
SPECIFICATION Spec
INVARIANTS MainPassesEveryScan GreenChecksAreCurrent AmendmentsAreRatified
CHECK_DEADLOCK FALSE
