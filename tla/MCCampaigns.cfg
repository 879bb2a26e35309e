SPECIFICATION FairSpec
CONSTANTS
  c1 = c1
  r1 = r1
  r2 = r2
  Campaigns = {c1}
  Kinds <- GroupOnceMembersAgain
  MaxTargets = 2
  Runs = {r1, r2}
  MaxEvents = 2
INVARIANTS SessionExclusive OneMessageEach NoneSkipped
PROPERTIES CycleEnds
