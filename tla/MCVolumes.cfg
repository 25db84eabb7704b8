\* A size and a count edited in either order, a claim retained, one failed pass,
\* evicted pod or refused resize, caches one version late.
SPECIFICATION FairSpec
CONSTANTS
  Templates = {"lib"}
  Sizes = {1, 2}
  Counts = {1, 2}
  Retained = {2}
  MaxLag = 1
  MaxEdits = 2
  MaxFaults = 1
INVARIANTS RecreatedAroundMembers
PROPERTIES DeletedOnlyToGrow ReportedMeansUsable Expands
