SPECIFICATION Spec
CONSTANTS
  NumEvents = 2
  Metrics <- MCMetrics
  MetricSize <- MCMetricSize
  Counting <- MCCounting
  Sampled = {1}
  Profiles <- MCProfiles
  Asked = {2}
  MaxCounts = 4
  TestRows <- MCTestRows
  Together <- MCTogether
  Unknown = Unknown
  Collected = Collected
  End = End
  Elsewhere = Elsewhere
  Garbage = Garbage
INVARIANTS SessionKept AnnotateReadsInBounds 
PROPERTY Generates
