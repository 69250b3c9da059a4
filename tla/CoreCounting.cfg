SPECIFICATION Spec
CONSTANT numCores = 2
INVARIANTS TimersInOrder FreshValues StartedCounts
