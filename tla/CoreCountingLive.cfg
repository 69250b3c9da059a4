SPECIFICATION FairSpec
CONSTANT numCores = 1
PROPERTIES CountingResumes CountsCollected
