SPECIFICATION Spec
CONSTANTS
  Sources = {cycle, gpc0}
  Cycle = cycle
  BufferSize = 2
  MaxSamples = 3
INVARIANTS SamplesKept LockReleased SamplingGoesOn StoppedIsQuiet
