SPECIFICATION EncoderSpec
CONSTANTS
  NumStreams = 1
  Kilo = 10
  Fps = 1
  StartRate = 30
  Allocations <- OneStream
  MaxRates <- Maxima
  MaxFrames = 4
INVARIANTS
  RateWithinMax
  MeetsTarget
