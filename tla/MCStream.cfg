SPECIFICATION FairSpec
CONSTANTS
  Length = 4
  MaxSamples = 2
  FrameSize = 2
  MaxErrors = 1
  MaxDelay = 1
  MaxHeld = 1
  MaxOpens = 2
  SrcRates = {1, 3, 4, 5}
  TrackStart = 1
  TrackEnd = 2
  DstRates <- Rates
INVARIANT TypeOK
INVARIANT SamplesConserved
INVARIANT PacketsInOrder
INVARIANT EndsForAReason
INVARIANT ResourcesReleased
PROPERTY CallsReturn
