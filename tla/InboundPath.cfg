SPECIFICATION Spec
CONSTANTS
  KeyBytes <- MCKeyBytes
  IsupportToken <- MCIsupportToken
  MaxIsupportKeys = 2
  MaxList = 2
  Lim <- MCLim
  MaxLine = 16
  Me <- MCMe
  Chan <- MCChan
  Nicks <- MCNicks
  Profiles <- MCProfiles
  Params <- MCParams
  Initially <- MCInitially
  Sayings <- MCSayings
  Noise <- MCNoise
  Openings <- MCOpenings
  Chunks = {7}
  MaxSent = 2
INVARIANTS BackendsAgree ModesInSync
PROPERTY KeepsStream
CHECK_DEADLOCK FALSE
