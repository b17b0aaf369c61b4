SPECIFICATION Spec
CONSTANTS
  Nicks <- MCNicks
  Chans <- MCChans
  Fold <- MCFold
  FirstNick = "me"
  FirstMapping = "rfc1459"
  MaxChannels = 2
  MaxMembers = 2
INVARIANTS MembersAreTracked SelfIsOurs NoLeftovers
CHECK_DEADLOCK FALSE
