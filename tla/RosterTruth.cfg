SPECIFICATION RosterSpec
CONSTANTS
  Nicks <- MCNicks
  Chans <- MCChans
  Fold <- MCFold
  FirstNick = "me"
  FirstMapping = "ascii"
  MaxChannels = 1
  MaxMembers = 3
  People <- MCPeople
  Me = "Me"
  AtFirst <- MCAtFirst
  Accounts = {"a"}
  Hosts = {"h1", "h2"}
  RealNames = {"x", ""}
  CapSets <- MCCapSets
  Owners <- MCOwners
  MaxChanges = 3
INVARIANTS RecordsAreTrue SendersAreThemselves
