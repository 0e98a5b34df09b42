SPECIFICATION FairSpec
CONSTANTS
  Elements <- AllElements
  Users <- AllUsers
  Servers <- AllServers
  BeginsWith <- Prefixes
  Places <- AllPlaces
  Rank <- KeyOrder
  Faults = {"aws"}
  PageSize = 1
  MaxTime = 2
  MaxObjects = 3
  None = None
INVARIANTS
  TypeOK
  ListingComplete
  LatestNotOlder
PROPERTIES
  ListingEnds
