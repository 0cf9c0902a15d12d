SPECIFICATION ServicesSpec
CONSTANTS
  ann = ann
  bob = bob
  NoUser = NoUser
  Users <- TwoUsers
  Months <- OneMonth
  Now = 1
  MaxArchives = 1
  MaxGames = 1
  MaxFetches = 2
  Styles <- MCStyles
  MaxNesting = 2
INVARIANTS ShownAreOwn RefreshShowsAll ReadsGame ReadsPartOfMainLine
PROPERTIES EveryFetchEnds
CHECK_DEADLOCK FALSE
