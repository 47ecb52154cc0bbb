CONSTANTS
  coll = coll
  boss = boss
  plain = plain
  buff = buff
  Path = {coll, boss, plain, buff}
  FrontFiles <- MCFront
  Lists <- MCLists
  Cites <- MCCites
  MaxVersion = 2
  Newest <- MCNewest
  Retries = 2
  Batch = 3
  Workers = 2
  NoEntry = NoEntry
  own = own
  common = common
  one = one
  two = two
  Source = {own, common, one, two}
  Pinned <- MCPinned
  Family <- MCFamily
  Attempts = 2
  PoolSize = 2
  list = list
  hero = hero
  raid = raid
  maze = maze
  curse = curse
  Raw = {list, hero, raid, maze, curse}
  Versions = {1, 2}
  Collections <- MCCollections
  Directories <- MCDirectories
  Entities <- MCEntities
  RowKey = {"skill", "stage", "wave"}
  RowData = {1, 2}
  Rows <- MCRows
  Releases = {1, 2}
  Supplied <- MCSupplied
  Snapshots <- MCSnapshots
  NoBuild = NoBuild
  NoDatabase = NoDatabase
SPECIFICATION MCSpec
INVARIANT EntriesTruthful
PROPERTY PlainRunKeepsRaw
PROPERTY CleanRunIsComplete
PROPERTY EndsVerified
PROPERTY WholeStaysWhole
PROPERTY PublishedAccountsForAll
PROPERTY AugmentRetains
PROPERTY FetchersEnd
CHECK_DEADLOCK FALSE
