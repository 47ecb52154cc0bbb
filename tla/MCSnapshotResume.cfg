CONSTANTS
  coll = coll
  boss = boss
  plain = plain
  buff = buff
  Path = {coll, boss, plain, buff}
  FrontFiles <- MCFront
  Lists <- MCLists
  Cites <- MCCites
  MaxVersion = 2
  Newest <- MCNewest
  Retries = 2
  Batch = 3
  Workers = 2
  NoEntry = NoEntry
SPECIFICATION FetchSpec
CHECK_DEADLOCK FALSE
INVARIANT Resumable
