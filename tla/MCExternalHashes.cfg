CONSTANTS
  own = own
  common = common
  one = one
  two = two
  Source = {own, common, one, two}
  Pinned <- MCPinned
  Family <- MCFamily
  Attempts = 2
  PoolSize = 2
SPECIFICATION ExternalSpec
CHECK_DEADLOCK FALSE
PROPERTY HashesKept
