CONSTANTS
  item1 = item1
  item2 = item2
  Item = {item1, item2}
  Zero = item1
  SmallBufferSize = 1
  MinRead = 2
  MaxInt = 8
  MaxAlloc = 4
  Slack = 1
  Owned <- MCOwned
  Input <- MCInput
  Count <- MCCount
  Room <- MCRoom
  Delim <- MCDelim
  Length <- MCLength
SPECIFICATION FairSpec
INVARIANTS TypeOK GrowHolds RoomForMinRead
PROPERTIES StreamEnds MemoryKept
