CONSTANTS
  item1 = item1
  item2 = item2
  Item = {item1, item2}
  Zero = item1
  LineDelim = item2
  Size = 2
  MaxConsecutiveEmptyReads = 2
  Count <- MCCount
  Length <- MCLength
  Chunk <- MCChunk
SPECIFICATION FairSpec
PROPERTY UnreadsLast
